---------------------------- MODULE Parts_proofs ----------------------------
(* What five of the parts guarantee, whatever the files and edits of the     *)
(* symbol index, the writers, lines and watch of the log, the requests of    *)
(* the proxy, the projects, links and walks, and the sessions and hooks.     *)
EXTENDS MCParts, Notes_proofs, GuardCache_proofs, FiniteSetTheorems,
        NaturalsInduction, WellFoundedInduction, TLAPS

-----------------------------------------------------------------------------
(* The symbol index.                                                         *)

Hashes == Contents \cup {None, Unread}
RowSet(at) == {None} \cup [sha : Contents \cup {Unread}, stat : 0..at, by : Nat]
RunSet(at) == [kind : {"idle", "full", "changed"}, pruned : BOOLEAN, todo : SUBSET Files,
               keep : SUBSET Files, cold : BOOLEAN, known : [Files -> RowSet(at)]]
JobSet(at) == {None} \cup [stat : 0..at, known : Hashes, got : Hashes]

\* Rows that carry a file's stat are of the text that has it.
RowTrue(f) == rows[f] # None /\ disk[f] # None /\ rows[f].stat = disk[f].stat
              => rows[f].sha = Extract(f)

\* So is what a worker read; and a job knows the hash of the rows there are.
JobTrue(f) == jobs[f] # None =>
    /\ disk[f] # None /\ disk[f].stat = jobs[f].stat /\ jobs[f].got # None
           => jobs[f].got = Extract(f)
    /\ rows[f] # None => rows[f].sha = jobs[f].known

\* A full run still has to visit f: of what it loaded, only hooks took rows away.
WalkKnows(f) == run.kind = "full" /\ f \in run.todo /\ rows[f] # None => rows[f] = run.known[f]

\* Under this version's fingerprint, or a cold run on its way to it, all rows
\* are of this version.
OfVersion == ~undropped /\ (fp = version \/ (run.kind # "idle" /\ run.cold)) =>
    \A f \in Files : rows[f] # None => rows[f].by = version

GraphInv == /\ GraphTypeOK
            /\ \A f \in Files : RowTrue(f) /\ JobTrue(f) /\ WalkKnows(f)
            /\ OfVersion

-----------------------------------------------------------------------------
LEMMA GraphTyped ==
  ASSUME GraphTypeOK
  PROVE  /\ clock \in Nat /\ version \in Nat /\ fp \in 0..version
         /\ \A f \in Files : /\ disk[f] # None => /\ disk[f] \in [sha : Contents, stat : 0..clock]
                                                  /\ disk[f].sha \in Contents /\ disk[f].stat \in 0..clock
                             /\ rows[f] # None => /\ rows[f].sha \in Contents \cup {Unread}
                                                  /\ rows[f].stat \in 0..clock /\ rows[f].by \in Nat
                             /\ rows[f] \in RowSet(clock)
                             /\ jobs[f] # None => /\ jobs[f].stat \in 0..clock /\ jobs[f].known \in Hashes
                                                  /\ jobs[f].got \in Hashes
                             /\ jobs[f] \in JobSet(clock)
                             /\ run.known[f] \in RowSet(clock)
                             /\ Extract(f) \in Contents \cup {Unread}
BY DEF GraphTypeOK, Extract, Hashes, RowSet, JobSet

LEMMA BegunTyped ==
  ASSUME NEW kind \in {"full", "changed"}, NEW todo \in SUBSET Files, NEW cold \in BOOLEAN,
         NEW at, NEW known \in [Files -> RowSet(at)]
  PROVE  /\ Begun(kind, todo, cold, known) \in
              RunSet(at)
         /\ Begun(kind, todo, cold, known).kind = kind
         /\ Begun(kind, todo, cold, known).todo = todo
         /\ Begun(kind, todo, cold, known).cold = cold
         /\ Begun(kind, todo, cold, known).known = known
BY DEF Begun, RunSet

LEMMA IdleTyped ==
  /\ Idle.kind = "idle" /\ Idle.cold = FALSE
  /\ \A at : Idle \in RunSet(at)
BY DEF Idle, Begun, NoRows, RowSet, RunSet

LEMMA GraphInitInv == GraphInit => GraphInv
<1>. SUFFICES ASSUME GraphInit PROVE GraphInv
  OBVIOUS
<1>1. \A f \in Files : rows[f] = None /\ jobs[f] = None
  BY DEF GraphInit, NoJobs, NoRows
<1>2. GraphTypeOK
  <2>1. clock = 0 /\ 0..clock = {0}
    BY DEF GraphInit
  <2>2. run \in RunSet(clock)
    BY IdleTyped DEF GraphInit
  <2>3. disk \in [Files -> {None} \cup [sha : Contents, stat : 0..clock]]
    BY <2>1 DEF GraphInit
  <2>4. rows = [f \in Files |-> None] /\ jobs = [f \in Files |-> None]
    BY DEF GraphInit, NoJobs, NoRows
  <2>5. /\ rows \in [Files -> {None} \cup [sha : Contents \cup {Unread}, stat : 0..clock, by : Nat]]
        /\ jobs \in [Files -> {None} \cup [stat : 0..clock, known : Contents \cup {None, Unread},
                                           got : Contents \cup {None, Unread}]]
    BY <2>4
  <2>6. undropped \in BOOLEAN
    BY Zenon DEF GraphInit
  <2>7. /\ version \in Nat /\ fp \in 0..version /\ mishaps \in Nat
        /\ marks \subseteq Files /\ owed \subseteq Files /\ lost \subseteq Files
        /\ events \subseteq Files \cup {Rescan} /\ pending \subseteq Files \cup {Rescan}
    BY DEF GraphInit
  <2>. QED
    BY <2>1, <2>2, <2>3, <2>5, <2>6, <2>7 DEF GraphTypeOK, RowSet, RunSet
<1>. QED
  BY <1>1, <1>2 DEF GraphInv, RowTrue, JobTrue, WalkKnows, OfVersion

-----------------------------------------------------------------------------
(* The steps.                                                                *)

\* A write gives its file a stat that no row and no job has.
LEMMA EditKeeps ==
  ASSUME GraphInv, AnEdit
  PROVE  GraphInv'
<1>1. PICK f \in Files, c \in Contents \cup {None}, a \in BOOLEAN :
        Edit(f, IF c = None THEN None ELSE [sha |-> c, stat |-> clock + 1], a)
  BY DEF AnEdit
<1> DEFINE new == IF c = None THEN None ELSE [sha |-> c, stat |-> clock + 1]
<1>2. /\ clock' = clock + 1 /\ disk' = [disk EXCEPT ![f] = new]
      /\ owed' \in {owed, owed \cup {f}} /\ events' = events \cup {f}
      /\ UNCHANGED <<storeVars, pending, version, run, jobs, undropped, lost, mishaps>>
  BY <1>1 DEF Edit
<1>3. /\ clock \in Nat /\ 0..clock \subseteq 0..(clock + 1)
      /\ new # None => new \in [sha : Contents, stat : 0..(clock + 1)] /\ new.stat = clock + 1
  BY GraphTyped, GraphConstants DEF GraphInv
<1>4. GraphTypeOK'
  <2>1. disk' \in [Files -> {None} \cup [sha : Contents, stat : 0..clock']]
    BY <1>2, <1>3 DEF GraphInv, GraphTypeOK
  <2>2. rows' \in [Files -> {None} \cup [sha : Contents \cup {Unread}, stat : 0..clock', by : Nat]]
    BY <1>2, <1>3 DEF GraphInv, GraphTypeOK, storeVars
  <2>3. jobs' \in [Files -> {None} \cup [stat : 0..clock', known : Contents \cup {None, Unread},
                                       got : Contents \cup {None, Unread}]]
    BY <1>2, <1>3 DEF GraphInv, GraphTypeOK
  <2>4. run' \in [kind : {"idle", "full", "changed"}, pruned : BOOLEAN, todo : SUBSET Files, keep : SUBSET Files, cold : BOOLEAN,
                known : [Files -> {None} \cup [sha : Contents \cup {Unread}, stat : 0..clock', by : Nat]]]
    BY <1>2, <1>3 DEF GraphInv, GraphTypeOK
  <2>. QED
    BY <1>2, <1>3, <2>1, <2>2, <2>3, <2>4 DEF GraphInv, GraphTypeOK, storeVars
<1>5. ASSUME NEW g \in Files PROVE RowTrue(g)' /\ JobTrue(g)' /\ WalkKnows(g)'
  <2>1. RowTrue(g) /\ JobTrue(g) /\ WalkKnows(g)
    BY DEF GraphInv
  <2>2. rows' = rows /\ jobs' = jobs /\ run' = run
    BY <1>2 DEF storeVars
  <2>3. CASE g = f
    <3>1. disk'[g] = new
      BY <1>2, <2>3 DEF GraphInv, GraphTypeOK
    <3>2. /\ rows[g] # None => rows[g].stat # clock + 1
          /\ jobs[g] # None => jobs[g].stat # clock + 1
      BY GraphTyped DEF GraphInv
    <3>. QED
      BY <1>3, <2>1, <2>2, <3>1, <3>2 DEF RowTrue, JobTrue, WalkKnows
  <2>4. CASE g # f
    <3>1. disk'[g] = disk[g]
      BY <1>2, <2>4 DEF GraphInv, GraphTypeOK
    <3>. QED
      BY <2>1, <2>2, <3>1 DEF RowTrue, JobTrue, WalkKnows, Extract
  <2>. QED
    BY <2>3, <2>4
<1>6. OfVersion'
  BY <1>2 DEF GraphInv, OfVersion, storeVars
<1>. QED
  BY <1>4, <1>5, <1>6 DEF GraphInv

\* A step that takes rows away and touches neither the files nor the jobs.
LEMMA RowsGo ==
  ASSUME GraphInv, GraphTypeOK', UNCHANGED <<disk, version, run, jobs>>,
         \A f \in Files : rows'[f] \in {rows[f], None},
         fp' = fp \/ (run.kind = "idle" /\ ~run.cold), fp' = fp, undropped' = undropped
  PROVE  GraphInv'
<1>1. ASSUME NEW g \in Files PROVE RowTrue(g)' /\ JobTrue(g)' /\ WalkKnows(g)'
  BY DEF GraphInv, RowTrue, JobTrue, WalkKnows, Extract
<1>2. OfVersion'
  BY DEF GraphInv, OfVersion
<1>. QED
  BY <1>1, <1>2 DEF GraphInv

LEMMA PostToolKeeps ==
  ASSUME GraphInv, NEW f \in Files, PostTool(f)
  PROVE  GraphInv'
<1>1. /\ rows' \in {rows, [rows EXCEPT ![f] = None]}
      /\ marks' \in {marks, Marked(f, rows, marks)} /\ owed' = owed \ {f}
      /\ lost' \in {lost, lost \cup {f}}
      /\ UNCHANGED <<disk, clock, fp, watchVars, version, run, jobs, undropped, mishaps>>
  BY DEF PostTool
<1>2. GraphTypeOK'
  BY <1>1 DEF GraphInv, GraphTypeOK, Marked, watchVars
<1>3. \A g \in Files : rows'[g] \in {rows[g], None}
  BY <1>1 DEF GraphInv, GraphTypeOK
<1>. QED
  BY <1>1, <1>2, <1>3, RowsGo

\* The watcher's queues bear on no row.
LEMMA QueuesKeep ==
  ASSUME GraphInv, Overflow \/ Absorb
  PROVE  GraphInv'
<1>1. /\ UNCHANGED <<diskVars, storeVars, version, run, jobs, undropped, lost, mishaps>>
      /\ events' \subseteq Files \cup {Rescan} /\ pending' \subseteq Files \cup {Rescan}
  BY DEF Overflow, Absorb, Absorbed, GraphInv, GraphTypeOK
<1>2. GraphTypeOK'
  BY <1>1 DEF GraphInv, GraphTypeOK, diskVars, storeVars
<1>. QED
  BY <1>1, <1>2, RowsGo DEF diskVars, storeVars

\* A full run begins: it drops the rows, or loads them.
LEMMA FullRunKeeps ==
  ASSUME GraphInv, NEW d \in BOOLEAN, FullRun(d), run.kind = "idle",
         UNCHANGED <<diskVars, marks, fp, version, jobs>>,
         events' \subseteq Files \cup {Rescan}, pending' \subseteq Files \cup {Rescan}
  PROVE  GraphInv'
<1> DEFINE cold == fp # version
           drop == cold /\ d
<1>1. /\ ~d => cold
      /\ rows' = IF drop THEN NoRows ELSE rows
      /\ run' = Begun("full", Files, cold, rows')
      /\ lost' = {}
      /\ undropped' = IF drop THEN FALSE ELSE undropped \/ ~d
      /\ mishaps' \in {mishaps, mishaps + 1}
  BY DEF FullRun
<1>2. rows' \in [Files -> RowSet(clock)] /\ \A f \in Files : rows'[f] \in {rows[f], None}
  BY <1>1 DEF GraphInv, GraphTypeOK, RowSet, NoRows
<1>3. /\ run' \in RunSet(clock)
      /\ run'.known = rows' /\ run'.cold = cold
  <2>1. Files \in SUBSET Files /\ cold \in BOOLEAN /\ "full" \in {"full", "changed"}
    OBVIOUS
  <2>. HIDE DEF cold
  <2>. QED
    BY <1>1, <1>2, <2>1, BegunTyped
<1>4. GraphTypeOK'
  <2>1. UNCHANGED <<disk, clock, owed, marks, fp, version, jobs>>
    BY DEF diskVars
  <2>2. rows' \in [Files -> {None} \cup [sha : Contents \cup {Unread}, stat : 0..clock', by : Nat]]
    BY <1>2, <2>1 DEF RowSet
  <2>3. run' \in RunSet(clock)'
    BY <1>3, <2>1 DEF RunSet, RowSet
  <2>4. undropped' \in BOOLEAN /\ lost' \subseteq Files /\ mishaps' \in Nat
    <3>1. undropped' \in BOOLEAN
      BY <1>1, Zenon DEF GraphInv, GraphTypeOK
    <3>2. lost' \subseteq Files /\ mishaps' \in Nat
      BY <1>1 DEF GraphInv, GraphTypeOK
    <3>. QED
      BY <3>1, <3>2
  <2>. QED
    BY <2>1, <2>2, <2>3, <2>4 DEF GraphInv, GraphTypeOK, RunSet, RowSet
<1>5. ASSUME NEW g \in Files PROVE RowTrue(g)' /\ JobTrue(g)' /\ WalkKnows(g)'
  BY <1>2, <1>3 DEF GraphInv, RowTrue, JobTrue, WalkKnows, Extract, diskVars
<1>6. OfVersion'
  <2>1. CASE drop
    BY <1>1, <2>1 DEF OfVersion, NoRows
  <2>2. CASE ~drop /\ d
    BY <1>1, <1>3, <2>2 DEF GraphInv, OfVersion
  <2>3. CASE ~d
    BY <1>1, <2>3 DEF OfVersion
  <2>. QED
    BY <2>1, <2>2, <2>3
<1>. QED
  BY <1>4, <1>5, <1>6 DEF GraphInv

LEMMA BeginKeeps ==
  ASSUME GraphInv, ToolRun \/ Settle
  PROVE  GraphInv'
<1>0. run.kind = "idle" /\ UNCHANGED <<diskVars, marks, fp, version, jobs>>
  BY DEF ToolRun, Settle
<1>1. CASE ToolRun
  BY <1>0, <1>1, FullRunKeeps DEF ToolRun, watchVars, GraphInv, GraphTypeOK
<1>2. CASE Settle /\ \E d \in BOOLEAN : FullRun(d)
  BY <1>0, <1>2, FullRunKeeps DEF Settle, GraphInv, GraphTypeOK
<1>3. CASE Settle /\ run' = Begun("changed", pending, FALSE, NoRows) /\ Rescan \notin pending
           /\ UNCHANGED <<rows, undropped, lost, mishaps>>
  <2>1. NoRows \in [Files -> RowSet(clock)] /\ pending \in SUBSET Files
    BY <1>3 DEF NoRows, RowSet, GraphInv, GraphTypeOK
  <2>2. /\ run' \in RunSet(clock)
        /\ run'.kind = "changed" /\ run'.cold = FALSE
    <3>1. FALSE \in BOOLEAN /\ "changed" \in {"full", "changed"}
      OBVIOUS
    <3>2. /\ Begun("changed", pending, FALSE, NoRows) \in RunSet(clock)
          /\ Begun("changed", pending, FALSE, NoRows).kind = "changed"
          /\ Begun("changed", pending, FALSE, NoRows).cold = FALSE
      <4>1. ASSUME NEW b \in BOOLEAN
            PROVE  /\ Begun("changed", pending, b, NoRows) \in RunSet(clock)
                   /\ Begun("changed", pending, b, NoRows).kind = "changed"
                   /\ Begun("changed", pending, b, NoRows).cold = b
        BY <2>1, <3>1, BegunTyped
      <4>. QED
        BY <3>1, <4>1, Zenon
    <3>. QED
      BY <1>3, <3>2
  <2>3. GraphTypeOK'
    BY <1>0, <1>3, <2>2 DEF Settle, GraphInv, GraphTypeOK, RowSet, RunSet, diskVars
  <2>. QED
    BY <1>0, <1>3, <2>2, <2>3
    DEF GraphInv, RowTrue, JobTrue, WalkKnows, OfVersion, Extract, diskVars
<1>. QED
  BY <1>1, <1>2, <1>3 DEF Settle

\* The walk: a job is for the stat of now, and knows the rows of now.
LEMMA VisitKeeps ==
  ASSUME GraphInv, NEW f \in Files, Visit(f)
  PROVE  GraphInv'
<1> DEFINE known == IF run.kind = "full" THEN run.known[f] ELSE rows[f]
           gone == disk[f] = None
           visit == [stat |-> disk[f].stat, got |-> None,
                   known |-> IF known = None THEN None ELSE known.sha]
<1>1. /\ f \in run.todo
      /\ run' = [kind |-> run.kind, pruned |-> run.pruned, cold |-> run.cold,
                 todo |-> run.todo \ {f}, known |-> [run.known EXCEPT ![f] = None],
                 keep |-> IF gone THEN run.keep ELSE run.keep \cup {f}]
      /\ jobs' = IF gone \/ (known # None /\ known.stat = disk[f].stat)
                 THEN jobs ELSE [jobs EXCEPT ![f] = visit]
      /\ rows' \in {rows, [rows EXCEPT ![f] = None]}
      /\ marks' \in {marks, Marked(f, rows, marks)}
      /\ lost' \in {lost, lost \ {f}, lost \cup {f}} /\ mishaps' \in {mishaps, mishaps + 1}
      /\ UNCHANGED <<diskVars, fp, watchVars, version, undropped>>
  BY DEF Visit
<1>2. /\ run' \in RunSet(clock) /\ run'.kind = run.kind /\ run'.cold = run.cold
      /\ run'.todo = run.todo \ {f}
      /\ \A g \in Files : g # f => run'.known[g] = run.known[g]
  <2>1. /\ run.kind \in {"idle", "full", "changed"} /\ run.pruned \in BOOLEAN
        /\ run.todo \subseteq Files /\ run.keep \subseteq Files /\ run.cold \in BOOLEAN
        /\ run.known \in [Files -> RowSet(clock)]
    BY DEF GraphInv, GraphTypeOK, RowSet
  <2>2. /\ [run.known EXCEPT ![f] = None] \in [Files -> RowSet(clock)]
        /\ (IF gone THEN run.keep ELSE run.keep \cup {f}) \subseteq Files
    BY <2>1 DEF RowSet
  <2>. QED
    BY <1>1, <2>1, <2>2 DEF RunSet
<1>3. known \in RowSet(clock) /\ (rows[f] # None => known # None /\ known.sha = rows[f].sha)
  BY <1>1, GraphTyped DEF GraphInv, WalkKnows
<1>4. ~gone => visit \in [stat : 0..clock, known : Hashes, got : Hashes]
  BY <1>3, GraphTyped DEF GraphInv, RowSet, Hashes
<1>5. \A g \in Files : rows'[g] \in {rows[g], None}
  BY <1>1 DEF GraphInv, GraphTypeOK
<1>6. GraphTypeOK'
  <2>1. rows' \in [Files -> {None} \cup [sha : Contents \cup {Unread}, stat : 0..clock, by : Nat]]
    BY <1>1 DEF GraphInv, GraphTypeOK
  <2>2. jobs' \in [Files -> {None} \cup [stat : 0..clock, known : Contents \cup {None, Unread},
                                         got : Contents \cup {None, Unread}]]
    BY <1>1, <1>4 DEF GraphInv, GraphTypeOK, Hashes
  <2>3. marks' \subseteq Files /\ lost' \subseteq Files /\ mishaps' \in Nat
    BY <1>1 DEF GraphInv, GraphTypeOK, Marked
  <2>4. UNCHANGED <<clock, disk, owed, fp, version, undropped, events, pending>>
    BY <1>1 DEF diskVars, watchVars
  <2>. HIDE DEF known, visit, gone
  <2>. QED
    BY <1>2, <2>1, <2>2, <2>3, <2>4 DEF GraphInv, GraphTypeOK, RunSet, RowSet
<1>7. ASSUME NEW g \in Files PROVE RowTrue(g)' /\ JobTrue(g)' /\ WalkKnows(g)'
  <2>1. /\ rows'[g] \in {rows[g], None} /\ disk' = disk
        /\ RowTrue(g) /\ JobTrue(g) /\ WalkKnows(g)
    BY <1>1, <1>5 DEF GraphInv, diskVars
  <2>2. RowTrue(g)'
    BY <2>1 DEF RowTrue, Extract
  <2>3. WalkKnows(g)'
    BY <1>2, <2>1 DEF WalkKnows
  <2>4. JobTrue(g)'
    <3>1. CASE jobs'[g] = jobs[g]
      BY <2>1, <3>1 DEF JobTrue, Extract
    <3>2. CASE g = f /\ jobs'[g] = visit
      BY <1>3, <2>1, <3>2 DEF JobTrue
    <3>. QED
      BY <1>1, <3>1, <3>2 DEF GraphInv, GraphTypeOK
  <2>. QED
    BY <2>2, <2>3, <2>4
<1>8. OfVersion'
  BY <1>1, <1>2, <1>5 DEF GraphInv, OfVersion
<1>. QED
  BY <1>6, <1>7, <1>8 DEF GraphInv

\* A worker reads the text that the file has now.
LEMMA ReadKeeps ==
  ASSUME GraphInv, NEW f \in Files, Read(f)
  PROVE  GraphInv'
<1>1. /\ jobs[f] # None /\ jobs' = [jobs EXCEPT ![f].got = Extract(f)]
      /\ UNCHANGED <<diskVars, storeVars, watchVars, version, run, undropped, lost, mishaps>>
  BY DEF Read
<1>2. /\ jobs[f] \in [stat : 0..clock, known : Hashes, got : Hashes]
      /\ Extract(f) \in Hashes
  BY <1>1, GraphTyped DEF GraphInv, JobSet, Hashes
<1> DEFINE visit == [jobs[f] EXCEPT !.got = Extract(f)]
<1>3. /\ visit \in [stat : 0..clock, known : Hashes, got : Hashes]
      /\ visit.stat = jobs[f].stat /\ visit.known = jobs[f].known /\ visit.got = Extract(f)
  BY <1>2
<1>4. \A g \in Files : jobs'[g] = IF g = f THEN visit ELSE jobs[g]
  BY <1>1 DEF GraphInv, GraphTypeOK
<1>5. jobs' \in [Files -> {None} \cup [stat : 0..clock, known : Contents \cup {None, Unread},
                                       got : Contents \cup {None, Unread}]]
  <2>1. jobs' = [jobs EXCEPT ![f] = visit]
    BY <1>1
  <2>. HIDE DEF visit
  <2>. QED
    BY <1>3, <2>1 DEF GraphInv, GraphTypeOK, Hashes
<1>6. GraphTypeOK'
  BY <1>1, <1>5 DEF GraphInv, GraphTypeOK, diskVars, storeVars, watchVars
<1>7. ASSUME NEW g \in Files PROVE RowTrue(g)' /\ JobTrue(g)' /\ WalkKnows(g)'
  <2>1. /\ UNCHANGED <<disk, rows, run>> /\ RowTrue(g) /\ JobTrue(g) /\ WalkKnows(g)
    BY <1>1 DEF GraphInv, diskVars, storeVars
  <2>2. RowTrue(g)' /\ WalkKnows(g)' /\ Extract(g)' = Extract(g)
    BY <2>1 DEF RowTrue, WalkKnows, Extract
  <2>. HIDE DEF visit
  <2>3. JobTrue(g)'
    BY <1>1, <1>3, <1>4, <2>1, <2>2 DEF JobTrue
  <2>. QED
    BY <2>2, <2>3
<1>8. OfVersion'
  BY <1>1 DEF GraphInv, OfVersion, storeVars
<1>. QED
  BY <1>6, <1>7, <1>8 DEF GraphInv

\* Its rows are written under the stat of the walk. A touch gives that stat to
\* the rows there are, whose hash the job knows.
LEMMA PutKeeps ==
  ASSUME GraphInv, NEW f \in Files, Put(f)
  PROVE  GraphInv'
<1>1. /\ run.todo = {} /\ jobs[f] # None /\ jobs[f].got # None
      /\ jobs' = [jobs EXCEPT ![f] = None]
      /\ UNCHANGED <<diskVars, fp, watchVars, version, run, undropped, mishaps>>
      /\ marks' \in {marks, marks \ {f}} /\ lost' \in {lost, lost \cup {f}}
  BY DEF Put
<1>2. \/ rows' = rows
      \/ Same(f) /\ rows[f] # None /\ rows' = [rows EXCEPT ![f].stat = jobs[f].stat]
      \/ rows' = [rows EXCEPT ![f] = Written(f)]
  BY DEF Put
<1>3. /\ jobs[f].stat \in 0..clock /\ jobs[f].got \in Contents \cup {Unread} /\ version \in Nat
      /\ disk[f] # None /\ disk[f].stat = jobs[f].stat => jobs[f].got = Extract(f)
      /\ rows[f] # None => rows[f].sha = jobs[f].known
      /\ rows[f] # None => rows[f] \in [sha : Contents \cup {Unread}, stat : 0..clock, by : Nat]
  BY <1>1, GraphTyped DEF GraphInv, JobTrue, Hashes, RowSet
\* The rows of f afterwards.
<1>4. /\ rows' \in [Files -> {None} \cup [sha : Contents \cup {Unread}, stat : 0..clock, by : Nat]]
      /\ \A g \in Files : g # f => rows'[g] = rows[g]
      /\ \/ rows'[f] = rows[f]
         \/ /\ rows'[f].stat = jobs[f].stat /\ rows'[f].sha = jobs[f].got
            /\ rows'[f].by = version \/ (rows[f] # None /\ rows'[f].by = rows[f].by)
  <2>1. CASE rows' = rows
    BY <2>1 DEF GraphInv, GraphTypeOK
  <2>2. CASE Same(f) /\ rows[f] # None /\ rows' = [rows EXCEPT ![f].stat = jobs[f].stat]
    <3> DEFINE marked == [rows[f] EXCEPT !.stat = jobs[f].stat]
    <3>1. /\ marked \in [sha : Contents \cup {Unread}, stat : 0..clock, by : Nat]
          /\ marked.stat = jobs[f].stat /\ marked.sha = rows[f].sha /\ marked.by = rows[f].by
      BY <1>3, <2>2
    <3>2. rows' = [rows EXCEPT ![f] = marked]
      BY <2>2
    <3>. HIDE DEF marked
    <3>3. rows[f].sha = jobs[f].got
      BY <1>3, <2>2 DEF Same
    <3>. QED
      BY <2>2, <3>1, <3>2, <3>3 DEF GraphInv, GraphTypeOK
  <2>3. CASE rows' = [rows EXCEPT ![f] = Written(f)]
    <3>1. /\ Written(f) \in [sha : Contents \cup {Unread}, stat : 0..clock, by : Nat]
          /\ Written(f).stat = jobs[f].stat /\ Written(f).sha = jobs[f].got /\ Written(f).by = version
      BY <1>3 DEF Written
    <3>. QED
      BY <2>3, <3>1 DEF GraphInv, GraphTypeOK
  <2>. QED
    BY <1>2, <2>1, <2>2, <2>3
<1>5. \A g \in Files : jobs'[g] = IF g = f THEN None ELSE jobs[g]
  BY <1>1 DEF GraphInv, GraphTypeOK
<1>6. GraphTypeOK'
  <2>1. jobs' \in [Files -> {None} \cup [stat : 0..clock, known : Contents \cup {None, Unread},
                                         got : Contents \cup {None, Unread}]]
    BY <1>1 DEF GraphInv, GraphTypeOK
  <2>. QED
    BY <1>1, <1>4, <2>1 DEF GraphInv, GraphTypeOK, diskVars, watchVars
<1>7. ASSUME NEW g \in Files PROVE RowTrue(g)' /\ JobTrue(g)' /\ WalkKnows(g)'
  <2>1. /\ UNCHANGED <<disk, run>> /\ RowTrue(g) /\ JobTrue(g) /\ Extract(g)' = Extract(g)
    BY <1>1 DEF GraphInv, diskVars, Extract
  <2>2. WalkKnows(g)'
    BY <1>1, <2>1 DEF WalkKnows
  <2>3. JobTrue(g)'
    BY <1>4, <1>5, <2>1 DEF JobTrue
  <2>4. RowTrue(g)'
    BY <1>3, <1>4, <2>1 DEF RowTrue
  <2>. QED
    BY <2>2, <2>3, <2>4
<1>8. OfVersion'
  BY <1>1, <1>4 DEF GraphInv, OfVersion
<1>. QED
  BY <1>6, <1>7, <1>8 DEF GraphInv

LEMMA PruneKeeps ==
  ASSUME GraphInv, Prune
  PROVE  GraphInv'
<1>1. /\ run.kind = "full" /\ run.todo = {} /\ run' = [run EXCEPT !.pruned = TRUE]
      /\ rows' \in {rows, [f \in Files |-> IF f \in run.keep THEN rows[f] ELSE None]}
      /\ lost' \in {lost, lost \cup (Files \ run.keep)} /\ mishaps' \in {mishaps, mishaps + 1}
      /\ UNCHANGED <<diskVars, marks, fp, watchVars, version, jobs, undropped>>
  BY DEF Prune, AllWritten
<1>2. run' \in RunSet(clock) /\ run'.kind = run.kind /\ run'.todo = {} /\ run'.cold = run.cold
  BY <1>1 DEF GraphInv, GraphTypeOK, RunSet, RowSet
<1>3. \A g \in Files : rows'[g] \in {rows[g], None}
  BY <1>1 DEF GraphInv, GraphTypeOK
<1>4. GraphTypeOK'
  BY <1>1, <1>2 DEF GraphInv, GraphTypeOK, diskVars, watchVars, RunSet, RowSet
<1>5. ASSUME NEW g \in Files PROVE RowTrue(g)' /\ JobTrue(g)' /\ WalkKnows(g)'
  BY <1>1, <1>2, <1>3 DEF GraphInv, RowTrue, JobTrue, WalkKnows, Extract, diskVars
<1>6. OfVersion'
  BY <1>1, <1>2, <1>3 DEF GraphInv, OfVersion
<1>. QED
  BY <1>4, <1>5, <1>6 DEF GraphInv

\* A run ends, and a cold one leaves this version's fingerprint.
LEMMA EndKeeps ==
  ASSUME GraphInv, ChangedEnd \/ Seal \/ Abort
  PROVE  GraphInv'
<1>1. /\ run' = Idle /\ fp' \in {fp, IF run.kind = "full" /\ run.cold THEN version ELSE fp}
      /\ jobs' \in {jobs, NoJobs} /\ lost' \in {lost, Files} /\ mishaps' \in {mishaps, mishaps + 1}
      /\ events' \in {events, {}} /\ pending' \in {pending, {}}
      /\ UNCHANGED <<diskVars, rows, marks, version, undropped>>
  BY DEF ChangedEnd, Seal, Abort, watchVars, storeVars
<1>2. run' \in RunSet(clock) /\ run'.kind = "idle" /\ run'.cold = FALSE
  BY <1>1, IdleTyped
<1>3. /\ jobs' \in [Files -> {None} \cup [stat : 0..clock, known : Contents \cup {None, Unread},
                                          got : Contents \cup {None, Unread}]]
      /\ \A g \in Files : jobs'[g] \in {jobs[g], None}
  BY <1>1 DEF GraphInv, GraphTypeOK, NoJobs, NoRows
<1>4. fp' \in 0..version /\ (fp' = version => fp = version \/ (run.kind = "full" /\ run.cold))
  BY <1>1 DEF GraphInv, GraphTypeOK
<1>5. GraphTypeOK'
  BY <1>1, <1>2, <1>3, <1>4 DEF GraphInv, GraphTypeOK, diskVars, RunSet, RowSet
<1>6. ASSUME NEW g \in Files PROVE RowTrue(g)' /\ JobTrue(g)' /\ WalkKnows(g)'
  BY <1>1, <1>2, <1>3 DEF GraphInv, RowTrue, JobTrue, WalkKnows, Extract, diskVars
<1>7. OfVersion'
  BY <1>1, <1>2, <1>4 DEF GraphInv, OfVersion
<1>. QED
  BY <1>5, <1>6, <1>7 DEF GraphInv

\* No row is of the version that starts, and no fingerprint.
LEMMA UpgradeKeeps ==
  ASSUME GraphInv, Upgrade
  PROVE  GraphInv'
<1>1. /\ run.kind = "idle" /\ version' = version + 1 /\ events' = {} /\ pending' = {} /\ lost' = Files
      /\ UNCHANGED <<diskVars, storeVars, run, jobs, undropped, mishaps>>
  BY DEF Upgrade
<1>2. version \in Nat /\ fp \in 0..version
  BY DEF GraphInv, GraphTypeOK
<1>3. GraphTypeOK'
  BY <1>1, <1>2 DEF GraphInv, GraphTypeOK, diskVars, storeVars
<1>4. ASSUME NEW g \in Files PROVE RowTrue(g)' /\ JobTrue(g)' /\ WalkKnows(g)'
  BY <1>1 DEF GraphInv, RowTrue, JobTrue, WalkKnows, Extract, diskVars, storeVars
<1>5. OfVersion'
  BY <1>1, <1>2 DEF OfVersion, storeVars
<1>. QED
  BY <1>3, <1>4, <1>5 DEF GraphInv

LEMMA GraphNextInv == GraphInv /\ [GraphNext]_graphVars => GraphInv'
<1>. SUFFICES ASSUME GraphInv, [GraphNext]_graphVars PROVE GraphInv'
  OBVIOUS
<1>1. CASE AnEdit
  BY <1>1, EditKeeps
<1>2. CASE \E f \in Files : PostTool(f)
  BY <1>2, PostToolKeeps
<1>3. CASE Overflow \/ Absorb
  BY <1>3, QueuesKeep
<1>4. CASE ToolRun \/ Settle
  BY <1>4, BeginKeeps
<1>5. CASE RunStep
  BY <1>5, VisitKeeps, ReadKeeps, PutKeeps, PruneKeeps, EndKeeps DEF RunStep
<1>6. CASE Abort
  BY <1>6, EndKeeps
<1>7. CASE Upgrade
  BY <1>7, UpgradeKeeps
<1>8. CASE UNCHANGED graphVars
  BY <1>8 DEF graphVars, diskVars, storeVars, watchVars, GraphInv, GraphTypeOK, RowTrue,
              JobTrue, WalkKnows, OfVersion, Extract
<1>. QED
  BY <1>1, <1>2, <1>3, <1>4, <1>5, <1>6, <1>7, <1>8 DEF GraphNext

(* GraphInv holds in every reachable state (index.rs, symbols.rs, watch.rs).  *)
THEOREM GraphInvariant == GraphSpec => []GraphInv
BY GraphInitInv, GraphNextInv, PTL DEF GraphSpec

(* What the stat gate lets the next run skip has the rows that a cold index   *)
(* would write, unless the drop of an old extractor's rows failed             *)
(* (index.rs, run_with).                                                      *)
THEOREM FreshIsAlwaysTrue == GraphSpec => []FreshIsTrue
<1>1. GraphInv => FreshIsTrue
  BY DEF GraphInv, RowTrue, OfVersion, Fresh, FreshIsTrue
<1>. QED
  BY <1>1, GraphInvariant, PTL

-----------------------------------------------------------------------------
(* No file is forgotten: its rows are those of the disk, or something will   *)
(* bring the index back to it.                                               *)

\* An event or a collected path still stands for it, or it is one of `lost`.
Flagged(f) == f \in lost \/ {f, Rescan} \cap (events \cup pending) # {}

\* The run under way still has to visit it, to write it or to delete its rows.
InRun(f) == \/ f \in run.todo \/ jobs[f] # None
            \/ run.kind = "full" /\ ~run.pruned /\ f \notin run.keep /\ disk[f] = None

Accounted(f) == Agrees(f) \/ Flagged(f) \/ InRun(f)

\* What the gate, the job and the deletion go by was read earlier, and may be of
\* the past. Where it is, the file is flagged.
GateFair(f) == run.kind = "full" /\ f \in run.todo /\ run.known[f] # None /\ rows[f] # run.known[f]
               => Flagged(f)
JobFair(f) == jobs[f] # None =>
                \/ Flagged(f)
                \/ /\ disk[f] # None /\ disk[f].stat = jobs[f].stat
                   /\ rows[f] = None => jobs[f].known = None
PruneFair(f) == run.kind = "full" /\ ~run.pruned /\ disk[f] # None
                => f \in run.todo \/ f \in run.keep \/ Flagged(f)
FileKept(f) == Accounted(f) /\ GateFair(f) /\ JobFair(f) /\ PruneFair(f)

PhasesOK == /\ run.kind = "idle" \/ run.pruned => run.todo = {} /\ jobs = NoJobs
            /\ \A f \in run.todo : jobs[f] = None /\ f \notin run.keep

NothingForgotten == \A f \in Files : Accounted(f)
KeepsAll == PhasesOK /\ \A f \in Files : FileKept(f)

LEMMA FlaggedIsKept == ASSUME NEW f \in Files, Flagged(f) PROVE FileKept(f)
BY DEF FileKept, Accounted, GateFair, JobFair, PruneFair

\* What a step does not touch stays as it was.
LEMMA UntouchedIsKept ==
  ASSUME NEW g \in Files, FileKept(g), Flagged(g) => Flagged(g)',
         rows'[g] = rows[g], disk'[g] = disk[g], jobs'[g] = jobs[g],
         run'.kind = run.kind, run'.pruned = run.pruned,
         g \in run'.todo <=> g \in run.todo, g \in run'.keep <=> g \in run.keep,
         g \in run.todo => run'.known[g] = run.known[g]
  PROVE  FileKept(g)'
<1>1. CASE Flagged(g)
  BY <1>1 DEF FileKept, Accounted, GateFair, JobFair, PruneFair
<1>2. CASE ~Flagged(g)
  <2>1. Accounted(g)'
    BY <1>2 DEF FileKept, Accounted, Agrees, Extract, InRun
  <2>2. GateFair(g)' /\ JobFair(g)' /\ PruneFair(g)'
    BY <1>2 DEF FileKept, GateFair, JobFair, PruneFair
  <2>. QED
    BY <2>1, <2>2 DEF FileKept
<1>. QED
  BY <1>1, <1>2

LEMMA InitKeepsAll == GraphInit => KeepsAll
BY FlaggedIsKept, IdleTyped DEF GraphInit, KeepsAll, PhasesOK, Flagged, Idle, Begun

LEMMA EditKeepsAll ==
  ASSUME GraphInv, KeepsAll, AnEdit
  PROVE  KeepsAll'
<1>1. PICK f \in Files : /\ \E new : disk' = [disk EXCEPT ![f] = new]
                         /\ events' = events \cup {f}
                         /\ UNCHANGED <<rows, pending, run, jobs, lost>>
  BY DEF AnEdit, Edit, storeVars
<1>2. ASSUME NEW g \in Files PROVE FileKept(g)'
  <2>1. CASE g = f
    BY <1>1, <2>1 DEF Flagged, FileKept, Accounted, GateFair, JobFair, PruneFair
  <2>2. CASE g # f
    <3>1. disk'[g] = disk[g] /\ (Flagged(g) => Flagged(g)')
      BY <1>1, <2>2 DEF GraphInv, GraphTypeOK, Flagged
    <3>. QED
      BY <1>1, <3>1, UntouchedIsKept DEF KeepsAll
  <2>. QED
    BY <2>1, <2>2
<1>. QED
  BY <1>1, <1>2 DEF KeepsAll, PhasesOK

\* The hook takes rows away. Where neither an event nor a path will bring them
\* back, it is the hook that came too late.
LEMMA PostToolKeepsAll ==
  ASSUME GraphInv, KeepsAll, NEW f \in Files, PostTool(f)
  PROVE  KeepsAll'
<1>1. /\ UNCHANGED <<disk, events, pending, run, jobs>>
      /\ \/ UNCHANGED <<rows, lost>>
         \/ /\ rows' = [rows EXCEPT ![f] = None]
            /\ lost' = IF {f, Rescan} \cap (events \cup pending) = {} THEN lost \cup {f} ELSE lost
  BY DEF PostTool, watchVars
<1>2. ASSUME NEW g \in Files PROVE FileKept(g)'
  <2>1. Flagged(g) => Flagged(g)'
    BY <1>1 DEF Flagged
  <2>2. CASE rows'[g] = rows[g]
    BY <1>1, <2>1, <2>2, UntouchedIsKept DEF KeepsAll
  <2>3. CASE g = f /\ rows' # rows
    <3>1. Flagged(g)'
      BY <1>1, <2>3 DEF Flagged
    <3>. QED
      BY <3>1 DEF FileKept, Accounted, GateFair, JobFair, PruneFair
  <2>. QED
    BY <1>1, <2>2, <2>3 DEF GraphInv, GraphTypeOK
<1>. QED
  BY <1>1, <1>2 DEF KeepsAll, PhasesOK

\* The queues pass on what they hold, or stand for the tree.
LEMMA QueuesKeepAll ==
  ASSUME GraphInv, KeepsAll, Overflow \/ Absorb
  PROVE  KeepsAll'
<1>1. UNCHANGED <<disk, rows, run, jobs, lost>>
  BY DEF Overflow, Absorb, diskVars, storeVars
<1>2. ASSUME NEW g \in Files, Flagged(g) PROVE Flagged(g)'
  <2>1. CASE Overflow
    BY <2>1 DEF Overflow, Flagged
  <2>2. CASE Absorb
    <3>1. PICK e \in events : events' = events \ {e} /\ pending' = Absorbed(e)
      BY <2>2 DEF Absorb
    <3>2. Rescan \in pending' \/ (pending' = pending \cup {e} /\ e # Rescan)
      BY <3>1 DEF Absorbed
    <3>. QED
      BY <1>1, <1>2, <3>1, <3>2 DEF Flagged
  <2>. QED
    BY <2>1, <2>2
<1>3. ASSUME NEW g \in Files PROVE FileKept(g)'
  BY <1>1, <1>2, UntouchedIsKept DEF KeepsAll
<1>. QED
  BY <1>1, <1>3 DEF KeepsAll, PhasesOK

\* A run begins with what it has to visit. A changed one takes the collected
\* paths, and a file that is not among them has its event still to come.
LEMMA BeginKeepsAll ==
  ASSUME GraphInv, KeepsAll, ToolRun \/ Settle
  PROVE  KeepsAll'
<1>1. /\ run.kind = "idle" /\ run.todo = {} /\ jobs = NoJobs /\ UNCHANGED <<disk, jobs, events>>
      /\ \A g \in Files : jobs[g] = None
  BY DEF ToolRun, Settle, diskVars, watchVars, KeepsAll, PhasesOK, NoJobs, NoRows
<1>2. CASE \E d \in BOOLEAN : FullRun(d)
  <2>1. /\ run'.kind = "full" /\ run'.pruned = FALSE /\ run'.todo = Files /\ run'.keep = {}
        /\ run'.known = rows'
    BY <1>2 DEF FullRun, Begun
  <2>2. ASSUME NEW g \in Files PROVE FileKept(g)'
    BY <1>1, <2>1 DEF FileKept, Accounted, InRun, GateFair, JobFair, PruneFair
  <2>. QED
    BY <1>1, <2>1, <2>2 DEF KeepsAll, PhasesOK
<1>3. CASE /\ Settle /\ Rescan \notin pending /\ run' = Begun("changed", pending, FALSE, NoRows)
           /\ UNCHANGED <<rows, lost>>
  <2>1. /\ run'.kind = "changed" /\ run'.pruned = FALSE /\ run'.todo = pending /\ run'.keep = {}
        /\ pending' = {} /\ pending \subseteq Files
    BY <1>3 DEF Begun, Settle, GraphInv, GraphTypeOK
  <2>2. ASSUME NEW g \in Files PROVE Accounted(g)'
    <3>1. CASE g \in pending
      BY <2>1, <3>1 DEF Accounted, InRun
    <3>2. CASE g \notin pending /\ Flagged(g)
      BY <1>1, <1>3, <2>1, <3>2 DEF Accounted, Flagged
    <3>3. CASE ~Flagged(g)
      <4>1. Agrees(g)
        BY <1>1, <3>3 DEF KeepsAll, FileKept, Accounted, InRun
      <4>. QED
        BY <1>1, <1>3, <4>1 DEF Accounted, Agrees, Extract
    <3>. QED
      BY <3>1, <3>2, <3>3
  <2>3. ASSUME NEW g \in Files PROVE GateFair(g)' /\ JobFair(g)' /\ PruneFair(g)'
    BY <1>1, <2>1 DEF GateFair, JobFair, PruneFair
  <2>. QED
    BY <1>1, <2>1, <2>2, <2>3 DEF KeepsAll, PhasesOK, FileKept
<1>. QED
  BY <1>2, <1>3 DEF ToolRun, Settle

\* The walk. What the gate lets pass unread is as the disk has it, or flagged.
LEMMA VisitKeepsAll ==
  ASSUME GraphInv, KeepsAll, NEW f \in Files, Visit(f)
  PROVE  KeepsAll'
<1> DEFINE known == IF run.kind = "full" THEN run.known[f] ELSE rows[f]
           gone == disk[f] = None
           visit == [stat |-> disk[f].stat, got |-> None,
                     known |-> IF known = None THEN None ELSE known.sha]
<1>1. /\ f \in run.todo
      /\ run' = [kind |-> run.kind, pruned |-> run.pruned, cold |-> run.cold,
                 todo |-> run.todo \ {f}, known |-> [run.known EXCEPT ![f] = None],
                 keep |-> IF gone THEN run.keep ELSE run.keep \cup {f}]
      /\ jobs' = IF gone \/ (known # None /\ known.stat = disk[f].stat)
                 THEN jobs ELSE [jobs EXCEPT ![f] = visit]
      /\ UNCHANGED <<disk, events, pending>>
  BY DEF Visit, diskVars, watchVars
<1>2. \/ /\ IF gone /\ run.kind = "changed" THEN rows' = [rows EXCEPT ![f] = None] ELSE rows' = rows
         /\ lost' = IF run.kind = "changed" THEN lost \ {f} ELSE lost
      \/ rows' = rows /\ lost' = lost \cup {f}
  BY DEF Visit
<1>3. /\ run'.kind = run.kind /\ run'.pruned = run.pruned /\ run'.todo = run.todo \ {f}
      /\ run'.keep = (IF gone THEN run.keep ELSE run.keep \cup {f})
      /\ \A g \in Files : g # f => run'.known[g] = run.known[g]
  BY <1>1 DEF GraphInv, GraphTypeOK
<1>4. /\ run.kind \in {"full", "changed"} /\ ~run.pruned
      /\ jobs[f] = None /\ f \notin run.keep /\ FileKept(f)
  BY <1>1 DEF KeepsAll, PhasesOK, GraphInv, GraphTypeOK
<1>5. \A g \in Files : g # f => rows'[g] = rows[g] /\ jobs'[g] = jobs[g]
  BY <1>1, <1>2 DEF GraphInv, GraphTypeOK
<1>6. \A g \in Files : g # f => FileKept(g)'
  <2>. SUFFICES ASSUME NEW g \in Files, g # f PROVE FileKept(g)'
    OBVIOUS
  <2>1. Flagged(g) => Flagged(g)'
    BY <1>1, <1>2 DEF Flagged
  <2>. QED
    BY <1>1, <1>3, <1>5, <2>1, UntouchedIsKept DEF KeepsAll
<1>7. PhasesOK'
  <2>1. \A g \in run'.todo : jobs'[g] = None /\ g \notin run'.keep
    BY <1>1, <1>3, <1>5 DEF KeepsAll, PhasesOK, GraphInv, GraphTypeOK
  <2>. QED
    BY <1>3, <1>4, <2>1 DEF PhasesOK
<1>8. FileKept(f)'
  <2>1. CASE rows' = rows /\ lost' = lost \cup {f}
    BY <2>1 DEF Flagged, FileKept, Accounted, GateFair, JobFair, PruneFair
  <2>. SUFFICES
         ASSUME IF gone /\ run.kind = "changed" THEN rows' = [rows EXCEPT ![f] = None] ELSE rows' = rows,
                lost' = IF run.kind = "changed" THEN lost \ {f} ELSE lost
         PROVE  FileKept(f)'
    BY <1>2, <2>1
  <2>2. run.kind = "full" => (Flagged(f) <=> Flagged(f)')
    BY <1>1 DEF Flagged
  <2>3. f \notin run'.todo
    BY <1>3
  <2>4. CASE gone
    <3>1. jobs'[f] = None /\ disk'[f] = None
      BY <1>1, <1>4, <2>4
    <3>2. Accounted(f)'
      <4>1. CASE run.kind = "changed"
        BY <2>4, <3>1, <4>1 DEF Accounted, Agrees, GraphInv, GraphTypeOK
      <4>2. CASE run.kind = "full"
        BY <1>3, <1>4, <2>4, <3>1, <4>2 DEF Accounted, InRun
      <4>. QED
        BY <1>4, <4>1, <4>2
    <3>. QED
      BY <2>3, <3>1, <3>2 DEF FileKept, GateFair, JobFair, PruneFair
  <2>5. CASE ~gone /\ known # None /\ known.stat = disk[f].stat
    <3>1. jobs'[f] = None /\ rows' = rows /\ f \in run'.keep
      BY <1>1, <1>3, <1>4, <2>5
    <3>2. CASE rows[f] = known
      <4>1. rows[f].sha = Extract(f)
        BY <2>5, <3>2 DEF GraphInv, RowTrue
      <4>2. Agrees(f)'
        BY <1>1, <2>5, <3>1, <3>2, <4>1 DEF Agrees, Extract
      <4>. QED
        BY <2>3, <3>1, <4>2 DEF FileKept, Accounted, GateFair, JobFair, PruneFair
    <3>3. CASE rows[f] # known
      <4>1. run.kind = "full" /\ Flagged(f)
        BY <1>1, <1>4, <2>5, <3>3 DEF FileKept, GateFair
      <4>2. Flagged(f)'
        BY <2>2, <4>1
      <4>. QED
        BY <4>2 DEF FileKept, Accounted, GateFair, JobFair, PruneFair
    <3>. QED
      BY <3>2, <3>3
  <2>6. CASE ~gone /\ ~(known # None /\ known.stat = disk[f].stat)
    <3>1. jobs'[f] = visit /\ rows' = rows /\ f \in run'.keep
      BY <1>1, <1>3, <2>6 DEF GraphInv, GraphTypeOK
    <3>2. visit # None
      <4>1. known \in RowSet(clock)
        BY GraphTyped DEF GraphInv
      <4>2. visit \in [stat : Nat, known : Hashes, got : Hashes]
        BY <2>6, <4>1, GraphTyped DEF GraphInv, RowSet, Hashes
      <4>. QED
        BY <4>2, NoneIsNoRecord DEF Hashes
    <3>3. Accounted(f)'
      BY <3>1, <3>2 DEF Accounted, InRun
    <3>4. JobFair(f)'
      <4>1. visit.stat = disk[f].stat /\ (known = None => visit.known = None)
        OBVIOUS
      <4>2. CASE rows[f] = None => known = None
        BY <1>1, <2>6, <3>1, <4>1, <4>2 DEF JobFair
      <4>3. CASE rows[f] = None /\ known # None
        <5>1. run.kind = "full" /\ Flagged(f)
          BY <1>1, <1>4, <4>3 DEF FileKept, GateFair
        <5>. QED
          BY <2>2, <5>1 DEF JobFair
      <4>. QED
        BY <4>2, <4>3
    <3>. QED
      BY <2>3, <3>1, <3>3, <3>4 DEF FileKept, GateFair, PruneFair
  <2>. QED
    BY <2>4, <2>5, <2>6
<1>. QED
  BY <1>6, <1>7, <1>8 DEF KeepsAll

LEMMA ReadKeepsAll ==
  ASSUME GraphInv, KeepsAll, NEW f \in Files, Read(f)
  PROVE  KeepsAll'
<1>1. /\ run.todo = {} /\ jobs[f] # None /\ jobs' = [jobs EXCEPT ![f].got = Extract(f)]
      /\ UNCHANGED <<disk, rows, events, pending, run, lost>>
  BY DEF Read, diskVars, storeVars, watchVars
<1>2. \A g \in Files : g # f => jobs'[g] = jobs[g]
  BY <1>1 DEF GraphInv, GraphTypeOK
<1>3. jobs'[f].stat = jobs[f].stat /\ jobs'[f].known = jobs[f].known /\ jobs'[f] # None
  <2> DEFINE done == [jobs[f] EXCEPT !.got = Extract(f)]
  <2>1. /\ jobs[f] \in [stat : 0..clock, known : Hashes, got : Hashes]
        /\ Extract(f) \in Hashes /\ clock \in Nat
    BY <1>1, GraphTyped DEF GraphInv, JobSet, Hashes
  <2>2. /\ done \in [stat : Nat, known : Hashes, got : Hashes]
        /\ done.stat = jobs[f].stat /\ done.known = jobs[f].known
    BY <2>1
  <2>3. jobs'[f] = done
    BY <1>1 DEF GraphInv, GraphTypeOK
  <2>. QED
    BY <2>2, <2>3, NoneIsNoRecord DEF Hashes
<1>4. Accounted(f)' /\ JobFair(f)'
  BY <1>1, <1>3 DEF KeepsAll, FileKept, Accounted, InRun, JobFair, Flagged
<1>5. GateFair(f)' /\ PruneFair(f)'
  BY <1>1 DEF KeepsAll, FileKept, GateFair, PruneFair, Flagged
<1>6. ASSUME NEW g \in Files, g # f PROVE FileKept(g)'
  BY <1>1, <1>2, <1>6, UntouchedIsKept DEF KeepsAll, Flagged
<1>7. PhasesOK'
  BY <1>1 DEF KeepsAll, PhasesOK, NoJobs, NoRows
<1>. QED
  BY <1>4, <1>5, <1>6, <1>7 DEF KeepsAll, FileKept

\* A job that is settled leaves the rows of the disk, or the file is flagged: a
\* touch needs rows, and those that a hook took away meanwhile are flagged.
LEMMA PutKeepsAll ==
  ASSUME GraphInv, KeepsAll, NEW f \in Files, Put(f)
  PROVE  KeepsAll'
<1>1. /\ run.todo = {} /\ jobs[f] # None /\ jobs[f].got # None
      /\ jobs' = [jobs EXCEPT ![f] = None]
      /\ UNCHANGED <<disk, events, pending, version, run>>
      /\ lost \subseteq lost'
  BY DEF Put, diskVars, watchVars
<1>2. \/ Same(f) /\ rows' = IF rows[f] = None THEN rows ELSE [rows EXCEPT ![f].stat = jobs[f].stat]
      \/ rows' = rows /\ lost' = lost \cup {f}
      \/ rows' = [rows EXCEPT ![f] = Written(f)]
  BY DEF Put
<1>3. \A g \in Files : Flagged(g) => Flagged(g)'
  BY <1>1 DEF Flagged
<1>4. /\ jobs'[f] = None
      /\ \A g \in Files : g # f => rows'[g] = rows[g] /\ jobs'[g] = jobs[g]
  BY <1>1, <1>2 DEF GraphInv, GraphTypeOK
<1>5. ASSUME NEW g \in Files, g # f PROVE FileKept(g)'
  BY <1>1, <1>3, <1>4, <1>5, UntouchedIsKept DEF KeepsAll
<1>6. PhasesOK'
  BY <1>1, <1>4 DEF KeepsAll, PhasesOK, NoJobs, NoRows
<1>7. GateFair(f)' /\ JobFair(f)' /\ PruneFair(f)'
  BY <1>1, <1>3, <1>4 DEF KeepsAll, FileKept, GateFair, JobFair, PruneFair
<1>8. Accounted(f)'
  <2>1. CASE Flagged(f) \/ f \in lost'
    BY <1>3, <2>1 DEF Accounted, Flagged
  <2>. SUFFICES ASSUME ~Flagged(f), f \notin lost' PROVE Agrees(f)'
    BY <2>1 DEF Accounted
  <2>2. /\ disk[f] # None /\ disk[f].stat = jobs[f].stat /\ jobs[f].got = Extract(f)
        /\ rows[f] = None => jobs[f].known = None
        /\ rows[f] # None => rows[f].sha = jobs[f].known
    BY <1>1 DEF KeepsAll, FileKept, JobFair, GraphInv, JobTrue
  <2>3. CASE Same(f) /\ rows' = IF rows[f] = None THEN rows ELSE [rows EXCEPT ![f].stat = jobs[f].stat]
    <3>1. rows[f] # None /\ rows[f].sha = jobs[f].got
      BY <1>1, <2>2, <2>3 DEF Same
    <3> DEFINE touched == [rows[f] EXCEPT !.stat = jobs[f].stat]
    <3>2. /\ touched \in [sha : Contents \cup {Unread}, stat : Nat, by : Nat]
          /\ touched.stat = jobs[f].stat /\ touched.sha = rows[f].sha
      BY <1>1, <3>1, GraphTyped DEF GraphInv, RowSet
    <3>3. rows'[f] = touched
      BY <2>3, <3>1 DEF GraphInv, GraphTypeOK
    <3>. HIDE DEF touched
    <3>. QED
      BY <1>1, <2>2, <3>1, <3>2, <3>3, NoneIsNoRecord DEF Agrees, Extract
  <2>4. CASE rows' = [rows EXCEPT ![f] = Written(f)]
    <3>1. /\ Written(f) \in [sha : Contents \cup {Unread}, stat : Nat, by : Nat]
          /\ Written(f).stat = jobs[f].stat /\ Written(f).sha = jobs[f].got
      BY <1>1, <2>2, GraphTyped DEF GraphInv, Written
    <3>2. rows'[f] = Written(f)
      BY <2>4 DEF GraphInv, GraphTypeOK
    <3>. QED
      BY <1>1, <2>2, <3>1, <3>2, NoneIsNoRecord DEF Agrees, Extract
  <2>. QED
    BY <1>2, <2>3, <2>4
<1>. QED
  BY <1>5, <1>6, <1>7, <1>8 DEF KeepsAll, FileKept

\* The deletion takes the rows of files that are gone, and no others; if it
\* fails, those are lost.
LEMMA PruneKeepsAll ==
  ASSUME GraphInv, KeepsAll, Prune
  PROVE  KeepsAll'
<1>1. /\ run.kind = "full" /\ run.todo = {} /\ ~run.pruned /\ run' = [run EXCEPT !.pruned = TRUE]
      /\ UNCHANGED <<disk, events, pending, jobs>> /\ jobs = NoJobs
      /\ \/ rows' = [f \in Files |-> IF f \in run.keep THEN rows[f] ELSE None] /\ lost' = lost
         \/ rows' = rows /\ lost' = lost \cup (Files \ run.keep)
  BY DEF Prune, AllWritten, diskVars, watchVars
<1>2. run'.pruned = TRUE /\ run'.todo = {} /\ \A g \in Files : jobs[g] = None
  BY <1>1 DEF GraphInv, GraphTypeOK, NoJobs, NoRows
<1>3. ASSUME NEW g \in Files PROVE Accounted(g)'
  <2>1. CASE Flagged(g)
    BY <1>1, <2>1 DEF Accounted, Flagged
  <2>2. CASE ~Flagged(g) /\ g \in run.keep
    <3>1. Agrees(g)
      BY <1>1, <1>2, <2>2 DEF KeepsAll, FileKept, Accounted, InRun
    <3>. QED
      BY <1>1, <2>2, <3>1 DEF Accounted, Agrees, Extract
  <2>3. CASE ~Flagged(g) /\ g \notin run.keep
    <3>1. disk[g] = None
      BY <1>1, <2>3 DEF KeepsAll, FileKept, PruneFair
    <3>. QED
      BY <1>1, <2>3, <3>1 DEF Accounted, Agrees, Flagged
  <2>. QED
    BY <2>1, <2>2, <2>3
<1>4. ASSUME NEW g \in Files PROVE GateFair(g)' /\ JobFair(g)' /\ PruneFair(g)'
  BY <1>1, <1>2 DEF GateFair, JobFair, PruneFair
<1>. QED
  BY <1>1, <1>2, <1>3, <1>4 DEF KeepsAll, FileKept, PhasesOK

\* A run that is over has nothing left to do; one that is cut off, or a new
\* version, makes every file a lost one.
LEMMA EndKeepsAll ==
  ASSUME GraphInv, KeepsAll, ChangedEnd \/ Seal \/ Abort \/ Upgrade
  PROVE  KeepsAll'
<1>1. CASE ChangedEnd \/ Seal
  <2>1. /\ run' = Idle /\ UNCHANGED <<disk, rows, events, pending, jobs, lost>>
        /\ run.todo = {} /\ jobs = NoJobs /\ (run.kind = "full" => run.pruned)
    BY <1>1 DEF ChangedEnd, Seal, AllWritten, diskVars, storeVars, watchVars, KeepsAll, PhasesOK
  <2>2. run'.kind = "idle" /\ run'.todo = {} /\ \A g \in Files : jobs'[g] = None
    BY <2>1, IdleTyped DEF Idle, Begun, NoJobs, NoRows
  <2>3. ASSUME NEW g \in Files PROVE Accounted(g)'
    <3>1. Agrees(g) \/ Flagged(g)
      BY <2>1, <2>2 DEF KeepsAll, FileKept, Accounted, InRun
    <3>. QED
      BY <2>1, <3>1 DEF Accounted, Agrees, Extract, Flagged
  <2>4. ASSUME NEW g \in Files PROVE GateFair(g)' /\ JobFair(g)' /\ PruneFair(g)'
    BY <2>2 DEF GateFair, JobFair, PruneFair
  <2>. QED
    BY <2>1, <2>2, <2>3, <2>4 DEF KeepsAll, FileKept, PhasesOK
<1>2. CASE Abort
  <2>1. run' = Idle /\ jobs' = NoJobs /\ lost' = Files
    BY <1>2 DEF Abort
  <2>2. run'.todo = {}
    BY <2>1 DEF Idle, Begun
  <2>. QED
    BY <2>1, <2>2 DEF KeepsAll, PhasesOK, Flagged, FileKept, Accounted, GateFair, JobFair, PruneFair
<1>3. CASE Upgrade
  BY <1>3 DEF Upgrade, KeepsAll, PhasesOK, Flagged, FileKept, Accounted, GateFair, JobFair, PruneFair
<1>. QED
  BY <1>1, <1>2, <1>3

LEMMA NextKeepsAll == GraphInv /\ KeepsAll /\ [GraphNext]_graphVars => KeepsAll'
<1>. SUFFICES ASSUME GraphInv, KeepsAll, [GraphNext]_graphVars PROVE KeepsAll'
  OBVIOUS
<1>1. CASE AnEdit
  BY <1>1, EditKeepsAll
<1>2. CASE \E f \in Files : PostTool(f)
  BY <1>2, PostToolKeepsAll
<1>3. CASE Overflow \/ Absorb
  BY <1>3, QueuesKeepAll
<1>4. CASE ToolRun \/ Settle
  BY <1>4, BeginKeepsAll
<1>5. CASE RunStep
  BY <1>5, VisitKeepsAll, ReadKeepsAll, PutKeepsAll, PruneKeepsAll, EndKeepsAll DEF RunStep
<1>6. CASE Abort \/ Upgrade
  BY <1>6, EndKeepsAll
<1>7. CASE UNCHANGED graphVars
  BY <1>7 DEF graphVars, diskVars, storeVars, watchVars, KeepsAll, PhasesOK, FileKept, Accounted,
              Agrees, Extract, Flagged, InRun, GateFair, JobFair, PruneFair
<1>. QED
  BY <1>1, <1>2, <1>3, <1>4, <1>5, <1>6, <1>7 DEF GraphNext

(* Whatever the order of edits, hooks, queues, runs, failures and upgrades, a *)
(* file whose rows are not those of the disk has an event or a path queued    *)
(* for it, is still to be visited, written or deleted by the run under way,   *)
(* or is one of `lost` (watch.rs, pump and settle; index.rs, run_with). With  *)
(* the queues empty and no run under way, every other file agrees: what is    *)
(* left of IndexSettles is that the loop goes on.                             *)
THEOREM NothingIsForgotten ==
  GraphSpec => []/\ NothingForgotten
                 /\ run.kind = "idle" /\ events = {} /\ pending = {}
                      => \A f \in Files \ lost : Agrees(f)
<1>1. GraphInit => GraphInv /\ KeepsAll
  BY GraphInitInv, InitKeepsAll
<1>2. (GraphInv /\ KeepsAll) /\ [GraphNext]_graphVars => (GraphInv /\ KeepsAll)'
  BY GraphNextInv, NextKeepsAll
<1>3. KeepsAll => NothingForgotten
  BY DEF KeepsAll, NothingForgotten, FileKept
<1>4. KeepsAll /\ run.kind = "idle" /\ events = {} /\ pending = {}
         => \A f \in Files \ lost : Agrees(f)
  BY DEF KeepsAll, FileKept, PhasesOK, Accounted, Flagged, InRun, NoJobs, NoRows
<1>. QED
  BY <1>1, <1>2, <1>3, <1>4, PTL DEF GraphSpec

-----------------------------------------------------------------------------
(* The rotating log.                                                         *)

Rotating == holder # NoWriter

\* How many files are younger than the one at path i, and what may be missing:
\* the live file between its rename and the next open, and the place that the
\* rotation under way has already counted.
Younger(i) == Len(file) - path[i] + deaths + (IF path[0] = 0 THEN 1 ELSE 0)
              + (IF Rotating /\ i > step THEN 1 ELSE 0)

LogTypeInv ==
  /\ keep \in Nat /\ path \in [0..keep -> 0..Len(file)]
  /\ \E S : file \in Seq(S)
  /\ \A d \in 1..Len(file) :
        /\ file[d] = [texts |-> file[d].texts, whole |-> file[d].whole,
                      kept |-> file[d].kept, shown |-> file[d].shown]
        /\ file[d].texts \in Nat
  /\ wpc \in [Writers -> {"idle", "full", "rotate", "open", "text", "newline"}]
  /\ fd \in [Writers -> 0..Len(file)]
  /\ holder \in Writers \cup {NoWriter} /\ step \in Nat /\ deaths \in Nat
  /\ \A w \in Writers : wpc[w] = "rotate" <=> holder = w

\* A rotation moves a full file, into a place that is free.
RotationIsDue ==
  Rotating => /\ path[0] # 0 /\ file[path[0]].texts >= Cap
              /\ keep > 0 => step \in 0..keep /\ (step < keep => path[step + 1] = 0)

HistoryIsFull ==
  keep > 0 => \A i \in 1..keep : path[i] # 0 => file[path[i]].texts >= Cap /\ Younger(i) >= i

GoneAreOld == keep > 0 => \A d \in Gone : Len(file) - d + deaths >= keep

LogInv == LogTypeInv /\ RotationIsDue /\ HistoryIsFull /\ GoneAreOld

-----------------------------------------------------------------------------
LEMMA Listed ==
  ASSUME NEW n \in Nat, NEW S, NEW f \in [1..n -> S]
  PROVE  f \in Seq(S) /\ Len(f) = n
OBVIOUS

LEMMA LogNats ==
  ASSUME LogTypeInv
  PROVE  /\ Len(file) \in Nat /\ deaths \in Nat /\ keep \in Nat /\ step \in Nat /\ Cap \in Nat
         /\ \A i \in 0..keep : path[i] \in 0..Len(file)
         /\ \A d \in 1..Len(file) : file[d].texts \in Nat
<1>1. PICK S : file \in Seq(S)
  BY DEF LogTypeInv
<1>2. Len(file) \in Nat
  BY <1>1
<1>. QED
  BY <1>2, LogConstants DEF LogTypeInv

LEMMA LogInitInv == LogInit => LogInv
<1>. SUFFICES ASSUME LogInit PROVE LogInv
  OBVIOUS
<1>1. file = << >> /\ Len(file) = 0 /\ file \in Seq({})
  BY DEF LogInit
<1>2. \A i \in 0..keep : path[i] = 0
  BY DEF LogInit
<1>3. LogTypeInv
  BY <1>1, LogConstants DEF LogInit, LogTypeInv
<1>. QED
  BY <1>1, <1>2, <1>3 DEF LogInit, LogInv, RotationIsDue, HistoryIsFull, GoneAreOld, Gone, Rotating

LEMMA SumGrows ==
  ASSUME NEW n \in Int, NEW d \in Int, NEW e \in Int, NEW a \in Int, NEW b \in Int, d <= e,
         NEW x, NEW y, x = n + d + a + b, y = n + e + a + b
  PROVE  y >= x /\ x \in Int /\ y \in Int
OBVIOUS

\* A step that leaves the paths and the rotation alone; files only grow.
LEMMA FilesGrow ==
  ASSUME LogInv, LogTypeInv', UNCHANGED <<keep, path, holder, step>>,
         Len(file') = Len(file), deaths <= deaths',
         \A d \in 1..Len(file) : file'[d].texts >= file[d].texts
  PROVE  LogInv'
<1>1. /\ Len(file) \in Nat /\ deaths \in Nat /\ deaths' \in Nat /\ keep \in Nat /\ Cap \in Nat
      /\ \A i \in 0..keep : path[i] \in 0..Len(file)
      /\ \A d \in 1..Len(file) : file[d].texts \in Nat /\ file'[d].texts \in Nat
  <2>1. LogTypeInv /\ LogTypeInv'
    BY DEF LogInv
  <2>2. \A d \in 1..Len(file') : file'[d].texts \in Nat
    BY <2>1 DEF LogTypeInv
  <2>3. deaths' \in Nat
    BY <2>1 DEF LogTypeInv
  <2>. QED
    BY <2>1, <2>2, <2>3, LogNats
<1>2. RotationIsDue'
  BY <1>1 DEF LogInv, RotationIsDue, Rotating
<1>3. HistoryIsFull'
  <2>. SUFFICES ASSUME keep > 0, NEW i \in 1..keep, path[i] # 0
                PROVE  file'[path[i]].texts >= Cap /\ Younger(i)' >= i
    BY DEF HistoryIsFull
  <2>1. /\ path[i] \in 1..Len(file) /\ i \in Nat /\ file[path[i]].texts >= Cap /\ Younger(i) >= i
    BY <1>1 DEF LogInv, HistoryIsFull
  <2>2. Younger(i)' >= Younger(i) /\ Younger(i) \in Int /\ Younger(i)' \in Int
    <3> DEFINE a == IF path[0] = 0 THEN 1 ELSE 0
               b == IF Rotating /\ i > step THEN 1 ELSE 0
    <3>1. a \in Int /\ b \in Int
      OBVIOUS
    <3>2. Younger(i) = Len(file) - path[i] + deaths + a + b
      BY DEF Younger
    <3>3. Younger(i)' = Len(file) - path[i] + deaths' + a + b
      BY DEF Younger, Rotating
    <3> DEFINE n == Len(file) - path[i]
    <3>4. n \in Int /\ deaths \in Int /\ deaths' \in Int /\ deaths <= deaths'
      BY <1>1, <2>1
    <3>5. Younger(i) = n + deaths + a + b /\ Younger(i)' = n + deaths' + a + b
      BY <3>2, <3>3
    <3>. HIDE DEF a, b, n
    <3>. QED
      BY ONLY <3>1, <3>4, <3>5, SumGrows
  <2>3. file'[path[i]].texts >= file[path[i]].texts
    BY <2>1
  <2>. QED
    BY <1>1, <2>1, <2>2, <2>3
<1>4. GoneAreOld'
  <2>1. Gone' = Gone
    BY DEF Gone
  <2>2. \A d \in Gone : d \in 1..Len(file)
    BY DEF Gone
  <2>. QED
    BY <1>1, <2>1, <2>2 DEF LogInv, GoneAreOld
<1>. QED
  BY <1>2, <1>3, <1>4 DEF LogInv

\* A writer that looks, or has the lock and finds that the file has room.
LEMMA LookKeeps ==
  ASSUME LogInv, NEW w \in Writers, Look(w)
  PROVE  LogInv'
<1>1. /\ wpc[w] = "idle" /\ wpc' \in {[wpc EXCEPT ![w] = "full"], [wpc EXCEPT ![w] = "open"]}
      /\ UNCHANGED <<keep, path, file, fd, holder, step, deaths>>
  BY DEF Look, Goto
<1>2. LogTypeInv'
  BY <1>1 DEF LogInv, LogTypeInv
<1>. QED
  BY <1>1, <1>2, LogNats, FilesGrow DEF LogInv

LEMMA LockKeeps ==
  ASSUME LogInv, NEW w \in Writers, Lock(w)
  PROVE  LogInv'
<1>1. wpc[w] = "full" /\ holder = NoWriter /\ UNCHANGED <<keep, path, file, fd, deaths>>
  BY DEF Lock
<1>2. CASE ~Over
  <2>1. wpc' = [wpc EXCEPT ![w] = "open"] /\ UNCHANGED <<holder, step>>
    BY <1>2 DEF Lock, Goto
  <2>2. LogTypeInv'
    BY <1>1, <2>1 DEF LogInv, LogTypeInv
  <2>. QED
    BY <1>1, <2>1, <2>2, LogNats, FilesGrow DEF LogInv
<1>3. CASE Over
  <2>1. wpc' = [wpc EXCEPT ![w] = "rotate"] /\ holder' = w /\ step' = keep
    BY <1>3 DEF Lock, Goto
  <2>2. LogTypeInv'
    BY <1>1, <2>1, LogConstants DEF LogInv, LogTypeInv
  <2>3. /\ path[0] # 0 /\ path[0] \in 1..Len(file) /\ keep \in Nat
        /\ file[path[0]].texts \in Nat /\ file[path[0]].texts >= Cap
    <3>1. LogTypeInv /\ path[0] # 0 /\ file[path[0]].texts + 1 > Cap
      BY <1>3 DEF Over, LogInv
    <3>2. path[0] \in 1..Len(file)
      BY <3>1, LogNats
    <3>. QED
      BY <3>1, <3>2, LogNats
  <2>4. RotationIsDue'
    BY <1>1, <2>1, <2>3 DEF RotationIsDue
  <2>5. HistoryIsFull'
    BY <1>1, <2>1, <2>3 DEF LogInv, HistoryIsFull, Younger, Rotating
  <2>6. GoneAreOld'
    BY <1>1, <2>1 DEF LogInv, GoneAreOld, Gone
  <2>. QED
    BY <2>2, <2>4, <2>5, <2>6 DEF LogInv
<1>. QED
  BY <1>2, <1>3

\* A new file is the youngest.
LEMMA Opened ==
  ASSUME LogTypeInv
  PROVE  LET longer == Append(file, NewFile) IN
         /\ (\E S : longer \in Seq(S)) /\ Len(longer) = Len(file) + 1 /\ Len(file) \in Nat
         /\ \A d \in 1..Len(file) : longer[d] = file[d]
         /\ longer[Len(file) + 1] = NewFile
         /\ \A d \in 1..(Len(file) + 1) :
               /\ longer[d] = [texts |-> longer[d].texts, whole |-> longer[d].whole,
                               kept |-> longer[d].kept, shown |-> longer[d].shown]
               /\ longer[d].texts \in Nat
<1> DEFINE longer == Append(file, NewFile)
<1>1. PICK S : file \in Seq(S)
  BY DEF LogTypeInv
<1>2. longer \in Seq(S \cup {NewFile}) /\ Len(longer) = Len(file) + 1 /\ Len(file) \in Nat
  BY <1>1
<1>3. /\ \A d \in 1..Len(file) : longer[d] = file[d]
      /\ longer[Len(file) + 1] = NewFile
  BY <1>1
<1>4. NewFile = [texts |-> NewFile.texts, whole |-> NewFile.whole, kept |-> NewFile.kept,
                 shown |-> NewFile.shown] /\ NewFile.texts \in Nat
  BY DEF NewFile
<1>5. \A d \in 1..(Len(file) + 1) : d \in 1..Len(file) \/ d = Len(file) + 1
  BY <1>2
<1>. HIDE DEF longer
<1>6. \A d \in 1..(Len(file) + 1) :
         /\ longer[d] = [texts |-> longer[d].texts, whole |-> longer[d].whole,
                         kept |-> longer[d].kept, shown |-> longer[d].shown]
         /\ longer[d].texts \in Nat
  BY <1>3, <1>4, <1>5 DEF LogTypeInv
<1>. USE DEF longer
<1>. QED
  BY <1>2, <1>3, <1>6

LEMMA TruncateKeeps ==
  ASSUME LogInv, NEW w \in Writers, Truncate(w)
  PROVE  LogInv'
<1>1. /\ wpc[w] = "rotate" /\ keep = 0 /\ file' = Append(file, NewFile)
      /\ path' = [path EXCEPT ![0] = Len(file')]
      /\ fd' = [v \in Writers |-> IF fd[v] = path[0] THEN Len(file') ELSE fd[v]]
      /\ holder' = NoWriter /\ wpc' = [wpc EXCEPT ![w] = "open"]
      /\ UNCHANGED <<keep, step, deaths>>
  BY DEF Truncate, Goto
<1>2. LogTypeInv'
  BY <1>1, Opened, LogConstants DEF LogInv, LogTypeInv
<1>. QED
  BY <1>1, <1>2 DEF LogInv, RotationIsDue, Rotating, HistoryIsFull, GoneAreOld

LEMMA OpenKeeps ==
  ASSUME LogInv, NEW w \in Writers, Open(w)
  PROVE  LogInv'
<1>1. /\ wpc[w] = "open" /\ wpc' = [wpc EXCEPT ![w] = "text"]
      /\ UNCHANGED <<keep, holder, step, deaths>>
  BY DEF Open, Goto
<1>2. CASE path[0] # 0
  <2>1. fd' = [fd EXCEPT ![w] = path[0]] /\ UNCHANGED <<path, file>>
    BY <1>2 DEF Open
  <2>2. LogTypeInv'
    BY <1>1, <2>1 DEF LogInv, LogTypeInv
  <2>. QED
    BY <1>1, <2>1, <2>2, LogNats, FilesGrow DEF LogInv
<1>3. CASE path[0] = 0
  <2>1. /\ file' = Append(file, NewFile) /\ path' = [path EXCEPT ![0] = Len(file')]
        /\ fd' = [fd EXCEPT ![w] = Len(file')]
    BY <1>3 DEF Open
  <2>2. /\ Len(file') = Len(file) + 1 /\ Len(file) \in Nat /\ keep \in Nat /\ deaths \in Nat
        /\ \A d \in 1..Len(file) : file'[d] = file[d]
        /\ path'[0] = Len(file) + 1 /\ \A i \in 1..keep : path'[i] = path[i] /\ path[i] \in 0..Len(file)
    BY <2>1, Opened, LogNats DEF LogInv, LogTypeInv
  <2>3. LogTypeInv'
    BY <1>1, <2>1, Opened DEF LogInv, LogTypeInv
  <2>4. ~Rotating /\ ~Rotating'
    BY <1>1, <1>3 DEF LogInv, RotationIsDue, Rotating
  <2>5. HistoryIsFull'
    <3>. SUFFICES ASSUME keep > 0, NEW i \in 1..keep, path[i] # 0
                  PROVE  file'[path[i]].texts >= Cap /\ Younger(i)' >= i
      BY <1>1, <2>2 DEF HistoryIsFull
    <3>1. file[path[i]].texts >= Cap /\ Younger(i) >= i
      BY DEF LogInv, HistoryIsFull
    <3>2. file'[path[i]] = file[path[i]] /\ path'[i] = path[i] /\ path'[0] # 0 /\ deaths' = deaths
      BY <1>1, <2>2
    <3>3. Younger(i)' = Younger(i)
      BY <1>3, <2>2, <2>4, <3>2 DEF Younger
    <3>. QED
      BY <3>1, <3>2, <3>3
  <2>6. GoneAreOld'
    <3>. SUFFICES ASSUME keep > 0, NEW d \in Gone' PROVE Len(file') - d + deaths' >= keep'
      BY <1>1 DEF GoneAreOld
    <3>1. d \in 1..Len(file) /\ \A i \in 0..keep : path'[i] # d
      BY <1>1, <2>2 DEF Gone
    <3>2. d \in Gone
      BY <1>3, <2>2, <3>1 DEF Gone
    <3>. QED
      BY <1>1, <2>2, <3>1, <3>2 DEF LogInv, GoneAreOld
  <2>. QED
    BY <2>3, <2>4, <2>5, <2>6 DEF LogInv, RotationIsDue
<1>. QED
  BY <1>2, <1>3

LEMMA TextKeeps ==
  ASSUME LogInv, NEW w \in Writers, Text(w) \/ Newline(w)
  PROVE  LogInv'
<1>1. /\ wpc' \in {[wpc EXCEPT ![w] = "newline"], [wpc EXCEPT ![w] = "idle"]}
      /\ wpc[w] \in {"text", "newline"} /\ fd' \in {fd, [fd EXCEPT ![w] = 0]}
      /\ \/ file' = [file EXCEPT ![fd[w]].texts = @ + 1]
         \/ file' = [file EXCEPT ![fd[w]].whole = @ + 1]
      /\ UNCHANGED <<keep, path, holder, step, deaths>>
  BY DEF Text, Newline, Goto
<1>2. /\ (\E S : file' \in Seq(S)) /\ Len(file') = Len(file)
      /\ \A d \in 1..Len(file) :
            /\ file'[d] = [texts |-> file'[d].texts, whole |-> file'[d].whole,
                           kept |-> file'[d].kept, shown |-> file'[d].shown]
            /\ file'[d].texts \in Nat /\ file'[d].texts >= file[d].texts
  <2>1. PICK S : file \in Seq(S)
    BY DEF LogInv, LogTypeInv
  <2>2. DOMAIN file = 1..Len(file) /\ Len(file) \in Nat
    BY <2>1
  <2>3. PICK line : /\ file' = [file EXCEPT ![fd[w]] = line]
                    /\ fd[w] \in 1..Len(file) =>
                         /\ line = [texts |-> line.texts, whole |-> line.whole,
                                    kept |-> line.kept, shown |-> line.shown]
                         /\ line.texts \in Nat /\ line.texts >= file[fd[w]].texts
    <3> DEFINE r == file[fd[w]]
               l1 == [r EXCEPT !.texts = @ + 1]
               l2 == [r EXCEPT !.whole = @ + 1]
    <3>1. fd[w] \in 1..Len(file) =>
            r = [texts |-> r.texts, whole |-> r.whole, kept |-> r.kept, shown |-> r.shown]
            /\ r.texts \in Nat
      BY DEF LogInv, LogTypeInv
    <3>2. fd[w] \in 1..Len(file) =>
            /\ l1 = [texts |-> r.texts + 1, whole |-> r.whole, kept |-> r.kept, shown |-> r.shown]
            /\ l2 = [texts |-> r.texts, whole |-> r.whole + 1, kept |-> r.kept, shown |-> r.shown]
      BY <3>1
    <3>3. file' = [file EXCEPT ![fd[w]] = l1] \/ file' = [file EXCEPT ![fd[w]] = l2]
      BY <1>1
    <3>. QED
      BY <3>1, <3>2, <3>3
  <2>4. file' \in [1..Len(file) -> S \cup {line}] /\ DOMAIN file' = 1..Len(file)
    <3>1. file \in [1..Len(file) -> S]
      BY <2>1
    <3>. QED
      BY <2>3, <3>1
  <2>5. \A d \in 1..Len(file) : file'[d] = IF d = fd[w] THEN line ELSE file[d]
    BY <2>2, <2>3
  <2>6. \A d \in 1..Len(file) :
            /\ file[d] = [texts |-> file[d].texts, whole |-> file[d].whole,
                          kept |-> file[d].kept, shown |-> file[d].shown]
            /\ file[d].texts \in Nat
    BY DEF LogInv, LogTypeInv
  <2>7. file' \in Seq(S \cup {line}) /\ Len(file') = Len(file)
    BY <2>2, <2>4, Listed
  <2>8. ASSUME NEW d \in 1..Len(file)
        PROVE  /\ file'[d] = [texts |-> file'[d].texts, whole |-> file'[d].whole,
                              kept |-> file'[d].kept, shown |-> file'[d].shown]
               /\ file'[d].texts \in Nat /\ file'[d].texts >= file[d].texts
    <3>1. CASE d = fd[w]
      BY <2>3, <2>5, <3>1
    <3>2. CASE d # fd[w]
      BY <2>5, <2>6, <3>2
    <3>. QED
      BY <3>1, <3>2
  <2>. QED
    BY <2>7, <2>8
<1>3. LogTypeInv'
  <2>1. /\ wpc' \in [Writers -> {"idle", "full", "rotate", "open", "text", "newline"}]
        /\ \A v \in Writers : wpc'[v] = "rotate" <=> wpc[v] = "rotate"
    BY <1>1 DEF LogInv, LogTypeInv
  <2>2. fd' \in [Writers -> 0..Len(file)]
    BY <1>1, LogNats DEF LogInv, LogTypeInv
  <2>. QED
    BY <1>1, <1>2, <2>1, <2>2 DEF LogInv, LogTypeInv
<1>4. /\ deaths \in Nat /\ deaths' = deaths /\ Len(file') = Len(file)
      /\ UNCHANGED <<keep, path, holder, step>>
  BY <1>1, <1>2, LogNats DEF LogInv
<1>5. \A d \in 1..Len(file) : file'[d].texts >= file[d].texts
  BY <1>2
<1>6. deaths <= deaths'
  BY <1>4
<1>. QED
  BY <1>3, <1>4, <1>5, <1>6, FilesGrow

\* The oldest goes: as many files as are kept have come after it.
LEMMA RemoveOldestKeeps ==
  ASSUME LogInv, NEW w \in Writers, RemoveOldest(w)
  PROVE  LogInv'
<1>1. /\ wpc[w] = "rotate" /\ keep > 0 /\ step = keep
      /\ path' = [path EXCEPT ![keep] = 0] /\ step' = keep - 1
      /\ UNCHANGED <<keep, file, wpc, fd, holder, deaths>>
  BY DEF RemoveOldest
<1>2. Rotating /\ Rotating' /\ path[0] # 0 /\ file[path[0]].texts >= Cap
  BY <1>1, LogConstants DEF LogInv, LogTypeInv, RotationIsDue, Rotating
<1>3. /\ Len(file) \in Nat /\ deaths \in Nat /\ keep \in Nat
      /\ \A i \in 0..keep : path[i] \in 0..Len(file) /\ path'[i] = IF i = keep THEN 0 ELSE path[i]
      /\ path'[0] = path[0] /\ path' \in [0..keep -> 0..Len(file)]
  BY <1>1, LogNats DEF LogInv, LogTypeInv
<1>4. LogTypeInv'
  BY <1>1, <1>3 DEF LogInv, LogTypeInv
<1>5. RotationIsDue'
  BY <1>1, <1>2, <1>3 DEF RotationIsDue
<1>6. HistoryIsFull'
  <2>. SUFFICES ASSUME NEW i \in 1..keep, path'[i] # 0
                PROVE  file[path'[i]].texts >= Cap /\ Younger(i)' >= i
    BY <1>1 DEF HistoryIsFull
  <2>1. i \in Nat /\ i # keep /\ i < keep /\ path'[i] = path[i] /\ path[i] \in 0..Len(file)
    BY <1>3
  <2>2. file[path[i]].texts >= Cap /\ Younger(i) >= i
    BY <1>1, <2>1 DEF LogInv, HistoryIsFull
  <2>3. Younger(i) = Len(file) - path[i] + deaths + 0 + 0
    BY <1>1, <1>2, <1>3, <2>1 DEF Younger
  <2>4. Younger(i)' = Len(file) - path[i] + deaths + 0 + (IF i > keep - 1 THEN 1 ELSE 0)
    BY <1>1, <1>2, <1>3, <2>1 DEF Younger
  <2>. QED
    BY <1>3, <2>1, <2>2, <2>3, <2>4
<1>7. GoneAreOld'
  <2>. SUFFICES ASSUME NEW d \in Gone' PROVE Len(file) - d + deaths >= keep
    BY <1>1 DEF GoneAreOld
  <2>1. d \in 1..Len(file) /\ \A i \in 0..keep : path'[i] # d
    BY <1>1 DEF Gone
  <2>2. CASE d \in Gone
    BY <1>1, <2>2 DEF LogInv, GoneAreOld
  <2>3. CASE d \notin Gone
    <3>1. path[keep] = d /\ path[keep] # 0
      BY <1>3, <2>1, <2>3 DEF Gone
    <3>2. Younger(keep) >= keep
      BY <1>1, <1>3, <3>1 DEF LogInv, HistoryIsFull
    <3>3. Younger(keep) = Len(file) - d + deaths + 0 + 0
      BY <1>1, <1>2, <1>3, <3>1 DEF Younger
    <3>. QED
      BY <1>3, <2>1, <3>2, <3>3
  <2>. QED
    BY <2>2, <2>3
<1>. QED
  BY <1>4, <1>5, <1>6, <1>7 DEF LogInv

\* Every younger file moves into the free place next to its own; the live one,
\* the last, leaves the live path to the next open.
LEMMA ShiftKeeps ==
  ASSUME LogInv, NEW w \in Writers, Shift(w)
  PROVE  LogInv'
<1>1. /\ wpc[w] = "rotate" /\ keep > 0 /\ step < keep /\ Moved
      /\ UNCHANGED <<keep, fd, deaths>> /\ holder = w
      /\ \/ step > 0 /\ step' = step - 1 /\ UNCHANGED <<wpc, holder>>
         \/ step = 0 /\ step' = 0 /\ holder' = NoWriter /\ wpc' = [wpc EXCEPT ![w] = "open"]
  <2>1. /\ wpc[w] = "rotate" /\ keep > 0 /\ step < keep /\ Moved /\ UNCHANGED <<keep, fd, deaths>>
        /\ \/ step > 0 /\ step' = step - 1 /\ UNCHANGED <<wpc, holder>>
           \/ /\ ~(step > 0) /\ step' = 0 /\ holder' = NoWriter
              /\ wpc' = [wpc EXCEPT ![w] = IF path[0] = 0 THEN "idle" ELSE "open"]
    BY DEF Shift, Goto
  <2>2. holder = w /\ holder # NoWriter /\ step \in Nat
    BY <2>1, LogConstants DEF LogInv, LogTypeInv
  <2>3. path[0] # 0
    BY <2>2 DEF LogInv, RotationIsDue, Rotating
  <2>. QED
    BY <2>1, <2>2, <2>3
<1>2. /\ Rotating /\ path[0] # 0 /\ file[path[0]].texts >= Cap /\ path[step + 1] = 0
      /\ Len(file) \in Nat /\ deaths \in Nat /\ keep \in Nat /\ step \in Nat /\ Cap \in Nat
      /\ \A i \in 0..keep : path[i] \in 0..Len(file)
      /\ \A d \in 1..Len(file) : file[d].texts \in Nat
  BY <1>1, LogNats, LogConstants DEF LogInv, RotationIsDue, Rotating
<1>3. /\ path' \in [0..keep -> 0..Len(file)]
      /\ \A i \in 0..keep : path'[i] = IF i = step + 1 THEN path[step]
                                       ELSE IF i = step THEN 0 ELSE path[i]
  <2>1. path \in [0..keep -> 0..Len(file)] /\ step \in 0..keep /\ step + 1 \in 0..keep
    BY <1>1, <1>2 DEF LogInv, LogTypeInv
  <2>2. CASE path[step] = 0
    BY <1>1, <1>2, <2>1, <2>2 DEF Moved
  <2>3. CASE path[step] # 0
    <3>1. path' = [path EXCEPT ![step + 1] = path[step], ![step] = 0]
      BY <1>1, <2>3 DEF Moved
    <3>. QED
      BY <1>2, <2>1, <3>1
  <2>. QED
    BY <2>2, <2>3
<1>4. /\ (\E S : file' \in Seq(S)) /\ Len(file') = Len(file)
      /\ \A d \in 1..Len(file) :
            /\ file'[d] = [texts |-> file'[d].texts, whole |-> file'[d].whole,
                           kept |-> file'[d].kept, shown |-> file'[d].shown]
            /\ file'[d].texts = file[d].texts
  <2>1. PICK S : file \in Seq(S)
    BY DEF LogInv, LogTypeInv
  <2>2. \A d \in 1..Len(file) :
           file[d] = [texts |-> file[d].texts, whole |-> file[d].whole,
                      kept |-> file[d].kept, shown |-> file[d].shown]
    BY DEF LogInv, LogTypeInv
  <2>3. CASE file' = file
    BY <2>1, <2>2, <2>3
  <2>4. CASE file' = [file EXCEPT ![path[0]].kept = file[path[0]].whole]
    <3> DEFINE r == file[path[0]]
               line == [r EXCEPT !.kept = r.whole]
    <3>1. path[0] \in 1..Len(file) /\ DOMAIN file = 1..Len(file) /\ file \in [1..Len(file) -> S]
      BY <1>2, <2>1
    <3>2. line = [texts |-> r.texts, whole |-> r.whole, kept |-> r.whole, shown |-> r.shown]
      BY <2>2, <3>1
    <3>3. /\ file' \in [1..Len(file) -> S \cup {line}]
          /\ \A d \in 1..Len(file) : file'[d] = IF d = path[0] THEN line ELSE file[d]
      BY <2>4, <3>1
    <3>4. file' \in Seq(S \cup {line}) /\ Len(file') = Len(file)
      BY <1>2, <3>3, Listed
    <3>5. ASSUME NEW d \in 1..Len(file)
          PROVE  /\ file'[d] = [texts |-> file'[d].texts, whole |-> file'[d].whole,
                                kept |-> file'[d].kept, shown |-> file'[d].shown]
                 /\ file'[d].texts = file[d].texts
      BY <2>2, <3>2, <3>3
    <3>. QED
      BY <3>4, <3>5
  <2>. QED
    BY <1>1, <2>3, <2>4 DEF Moved
<1>5. LogTypeInv'
  <2>1. /\ wpc' \in [Writers -> {"idle", "full", "rotate", "open", "text", "newline"}]
        /\ holder' \in Writers \cup {NoWriter} /\ step' \in Nat
        /\ \A v \in Writers : wpc'[v] = "rotate" <=> holder' = v
    <3>1. CASE step > 0
      <4>1. step' = step - 1 /\ UNCHANGED <<wpc, holder>>
        BY <1>1, <3>1
      <4>. QED
        BY <1>2, <3>1, <4>1 DEF LogInv, LogTypeInv
    <3>2. CASE step = 0
      <4>1. step' = 0 /\ holder' = NoWriter /\ wpc' = [wpc EXCEPT ![w] = "open"]
        BY <1>1, <3>2
      <4>2. /\ wpc \in [Writers -> {"idle", "full", "rotate", "open", "text", "newline"}]
            /\ \A v \in Writers : wpc[v] = "rotate" <=> v = w
        BY <1>1 DEF LogInv, LogTypeInv
      <4>. QED
        BY <4>1, <4>2, LogConstants
    <3>. QED
      BY <1>2, <3>1, <3>2
  <2>2. /\ keep' \in Nat /\ path' \in [0..keep' -> 0..Len(file')]
        /\ fd' \in [Writers -> 0..Len(file')] /\ deaths' \in Nat
    BY <1>1, <1>2, <1>3, <1>4 DEF LogInv, LogTypeInv
  <2>3. \A d \in 1..Len(file') : file'[d].texts \in Nat
    BY <1>2, <1>4
  <2>. QED
    BY <1>4, <2>1, <2>2, <2>3 DEF LogTypeInv
<1>6. RotationIsDue'
  <2>1. CASE step = 0
    BY <1>1, <2>1 DEF RotationIsDue, Rotating
  <2>2. CASE step > 0
    <3>1. /\ step' = step - 1 /\ path'[0] = path[0] /\ path'[step] = 0 /\ path[0] \in 1..Len(file)
          /\ step - 1 + 1 = step /\ step - 1 \in 0..keep
      BY <1>1, <1>2, <1>3, <2>2
    <3>2. file'[path[0]].texts >= Cap
      BY <1>2, <1>4, <3>1
    <3>. QED
      BY <1>1, <1>2, <3>1, <3>2 DEF RotationIsDue
  <2>. QED
    BY <1>2, <2>1, <2>2
<1>7. HistoryIsFull'
  <2>. SUFFICES ASSUME NEW i \in 1..keep, path'[i] # 0
                PROVE  file'[path'[i]].texts >= Cap /\ Younger(i)' >= i
    BY <1>1 DEF HistoryIsFull
  <2>1. i \in Nat /\ i >= 1 /\ i <= keep /\ i # step /\ path'[i] \in 1..Len(file)
    BY <1>2, <1>3
  <2>2. \A j \in 1..keep : path[j] # 0 =>
           /\ file[path[j]].texts >= Cap
           /\ Len(file) - path[j] + deaths + 0 + (IF j > step THEN 1 ELSE 0) >= j
    BY <1>1, <1>2 DEF LogInv, HistoryIsFull, Younger
  <2>3. Younger(i)' = Len(file) - path'[i] + deaths + 0 + (IF step = 0 \/ i > step - 1 THEN 1 ELSE 0)
    <3>1. CASE step = 0
      <4>1. ~Rotating' /\ path'[0] = 0
        BY <1>1, <1>2, <1>3, <3>1 DEF Rotating
      <4>. QED
        BY <1>1, <1>2, <1>4, <2>1, <3>1, <4>1 DEF Younger
    <3>2. CASE step > 0
      <4>1. step' = step - 1 /\ holder' = holder
        BY <1>1, <3>2
      <4>2. path'[0] = path[0] /\ path[0] # 0
        BY <1>2, <1>3, <3>2
      <4>3. Rotating' /\ path'[0] # 0
        BY <1>2, <4>1, <4>2 DEF Rotating
      <4>. QED
        BY <1>1, <1>2, <1>4, <2>1, <3>2, <4>1, <4>3 DEF Younger
    <3>. QED
      BY <1>2, <3>1, <3>2
  <2>4. CASE i = step + 1
    <3>1. path'[i] = path[step] /\ path[step] # 0 /\ path[step] \in 1..Len(file)
      BY <1>1, <1>2, <1>3, <2>1, <2>4
    <3>2. file[path[step]].texts >= Cap /\ Len(file) - path[step] + deaths >= step
      <4>1. CASE step = 0
        BY <1>2, <3>1, <4>1
      <4>2. CASE step > 0
        <5>1. step \in 1..keep
          BY <1>1, <1>2, <4>2
        <5>. QED
          BY <1>2, <2>2, <3>1, <5>1
      <4>. QED
        BY <1>2, <4>1, <4>2
    <3>3. Younger(i)' = Len(file) - path[step] + deaths + 0 + 1
      BY <1>2, <2>3, <2>4, <3>1
    <3>4. file'[path[step]].texts = file[path[step]].texts
      BY <1>4, <3>1
    <3>. QED
      BY <1>2, <2>4, <3>1, <3>2, <3>3, <3>4
  <2>5. CASE i # step + 1
    <3>1. path'[i] = path[i]
      BY <1>3, <2>1, <2>5
    <3>2. /\ file[path[i]].texts >= Cap /\ file'[path[i]].texts = file[path[i]].texts
          /\ Len(file) - path[i] + deaths + 0 + (IF i > step THEN 1 ELSE 0) >= i
          /\ path[i] \in 1..Len(file)
      BY <1>4, <2>1, <2>2, <3>1
    <3>3. Younger(i)' = Len(file) - path[i] + deaths + 0 + (IF step = 0 \/ i > step - 1 THEN 1 ELSE 0)
      BY <2>3, <3>1
    <3>. QED
      BY <1>2, <2>1, <2>5, <3>1, <3>2, <3>3
  <2>. QED
    BY <2>4, <2>5
<1>8. GoneAreOld'
  <2>. SUFFICES ASSUME NEW d \in Gone' PROVE Len(file) - d + deaths >= keep
    BY <1>1, <1>4 DEF GoneAreOld
  <2>1. d \in 1..Len(file) /\ \A i \in 0..keep : path'[i] # d
    BY <1>1, <1>4 DEF Gone
  <2>2. \A i \in 0..keep : path[i] # d
    <3>1. step + 1 \in 0..keep /\ d # 0
      BY <1>1, <1>2, <2>1
    <3>. QED
      BY <1>2, <1>3, <2>1, <3>1
  <2>. QED
    BY <1>1, <2>1, <2>2 DEF LogInv, GoneAreOld, Gone
<1>. QED
  BY <1>5, <1>6, <1>7, <1>8 DEF LogInv

\* The place that a rotation loses with its process is the death's.
LEMMA WriterDiesKeeps ==
  ASSUME LogInv, NEW w \in Writers, WriterDies(w)
  PROVE  LogInv'
<1>1. /\ deaths' = deaths + 1 /\ wpc' = [wpc EXCEPT ![w] = "idle"] /\ fd' = [fd EXCEPT ![w] = 0]
      /\ holder' = (IF holder = w THEN NoWriter ELSE holder)
      /\ step' = (IF holder = w THEN 0 ELSE step)
      /\ UNCHANGED <<keep, path, file>>
  BY DEF WriterDies, Goto
<1>2. /\ Len(file) \in Nat /\ deaths \in Nat /\ keep \in Nat /\ step \in Nat /\ Cap \in Nat
      /\ \A i \in 0..keep : path[i] \in 0..Len(file)
      /\ \A d \in 1..Len(file) : file[d].texts \in Nat
  BY LogNats DEF LogInv
<1>3. LogTypeInv'
  <2>1. \A v \in Writers : wpc'[v] = "rotate" <=> holder' = v
    BY <1>1, LogConstants DEF LogInv, LogTypeInv
  <2>2. /\ wpc' \in [Writers -> {"idle", "full", "rotate", "open", "text", "newline"}]
        /\ fd' \in [Writers -> 0..Len(file)] /\ holder' \in Writers \cup {NoWriter}
        /\ step' \in Nat /\ deaths' \in Nat
    BY <1>1, <1>2 DEF LogInv, LogTypeInv
  <2>. QED
    BY <1>1, <2>1, <2>2 DEF LogInv, LogTypeInv
<1>4. CASE holder # w
  <2>1. /\ UNCHANGED <<keep, path, holder, step>> /\ Len(file') = Len(file) /\ deaths <= deaths'
        /\ \A d \in 1..Len(file) : file'[d].texts >= file[d].texts
    BY <1>1, <1>2, <1>4
  <2>. QED
    BY <1>3, <2>1, FilesGrow
<1>5. CASE holder = w
  <2>1. ~Rotating' /\ Rotating /\ path[0] # 0
    BY <1>1, <1>5, LogConstants DEF LogInv, RotationIsDue, Rotating
  <2>2. HistoryIsFull'
    <3>. SUFFICES ASSUME keep > 0, NEW i \in 1..keep, path[i] # 0
                  PROVE  file[path[i]].texts >= Cap /\ Younger(i)' >= i
      BY <1>1 DEF HistoryIsFull
    <3>1. file[path[i]].texts >= Cap /\ Younger(i) >= i /\ i \in Nat /\ path[i] \in 0..Len(file)
      BY <1>2 DEF LogInv, HistoryIsFull
    <3>2. Younger(i) = Len(file) - path[i] + deaths + 0 + (IF i > step THEN 1 ELSE 0)
      BY <2>1 DEF Younger
    <3>3. Younger(i)' = Len(file) - path[i] + (deaths + 1) + 0 + 0
      BY <1>1, <2>1 DEF Younger
    <3>. QED
      BY <1>2, <3>1, <3>2, <3>3
  <2>3. GoneAreOld'
    <3>1. Gone' = Gone /\ \A d \in Gone : d \in 1..Len(file)
      BY <1>1 DEF Gone
    <3>. QED
      BY <1>1, <1>2, <3>1 DEF LogInv, GoneAreOld
  <2>. QED
    BY <1>3, <2>1, <2>2, <2>3 DEF LogInv, RotationIsDue
<1>. QED
  BY <1>4, <1>5

\* The watch notes what it has shown and nothing else.
LEMMA WatchKeeps ==
  ASSUME LogInv, UNCHANGED writerVars,
         \/ file' = file
         \/ \E g : file' = [d \in DOMAIN file |-> [file[d] EXCEPT !.shown = g[d]]]
  PROVE  LogInv'
<1>1. UNCHANGED <<keep, path, wpc, fd, holder, step, deaths>>
  BY DEF writerVars
<1>2. PICK S : file \in Seq(S)
  BY DEF LogInv, LogTypeInv
<1>3. /\ Len(file) \in Nat /\ DOMAIN file = 1..Len(file) /\ deaths \in Nat
      /\ \A d \in 1..Len(file) :
            /\ file[d] = [texts |-> file[d].texts, whole |-> file[d].whole,
                          kept |-> file[d].kept, shown |-> file[d].shown]
            /\ file[d].texts \in Nat
  BY <1>2 DEF LogInv, LogTypeInv
<1>4. /\ (\E T : file' \in Seq(T)) /\ Len(file') = Len(file)
      /\ \A d \in 1..Len(file) :
            /\ file'[d] = [texts |-> file'[d].texts, whole |-> file'[d].whole,
                           kept |-> file'[d].kept, shown |-> file'[d].shown]
            /\ file'[d].texts = file[d].texts
  <2>1. CASE file' = file
    BY <1>2, <1>3, <2>1
  <2>2. ASSUME NEW g, file' = [d \in DOMAIN file |-> [file[d] EXCEPT !.shown = g[d]]]
        PROVE  <1>4
    <3>1. /\ DOMAIN file' = 1..Len(file)
          /\ file' = [d \in 1..Len(file) |-> file'[d]]
          /\ \A d \in 1..Len(file) : file'[d] = [file[d] EXCEPT !.shown = g[d]]
      BY <1>3, <2>2
    <3>2. \A d \in 1..Len(file) :
             file'[d] = [texts |-> file[d].texts, whole |-> file[d].whole,
                         kept |-> file[d].kept, shown |-> g[d]]
      BY <1>3, <3>1
    <3>3. file' \in [1..Len(file) -> {file'[d] : d \in 1..Len(file)}]
      BY <3>1
    <3>4. file' \in Seq({file'[d] : d \in 1..Len(file)}) /\ Len(file') = Len(file)
      BY <1>3, <3>3, Listed
    <3>5. ASSUME NEW d \in 1..Len(file)
          PROVE  /\ file'[d] = [texts |-> file'[d].texts, whole |-> file'[d].whole,
                                kept |-> file'[d].kept, shown |-> file'[d].shown]
                 /\ file'[d].texts = file[d].texts
      <4>1. file'[d] = [texts |-> file[d].texts, whole |-> file[d].whole,
                        kept |-> file[d].kept, shown |-> g[d]]
        BY <3>2
      <4>2. /\ file'[d].texts = file[d].texts /\ file'[d].whole = file[d].whole
            /\ file'[d].kept = file[d].kept /\ file'[d].shown = g[d]
        BY ONLY <4>1
      <4>. QED
        BY ONLY <4>1, <4>2
    <3>. QED
      BY <3>4, <3>5
  <2>. QED
    BY <2>1, <2>2
<1>5. LogTypeInv'
  <2>1. \A d \in 1..Len(file') :
            /\ file'[d] = [texts |-> file'[d].texts, whole |-> file'[d].whole,
                           kept |-> file'[d].kept, shown |-> file'[d].shown]
            /\ file'[d].texts \in Nat
    BY <1>3, <1>4
  <2>2. \E T : file' \in Seq(T)
    BY <1>4
  <2>3. Len(file') = Len(file)
    BY <1>4
  <2>. QED
    BY <1>1, <2>1, <2>2, <2>3 DEF LogInv, LogTypeInv
<1>6. \A d \in 1..Len(file) : file'[d].texts >= file[d].texts
  BY <1>3, <1>4
<1>7. deaths <= deaths' /\ Len(file') = Len(file) /\ UNCHANGED <<keep, path, holder, step>>
  BY <1>1, <1>3, <1>4
<1>. QED
  BY <1>5, <1>6, <1>7, FilesGrow

LEMMA ShowKeeps ==
  ASSUME NEW pieces, Show(pieces)
  PROVE  \E g : file' = [d \in DOMAIN file |-> [file[d] EXCEPT !.shown = g[d]]]
<1> DEFINE Of(d) == {i \in DOMAIN pieces : pieces[i].file = d /\ pieces[i].from < pieces[i].to}
           Reach(d) == {file[d].shown} \cup {pieces[i].to : i \in Of(d)}
           shownTo == [d \in DOMAIN file |->
                         IF \E i \in Of(d) : pieces[i].from > file[d].shown THEN file[d].shown
                         ELSE CHOOSE n \in Reach(d) : \A m \in Reach(d) : m <= n]
<1>1. file' = [d \in DOMAIN file |-> [file[d] EXCEPT !.shown = shownTo[d]]]
  BY Zenon DEF Show
<1>. HIDE DEF shownTo
<1>. QED
  BY <1>1

LEMMA WatchStepKeeps ==
  ASSUME LogInv, WatchStarts \/ ScreenSibling \/ PollLive \/ PollSibling
  PROVE  LogInv'
<1>1. CASE WatchStarts
  <2> DEFINE g == [d \in DOMAIN file |-> IF d \in Gone THEN file[d].whole ELSE file[d].shown]
  <2>1. /\ file' = [d \in DOMAIN file |->
                       [file[d] EXCEPT !.shown = IF d \in Gone THEN file[d].whole ELSE file[d].shown]]
        /\ UNCHANGED writerVars
    BY <1>1, Zenon DEF WatchStarts
  <2>2. file' = [d \in DOMAIN file |-> [file[d] EXCEPT !.shown = g[d]]]
    BY <2>1
  <2>. HIDE DEF g
  <2>. QED
    BY <2>1, <2>2, WatchKeeps
<1>2. CASE PollLive
  <2>1. UNCHANGED writerVars /\ (file' = file \/ \E pieces : Show(pieces))
    BY <1>2 DEF PollLive
  <2>. QED
    BY <2>1, ShowKeeps, WatchKeeps
<1>3. CASE ScreenSibling \/ PollSibling
  <2>1. UNCHANGED writerVars /\ (file' = file \/ \E pieces : Show(pieces))
    BY <1>3 DEF ScreenSibling, PollSibling, WalkEnds, PassesSibling
  <2>. QED
    BY <2>1, ShowKeeps, WatchKeeps
<1>. QED
  BY <1>1, <1>2, <1>3

\* The log's invariant: a rotation moves a full file into a free place, what is
\* in history was full when it got there, and every place there stands for a
\* younger file, a death, or the live file that the next open creates.
THEOREM LogInvariant == LogSpec => []LogInv
<1>1. LogInv /\ [LogNext]_logVars => LogInv'
  <2>. SUFFICES ASSUME LogInv, [LogNext]_logVars PROVE LogInv'
    OBVIOUS
  <2>1. CASE UNCHANGED logVars
    BY <2>1 DEF logVars, writerVars, LogInv, LogTypeInv, RotationIsDue, HistoryIsFull, GoneAreOld,
                Gone, Younger, Rotating
  <2>2. ASSUME NEW w \in Writers,
               \/ Look(w) \/ Lock(w) \/ Truncate(w) \/ RemoveOldest(w) \/ Shift(w)
               \/ Open(w) \/ Text(w) \/ Newline(w) \/ WriterDies(w)
        PROVE  LogInv'
    BY <2>2, LookKeeps, LockKeeps, TruncateKeeps, RemoveOldestKeeps, ShiftKeeps, OpenKeeps,
       TextKeeps, WriterDiesKeeps
  <2>. QED
    BY <2>1, <2>2, WatchStepKeeps DEF LogNext
<1>. QED
  BY <1>1, LogInitInv, PTL DEF LogSpec

\* What is rotated was full, and a file falls out of history only when as many
\* later files have taken its place, but for one at each death: for any number
\* of writers, lines and rotations.
THEOREM HistoryIsKept == LogSpec => []LogKeeps
<1>1. LogInv => LogKeeps
  BY DEF LogInv, HistoryIsFull, GoneAreOld, LogKeeps
<1>. QED
  BY <1>1, LogInvariant, PTL

-----------------------------------------------------------------------------
(* The watch: what it has shown, with the types of all that the log is made  *)
(* of. It knows its file while nothing tears (`torn`), and on a walk it      *)
(* knows its way.                                                            *)

LogLine == [texts : Nat, whole : Nat, kept : Nat, shown : Nat]

LEMMA LogTypes ==
  ASSUME LogTypeOK
  PROVE  /\ Len(file) \in Nat /\ DOMAIN file = 1..Len(file) /\ file \in Seq(LogLine)
         /\ keep \in Nat /\ path \in [0..keep -> 0..Len(file)] /\ step \in Nat /\ deaths \in Nat
         /\ \A i \in 0..keep : path[i] \in Nat /\ path[i] <= Len(file)
         /\ \A d \in 1..Len(file) :
               /\ file[d] \in LogLine /\ file[d].texts \in Nat /\ file[d].whole \in Nat
               /\ file[d].kept \in Nat /\ file[d].shown \in Nat
<1>1. file \in Seq(LogLine)
  BY DEF LogTypeOK, LogLine
<1>2. Len(file) \in Nat /\ DOMAIN file = 1..Len(file) /\ \A d \in 1..Len(file) : file[d] \in LogLine
  BY <1>1
<1>3. \A l \in LogLine : l.texts \in Nat /\ l.whole \in Nat /\ l.kept \in Nat /\ l.shown \in Nat
  BY DEF LogLine
<1>4. keep \in Nat /\ path \in [0..keep -> 0..Len(file)] /\ step \in Nat /\ deaths \in Nat
  BY LogConstants DEF LogTypeOK
<1>5. \A i \in 0..keep : path[i] \in Nat /\ path[i] <= Len(file)
  BY <1>2, <1>4
<1>. QED
  BY <1>1, <1>2, <1>3, <1>4, <1>5

\* What a step may do to the files: one is added, one is replaced, all are.
LEMMA FileAdded ==
  ASSUME LogTypeOK, file' = Append(file, NewFile)
  PROVE  /\ file' \in Seq(LogLine) /\ Len(file') = Len(file) + 1
         /\ \A d \in 1..Len(file) : file'[d] = file[d]
         /\ file'[Len(file) + 1] = NewFile
<1>1. NewFile \in LogLine
  BY DEF NewFile, LogLine
<1>2. file \in Seq(LogLine)
  BY LogTypes
<1>. QED
  BY <1>1, <1>2

LEMMA FileReplaced ==
  ASSUME LogTypeOK, NEW c \in 1..Len(file), NEW l \in LogLine, file' = [file EXCEPT ![c] = l]
  PROVE  /\ file' \in Seq(LogLine) /\ Len(file') = Len(file)
         /\ file'[c] = l /\ \A d \in 1..Len(file) : d # c => file'[d] = file[d]
<1>1. file \in [1..Len(file) -> LogLine] /\ Len(file) \in Nat
  BY LogTypes
<1>2. file' \in [1..Len(file) -> LogLine]
  BY <1>1
<1>. QED
  BY <1>1, <1>2, Listed

LEMMA FilesShown ==
  ASSUME LogTypeOK, NEW g, \A d \in 1..Len(file) : g[d] \in Nat,
         file' = [d \in DOMAIN file |-> [file[d] EXCEPT !.shown = g[d]]]
  PROVE  /\ file' \in Seq(LogLine) /\ Len(file') = Len(file)
         /\ \A d \in 1..Len(file) :
               /\ file'[d].shown = g[d] /\ file'[d].kept = file[d].kept
               /\ file'[d].whole = file[d].whole
<1>1. /\ Len(file) \in Nat /\ DOMAIN file = 1..Len(file)
      /\ \A d \in 1..Len(file) : file[d] \in LogLine
  BY LogTypes
<1>2. ASSUME NEW l \in LogLine, NEW n \in Nat
      PROVE  LET m == [l EXCEPT !.shown = n] IN
             m \in LogLine /\ m.shown = n /\ m.kept = l.kept /\ m.whole = l.whole
  BY DEF LogLine
<1>3. \A d \in 1..Len(file) : file'[d] = [file[d] EXCEPT !.shown = g[d]]
  BY <1>1
<1>4. \A d \in 1..Len(file) : file'[d] \in LogLine /\ file'[d].shown = g[d]
                              /\ file'[d].kept = file[d].kept /\ file'[d].whole = file[d].whole
  BY <1>1, <1>2, <1>3
<1>5. file' \in [1..Len(file) -> LogLine]
  <2>1. file' = [d \in 1..Len(file) |-> file'[d]]
    BY <1>1
  <2>. QED
    BY <1>4, <2>1
<1>. QED
  BY <1>1, <1>4, <1>5, Listed

Pieces(n) == [file : 1..n, from : Nat, to : Nat]
Follows(n) == [at : {"off", "screen", "idle", "walk"}, first : 0..n, seen : Nat, next : Nat, live : 0..n,
               upto : Nat, found : Seq(Pieces(n))]

LEMMA FollowsGrow ==
  ASSUME NEW n \in Nat, NEW m \in Nat, n <= m
  PROVE  Follows(n) \subseteq Follows(m)
<1>1. Pieces(n) \subseteq Pieces(m)
  BY DEF Pieces
<1>2. Seq(Pieces(n)) \subseteq Seq(Pieces(m))
  <2>. SUFFICES ASSUME NEW q \in Seq(Pieces(n)) PROVE q \in Seq(Pieces(m))
    OBVIOUS
  <2>1. q \in [1..Len(q) -> Pieces(m)] /\ Len(q) \in Nat
    BY <1>1
  <2>. QED
    BY <2>1
<1>3. 0..n \subseteq 0..m
  OBVIOUS
<1>. QED
  BY <1>2, <1>3 DEF Follows

LEMMA LogInitTyped == LogInit => LogTypeOK
<1>. SUFFICES ASSUME LogInit PROVE LogTypeOK
  OBVIOUS
<1>1. file = << >> /\ Len(file) = 0 /\ file \in Seq([texts : Nat, whole : Nat, kept : Nat, shown : Nat])
  BY DEF LogInit
<1>2. follow \in [at : {"off", "screen", "idle", "walk"}, first : 0..Len(file), seen : Nat,
                   next : Nat, live : 0..Len(file), upto : Nat,
                   found : Seq([file : 1..Len(file), from : Nat, to : Nat])]
  BY <1>1 DEF LogInit, Off
<1>3. /\ keep \in Keeps /\ path \in [0..keep -> 0..Len(file)] /\ fd \in [Writers -> 0..Len(file)]
      /\ wpc \in [Writers -> {"idle", "full", "rotate", "open", "text", "newline"}]
      /\ holder \in Writers \cup {NoWriter} /\ step \in Nat /\ begun \in Nat /\ deaths \in Nat
  BY <1>1, LogConstants DEF LogInit
<1>4. twice \in BOOLEAN /\ torn \in BOOLEAN
  BY DEF LogInit
<1>. QED
  BY <1>1, <1>2, <1>3, <1>4 DEF LogTypeOK

\* The type invariant, by what a step changes: the files and the paths, the writers, the watch.
LEMMA LogTypedByParts ==
  ASSUME LogTypeOK, file' \in Seq(LogLine), Len(file) <= Len(file'), keep' = keep,
         path' \in [0..keep -> 0..Len(file')], fd' \in [Writers -> 0..Len(file')],
         wpc' \in [Writers -> {"idle", "full", "rotate", "open", "text", "newline"}],
         holder' \in Writers \cup {NoWriter}, step' \in Nat, begun' \in Nat, deaths' \in Nat,
         follow' = follow \/ follow' \in Follows(Len(file')),
         twice' \in BOOLEAN, torn' \in BOOLEAN
  PROVE  LogTypeOK'
<1>1. Len(file) \in Nat /\ Len(file') \in Nat
  BY LogTypes
<1>2. follow \in Follows(Len(file)) /\ keep \in Keeps
  BY DEF LogTypeOK, Follows, Pieces
<1>3. follow' \in Follows(Len(file'))
  BY <1>1, <1>2, FollowsGrow
<1>. QED
  BY <1>2, <1>3 DEF LogTypeOK, Follows, Pieces, LogLine

LEMMA LogWriterTyped ==
  ASSUME LogTypeOK, NEW w \in Writers,
         \/ Look(w) \/ Lock(w) \/ RemoveOldest(w) \/ Shift(w) \/ Open(w) \/ Truncate(w)
         \/ Text(w) \/ Newline(w) \/ WriterDies(w)
  PROVE  LogTypeOK'
<1>1. /\ Len(file) \in Nat /\ DOMAIN file = 1..Len(file) /\ file \in Seq(LogLine)
      /\ keep \in Nat /\ path \in [0..keep -> 0..Len(file)] /\ step \in Nat /\ deaths \in Nat
      /\ begun \in Nat /\ twice \in BOOLEAN /\ torn \in BOOLEAN
      /\ wpc \in [Writers -> {"idle", "full", "rotate", "open", "text", "newline"}]
      /\ fd \in [Writers -> 0..Len(file)] /\ holder \in Writers \cup {NoWriter}
  BY LogTypes DEF LogTypeOK
<1>2. \A d \in 1..Len(file) : file[d] \in LogLine
  BY <1>1
<1>3. UNCHANGED <<keep, follow, twice>>
  BY DEF Look, Lock, RemoveOldest, Shift, Open, Truncate, Text, Newline, WriterDies, WatchRests
<1>4. torn' \in BOOLEAN
  BY <1>1 DEF Look, Lock, RemoveOldest, Shift, Moved, Open, Truncate, Text, Newline, WriterDies,
              WatchRests
<1>5. /\ wpc' \in [Writers -> {"idle", "full", "rotate", "open", "text", "newline"}]
      /\ holder' \in Writers \cup {NoWriter} /\ begun' \in Nat
  BY <1>1 DEF Look, Lock, RemoveOldest, Shift, Open, Truncate, Text, Newline, WriterDies, Goto
<1>6. step' \in Nat /\ deaths' \in Nat
  BY <1>1 DEF Look, Lock, RemoveOldest, Shift, Open, Truncate, Text, Newline, WriterDies
<1>7. CASE Look(w) \/ Lock(w) \/ RemoveOldest(w) \/ WriterDies(w)
  <2>1. UNCHANGED file
    BY <1>7 DEF Look, Lock, RemoveOldest, WriterDies
  <2>2. path' \in [0..keep -> 0..Len(file)]
    <3>1. path' = path \/ path' = [path EXCEPT ![keep] = 0]
      BY <1>7 DEF Look, Lock, RemoveOldest, WriterDies, WatchRests
    <3>2. 0 \in 0..Len(file)
      BY <1>1
    <3>. QED
      BY <1>1, <3>1, <3>2
  <2>3. fd' \in [Writers -> 0..Len(file)]
    <3>1. fd' = fd \/ fd' = [fd EXCEPT ![w] = 0]
      BY <1>7 DEF Look, Lock, RemoveOldest, WriterDies
    <3>2. 0 \in 0..Len(file)
      BY <1>1
    <3>. QED
      BY <1>1, <3>1, <3>2
  <2>. QED
    BY <1>1, <1>3, <1>4, <1>5, <1>6, <2>1, <2>2, <2>3, LogTypedByParts
<1>8. CASE Text(w) \/ Newline(w)
  <2>1. UNCHANGED path /\ fd' \in [Writers -> 0..Len(file)]
    BY <1>1, <1>8 DEF Text, Newline
  <2>2. file' \in Seq(LogLine) /\ Len(file') = Len(file)
    <3>1. CASE fd[w] = 0
      <4>1. file \in [1..Len(file) -> LogLine] /\ 0 \notin 1..Len(file)
        BY <1>1
      <4>2. \/ file' = [file EXCEPT ![0] = [file[0] EXCEPT !.texts = @ + 1]]
            \/ file' = [file EXCEPT ![0] = [file[0] EXCEPT !.whole = @ + 1]]
        BY <1>8, <3>1 DEF Text, Newline
      <4>3. file' \in [1..Len(file) -> LogLine]
        BY <4>1, <4>2
      <4>. QED
        BY <1>1, <4>3, Listed
    <3>2. CASE fd[w] # 0
      <4>1. fd[w] \in 1..Len(file)
        BY <1>1, <3>2
      <4>2. \A l \in LogLine : [l EXCEPT !.texts = l.texts + 1] \in LogLine
                              /\ [l EXCEPT !.whole = l.whole + 1] \in LogLine
        BY DEF LogLine
      <4>3. \E l \in LogLine : file' = [file EXCEPT ![fd[w]] = l]
        BY <1>2, <1>8, <4>1, <4>2 DEF Text, Newline
      <4>. QED
        BY <4>1, <4>3, FileReplaced
    <3>. QED
      BY <3>1, <3>2
  <2>. QED
    BY <1>1, <1>3, <1>4, <1>5, <1>6, <2>1, <2>2, LogTypedByParts
<1>9. CASE Open(w) \/ Truncate(w)
  <2>1. CASE UNCHANGED <<path, file>> /\ fd' = [fd EXCEPT ![w] = path[0]]
    BY <1>1, <1>3, <1>4, <1>5, <1>6, <2>1, LogTypedByParts
  <2>2. CASE /\ file' = Append(file, NewFile) /\ path' = [path EXCEPT ![0] = Len(file')]
             /\ \A v \in Writers : fd'[v] \in {fd[v], Len(file')}
             /\ fd' = [v \in Writers |-> fd'[v]]
    <3>1. file' \in Seq(LogLine) /\ Len(file') = Len(file) + 1
      BY <2>2, FileAdded
    <3>2. path' \in [0..keep -> 0..Len(file')] /\ fd' \in [Writers -> 0..Len(file')]
      BY <1>1, <2>2, <3>1
    <3>. QED
      BY <1>1, <1>3, <1>4, <1>5, <1>6, <3>1, <3>2, LogTypedByParts
  <2>. QED
    BY <1>1, <1>9, <2>1, <2>2 DEF Open, Truncate
<1>10. CASE Shift(w)
  <2>1. path' \in [0..keep -> 0..Len(file)] /\ UNCHANGED fd
    <3>1. step \in 0..keep /\ path[step] \in 0..Len(file) /\ 0 \in 0..Len(file)
      BY <1>1, <1>10 DEF Shift
    <3>2. path' = path \/ path' = [path EXCEPT ![step + 1] = path[step], ![step] = 0]
      BY <1>10 DEF Shift, Moved
    <3>3. \A p \in [0..keep -> 0..Len(file)], i \in Int, n \in 0..Len(file) :
             [p EXCEPT ![i] = n] \in [0..keep -> 0..Len(file)]
      OBVIOUS
    <3>. QED
      BY <1>1, <1>10, <3>1, <3>2, <3>3 DEF Shift
  <2>2. file' \in Seq(LogLine) /\ Len(file') = Len(file)
    <3>1. CASE file' = file
      BY <1>1, <3>1
    <3>2. CASE file' = [file EXCEPT ![path[0]].kept = file[path[0]].whole] /\ path[0] # 0
      <4>1. path[0] \in 1..Len(file)
        BY <1>1, <3>2
      <4>2. \A l \in LogLine : [l EXCEPT !.kept = l.whole] \in LogLine
        BY DEF LogLine
      <4>3. \E l \in LogLine : file' = [file EXCEPT ![path[0]] = l]
        BY <1>2, <3>2, <4>1, <4>2
      <4>. QED
        BY <4>1, <4>3, FileReplaced
    <3>. QED
      BY <1>10, <3>1, <3>2 DEF Shift, Moved
  <2>. QED
    BY <1>1, <1>3, <1>4, <1>5, <1>6, <2>1, <2>2, LogTypedByParts
<1>. QED
  BY <1>7, <1>8, <1>9, <1>10

\* Older files are further up, and what is gone was older than what is left.
FilesInOrder ==
  /\ \A i, j \in 0..keep : i < j /\ path[i] # 0 /\ path[j] # 0 => path[i] > path[j]
  /\ \A d \in Gone, i \in 0..keep : path[i] # 0 => d < path[i]
  /\ path[0] # 0 => path[0] = Len(file)
  /\ \A d \in 1..Len(file) : file[d].kept <= file[d].whole

\* History has no gap but the place that the rotation under way has freed.
NoGap ==
  deaths = 0 => \A i, j \in 1..keep : i < j /\ path[j] # 0 /\ ~(Rotating /\ i = step + 1)
                                      => path[i] # 0

\* What is older than the file the watch has read, and what is gone, is shown; what is
\* younger is not; and of that file the watch knows how much.
KnowsItsFile ==
  /\ \A d \in 1..Len(file) : d \in Gone \/ d < follow.first => file[d].shown >= file[d].kept
  /\ \A d \in 1..Len(file) \ Gone : d > follow.first => file[d].shown = 0
  /\ IF follow.first = 0 THEN follow.seen = 0
     ELSE /\ file[follow.first].shown = follow.seen
          /\ follow.seen <= file[follow.first].whole /\ file[follow.first].whole > 0

\* From sibling to sibling the watch has found those it passed, each of them younger than
\* its file and with the lines it was rotated with, and it will not stop short of an older
\* one. The first screen has no file yet, and may not have found a live one.
KnowsItsWay ==
  /\ follow.at = "screen" => follow.first = 0
  /\ IF follow.live = 0 THEN follow.first = 0 /\ follow.upto = 0
     ELSE /\ follow.live = path[0] /\ follow.first < follow.live
          /\ follow.upto <= file[follow.live].whole
  /\ follow.next \in 1..(keep + 1) /\ Len(follow.found) = follow.next - 1
  /\ \A i, j \in 1..keep : i < j /\ path[j] # 0 => path[i] # 0
  /\ follow.at = "walk" /\ follow.first = 0 => \A i, j \in 1..keep :
       i < j /\ path[j] # 0 /\ file[path[i]].whole = 0 => file[path[j]].shown >= file[path[j]].kept
  /\ \A i \in 1..(follow.next - 1) :
       /\ path[i] > follow.first
       /\ LET piece == follow.found[follow.next - i] IN
          /\ piece.file = path[i] /\ piece.from = 0
          /\ file[path[i]].kept <= piece.to /\ piece.to <= file[path[i]].whole

KnowsNothing == follow.first = 0 /\ \A d \in 1..Len(file) : file[d].shown = 0

WatchInv == torn \/ /\ ~twice
                    /\ follow.at = "off" => KnowsNothing
                    /\ follow.at # "off" => KnowsItsFile
                    /\ follow.at \in {"screen", "walk"} => KnowsItsWay

LEMMA FollowTypes ==
  ASSUME LogTypeOK
  PROVE  /\ follow \in Follows(Len(file)) /\ follow.at \in {"off", "screen", "idle", "walk"}
         /\ follow.first \in Nat /\ follow.first <= Len(file) /\ follow.seen \in Nat
         /\ follow.next \in Nat /\ follow.live \in Nat /\ follow.live <= Len(file)
         /\ follow.upto \in Nat /\ follow.found \in Seq(Pieces(Len(file)))
<1>1. follow \in Follows(Len(file)) /\ Len(file) \in Nat
  BY LogTypes DEF LogTypeOK, Follows, Pieces
<1>. QED
  BY <1>1 DEF Follows

LEMMA PathsStay ==
  ASSUME LogTypeOK, FilesInOrder, NoGap, UNCHANGED <<keep, path>>, Len(file') = Len(file),
         \A d \in 1..Len(file) : file'[d].kept <= file'[d].whole,
         \/ deaths' > 0
         \/ deaths' = deaths /\ (~Rotating \/ UNCHANGED <<holder, step>>)
  PROVE  FilesInOrder' /\ NoGap'
<1>1. Gone' = Gone
  BY DEF Gone
<1>2. FilesInOrder'
  BY <1>1 DEF FilesInOrder
<1>3. NoGap'
  BY DEF NoGap, Rotating
<1>. QED
  BY <1>2, <1>3

\* Lines that are written do not disturb the watch.
LEMMA WatchStays ==
  ASSUME LogTypeOK, WatchInv, UNCHANGED <<keep, path, follow, twice, torn>>,
         Len(file') = Len(file),
         \A d \in 1..Len(file) : /\ file'[d].shown = file[d].shown /\ file'[d].kept = file[d].kept
                                 /\ file'[d].whole \in Nat /\ file'[d].whole >= file[d].whole
  PROVE  WatchInv'
<1>1. /\ Len(file) \in Nat /\ keep \in Nat
      /\ \A i \in 0..keep : path[i] \in Nat /\ path[i] <= Len(file)
      /\ \A d \in 1..Len(file) : file[d].whole \in Nat /\ file[d].kept \in Nat
  BY LogTypes
<1>2. /\ follow.first \in Nat /\ follow.first <= Len(file) /\ follow.seen \in Nat
      /\ follow.live \in Nat /\ follow.live <= Len(file) /\ follow.upto \in Nat
      /\ follow.next \in Nat /\ follow.found \in Seq(Pieces(Len(file)))
  BY FollowTypes
<1>3. Gone' = Gone
  BY DEF Gone
<1>4. KnowsItsFile => KnowsItsFile'
  <2>. SUFFICES ASSUME KnowsItsFile PROVE KnowsItsFile'
    OBVIOUS
  <2>1. \A d \in 1..Len(file) :
           d \in Gone \/ d < follow.first => file'[d].shown >= file'[d].kept
    BY DEF KnowsItsFile
  <2>2. \A d \in 1..Len(file) \ Gone : d > follow.first => file'[d].shown = 0
    BY DEF KnowsItsFile
  <2>3. CASE follow.first = 0
    BY <1>3, <2>1, <2>2, <2>3 DEF KnowsItsFile
  <2>4. CASE follow.first # 0
    <3>1. follow.first \in 1..Len(file)
      BY <1>1, <1>2, <2>4
    <3>2. /\ file'[follow.first].shown = follow.seen
          /\ follow.seen <= file'[follow.first].whole /\ file'[follow.first].whole > 0
      BY <1>1, <1>2, <2>4, <3>1 DEF KnowsItsFile
    <3>. QED
      BY <1>3, <2>1, <2>2, <2>4, <3>2 DEF KnowsItsFile
  <2>. QED
    BY <2>3, <2>4
<1>5. KnowsItsWay => KnowsItsWay'
  <2>. SUFFICES ASSUME KnowsItsWay PROVE KnowsItsWay'
    OBVIOUS
  <2>1. follow.live # 0 => follow.upto <= file'[follow.live].whole
    BY <1>1, <1>2 DEF KnowsItsWay
  <2>2. ASSUME follow.at = "walk", follow.first = 0, NEW i \in 1..keep, NEW j \in 1..keep, i < j, path[j] # 0,
               file'[path[i]].whole = 0
        PROVE  file'[path[j]].shown >= file'[path[j]].kept
    <3>1. path[i] # 0 /\ path[i] \in 1..Len(file) /\ path[j] \in 1..Len(file)
      BY <1>1, <2>2 DEF KnowsItsWay
    <3>2. file[path[i]].whole = 0
      BY <1>1, <2>2, <3>1
    <3>. QED
      BY <2>2, <3>1, <3>2 DEF KnowsItsWay
  <2>3. ASSUME NEW i \in 1..(follow.next - 1)
        PROVE  /\ file'[path[i]].kept = file[path[i]].kept
               /\ follow.found[follow.next - i].to <= file'[path[i]].whole
    <3>1. i \in 1..keep
      BY <1>1, <1>2 DEF KnowsItsWay
    <3>2. path[i] \in 1..Len(file) /\ follow.found[follow.next - i].to <= file[path[i]].whole
      <4>1. /\ path[i] > follow.first
            /\ follow.found[follow.next - i].to <= file[path[i]].whole
        BY <2>3 DEF KnowsItsWay
      <4>2. path[i] \in 0..Len(file) /\ follow.first \in Nat
        BY <1>1, <1>2, <3>1
      <4>. QED
        BY <1>1, <1>2, <4>1, <4>2
    <3>3. follow.found[follow.next - i].to \in Nat
      <4>1. follow.next - i \in 1..Len(follow.found)
        BY <1>1, <1>2 DEF KnowsItsWay
      <4>2. follow.found[follow.next - i] \in Pieces(Len(file))
        BY <1>2, <4>1
      <4>. QED
        BY <4>2 DEF Pieces
    <3>. QED
      BY <1>1, <3>2, <3>3
  <2>. QED
    BY <2>1, <2>2, <2>3 DEF KnowsItsWay
<1>6. KnowsNothing => KnowsNothing'
  BY DEF KnowsNothing
<1>. QED
  BY <1>4, <1>5, <1>6 DEF WatchInv

\* Writers that leave the paths alone.
LEMMA QuietWriters ==
  ASSUME LogTypeOK, FilesInOrder, NoGap, WatchInv, NEW w \in Writers,
         Look(w) \/ Lock(w) \/ WriterDies(w) \/ Text(w) \/ Newline(w)
  PROVE  FilesInOrder' /\ NoGap' /\ WatchInv'
<1>1. /\ Len(file) \in Nat /\ DOMAIN file = 1..Len(file) /\ deaths \in Nat
      /\ fd[w] \in 0..Len(file)
      /\ \A d \in 1..Len(file) : file[d] \in LogLine /\ file[d].whole \in Nat /\ file[d].kept \in Nat
  BY LogTypes DEF LogTypeOK
<1>2. UNCHANGED <<keep, path, follow, twice, torn>>
  BY DEF Look, Lock, WriterDies, Text, Newline, WatchRests
<1>3. /\ Len(file') = Len(file)
      /\ \A d \in 1..Len(file) :
            /\ file'[d].shown = file[d].shown /\ file'[d].kept = file[d].kept
            /\ file'[d].whole \in Nat /\ file'[d].whole >= file[d].whole
  <2>1. CASE file' = file
    BY <1>1, <2>1
  <2>2. CASE Text(w) \/ Newline(w)
    <3>1. \/ file' = [file EXCEPT ![fd[w]] = [file[fd[w]] EXCEPT !.texts = @ + 1]]
          \/ file' = [file EXCEPT ![fd[w]] = [file[fd[w]] EXCEPT !.whole = @ + 1]]
      BY <2>2 DEF Text, Newline
    <3>2. CASE fd[w] = 0
      <4>1. file \in [1..Len(file) -> LogLine] /\ 0 \notin 1..Len(file)
        BY <1>1, LogTypes
      <4>2. file' \in [1..Len(file) -> LogLine] /\ \A d \in 1..Len(file) : file'[d] = file[d]
        BY <3>1, <3>2, <4>1
      <4>. QED
        BY <1>1, <4>2, Listed
    <3>3. CASE fd[w] # 0
      <4>1. fd[w] \in 1..Len(file)
        BY <1>1, <3>3
      <4>2. ASSUME NEW l \in LogLine, NEW m, m \in {[l EXCEPT !.texts = @ + 1], [l EXCEPT !.whole = @ + 1]}
            PROVE  /\ m \in LogLine /\ m.shown = l.shown /\ m.kept = l.kept
                   /\ m.whole \in Nat /\ m.whole >= l.whole
        BY <4>2 DEF LogLine
      <4>3. PICK m \in {[file[fd[w]] EXCEPT !.texts = @ + 1], [file[fd[w]] EXCEPT !.whole = @ + 1]} :
                 file' = [file EXCEPT ![fd[w]] = m]
        BY <3>1
      <4>4. /\ m \in LogLine /\ m.shown = file[fd[w]].shown /\ m.kept = file[fd[w]].kept
            /\ m.whole \in Nat /\ m.whole >= file[fd[w]].whole
        BY <1>1, <4>1, <4>2, <4>3
      <4>5. /\ Len(file') = Len(file) /\ file'[fd[w]] = m
            /\ \A d \in 1..Len(file) : d # fd[w] => file'[d] = file[d]
        BY <4>1, <4>3, <4>4, FileReplaced
      <4>. QED
        BY <1>1, <4>4, <4>5
    <3>. QED
      BY <3>2, <3>3
  <2>. QED
    BY <2>1, <2>2 DEF Look, Lock, WriterDies
<1>4. \/ deaths' > 0
      \/ deaths' = deaths /\ (~Rotating \/ UNCHANGED <<holder, step>>)
  BY <1>1 DEF Look, Lock, WriterDies, Text, Newline, Rotating
<1>5. \A d \in 1..Len(file) : file'[d].kept <= file'[d].whole
  BY <1>1, <1>3 DEF FilesInOrder
<1>. QED
  BY <1>2, <1>3, <1>4, <1>5, PathsStay, WatchStays

\* A new file is the youngest, and the watch has not seen it.
LEMMA OpenShows ==
  ASSUME LogTypeOK, LogInv, FilesInOrder, NoGap, WatchInv, NEW w \in Writers, Open(w)
  PROVE  FilesInOrder' /\ NoGap' /\ WatchInv'
<1>1. /\ Len(file) \in Nat /\ keep \in Nat /\ path \in [0..keep -> 0..Len(file)]
      /\ \A i \in 0..keep : path[i] \in Nat /\ path[i] <= Len(file)
      /\ \A d \in 1..Len(file) : file[d].whole \in Nat /\ file[d].kept \in Nat /\ file[d].shown \in Nat
  BY LogTypes
<1>2. UNCHANGED <<keep, holder, step, deaths, follow, twice, torn>>
  BY DEF Open, WatchRests
<1>3. CASE UNCHANGED <<path, file>>
  <2>1. \A d \in 1..Len(file) : file'[d].kept <= file'[d].whole
    BY <1>3 DEF FilesInOrder
  <2>2. FilesInOrder' /\ NoGap'
    BY <1>2, <1>3, <2>1, PathsStay
  <2>3. WatchInv'
    BY <1>1, <1>2, <1>3, WatchStays
  <2>. QED
    BY <2>2, <2>3
<1>4. CASE path[0] = 0 /\ file' = Append(file, NewFile) /\ path' = [path EXCEPT ![0] = Len(file')]
  <2>1. /\ Len(file') = Len(file) + 1 /\ \A d \in 1..Len(file) : file'[d] = file[d]
        /\ file'[Len(file) + 1] = NewFile
        /\ path'[0] = Len(file) + 1 /\ \A i \in 0..keep : i # 0 => path'[i] = path[i]
    BY <1>1, <1>4, FileAdded
  <2>2. Gone' = Gone
    <3>1. \A d \in 1..Len(file') : d \in 1..Len(file) \/ d = path'[0]
      <4>1. Len(file) \in Nat /\ Len(file') = Len(file) + 1 /\ path'[0] = Len(file) + 1
        BY <1>1, <2>1
      <4>. QED
        BY <4>1
    <3>2. \A d \in 1..Len(file), i \in 0..keep : path'[i] = d <=> path[i] = d
      BY <1>1, <1>4, <2>1
    <3>3. 0 \in 0..keep
      BY <1>1
    <3>4. \A d : d \in Gone' <=> d \in 1..Len(file') /\ \A i \in 0..keep : path'[i] # d
      BY <1>2 DEF Gone
    <3>5. \A d : d \in Gone <=> d \in 1..Len(file) /\ \A i \in 0..keep : path[i] # d
      BY DEF Gone
    <3>6. 1..Len(file) \subseteq 1..Len(file')
      BY <1>1, <2>1
    <3>7. ASSUME NEW d, d \in Gone' PROVE d \in Gone
      <4>1. d \in 1..Len(file') /\ \A i \in 0..keep : path'[i] # d
        BY <3>4, <3>7
      <4>2. d \in 1..Len(file)
        BY <3>1, <3>3, <4>1
      <4>. QED
        BY <3>2, <3>5, <4>1, <4>2
    <3>8. ASSUME NEW d, d \in Gone PROVE d \in Gone'
      BY <3>2, <3>4, <3>5, <3>6, <3>8
    <3>. QED
      BY <3>7, <3>8
  <2>3. FilesInOrder'
    <3>1. NewFile.kept <= NewFile.whole
      BY DEF NewFile
    <3>2. \A d \in 1..Len(file') : file'[d].kept <= file'[d].whole
      BY <1>1, <2>1, <3>1 DEF FilesInOrder
    <3>3. \A i, j \in 0..keep : i < j /\ path'[i] # 0 /\ path'[j] # 0 => path'[i] > path'[j]
      BY <1>1, <2>1 DEF FilesInOrder
    <3>4. \A d \in Gone, i \in 0..keep : path'[i] # 0 => d < path'[i]
      BY <1>1, <2>1 DEF FilesInOrder, Gone
    <3>. QED
      BY <1>2, <2>1, <2>2, <3>2, <3>3, <3>4 DEF FilesInOrder
  <2>4. NoGap'
    BY <1>1, <1>2, <2>1 DEF NoGap, Rotating
  <2>5. KnowsItsFile => KnowsItsFile'
    <3>1. follow.first \in Nat /\ follow.first <= Len(file)
      BY FollowTypes
    <3>2. NewFile.shown = 0
      BY DEF NewFile
    <3>3. \A d \in 1..Len(file') : d \in 1..Len(file) \/ (d = Len(file) + 1 /\ d \notin Gone)
      BY <1>1, <2>1 DEF Gone
    <3>4. follow.first # 0 => follow.first \in 1..Len(file)
      BY <1>1, <3>1
    <3>. SUFFICES ASSUME KnowsItsFile PROVE KnowsItsFile'
      OBVIOUS
    <3>5. \A d \in 1..Len(file') :
             d \in Gone \/ d < follow.first => file'[d].shown >= file'[d].kept
      <4>1. Gone \subseteq 1..Len(file)
        BY DEF Gone
      <4>2. ~(Len(file) + 1 < follow.first) /\ Len(file) + 1 \notin Gone
        BY <1>1, <3>1, <4>1
      <4>. QED
        BY <2>1, <3>3, <4>2 DEF KnowsItsFile
    <3>6. \A d \in 1..Len(file') \ Gone : d > follow.first => file'[d].shown = 0
      BY <2>1, <3>2, <3>3 DEF KnowsItsFile
    <3>7. follow.first # 0 => /\ file'[follow.first].shown = follow.seen
                              /\ follow.seen <= file'[follow.first].whole
                              /\ file'[follow.first].whole > 0
      BY <2>1, <3>4 DEF KnowsItsFile
    <3>8. follow.first = 0 => follow.seen = 0
      BY DEF KnowsItsFile
    <3>. QED
      BY <1>2, <2>2, <3>5, <3>6, <3>7, <3>8 DEF KnowsItsFile
  <2>6. KnowsItsWay => KnowsItsWay'
    <3>. SUFFICES ASSUME KnowsItsWay PROVE KnowsItsWay'
      OBVIOUS
    <3>1. follow.first \in Nat /\ follow.next \in Nat
      BY FollowTypes
    <3>2. follow.live = 0 /\ follow.first = 0 /\ follow.upto = 0
      BY <1>4, <3>1 DEF KnowsItsWay
    <3>3. \A i \in 1..keep : path'[i] = path[i] /\ (path[i] # 0 => file'[path[i]] = file[path[i]])
      BY <1>1, <2>1
    <3>4. ASSUME NEW i \in 1..(follow.next - 1) PROVE i \in 1..keep /\ path[i] # 0
      BY <1>1, <3>1, <3>2 DEF KnowsItsWay
    <3>5. ASSUME follow.at = "walk", NEW i \in 1..keep, NEW j \in 1..keep, i < j, path[j] # 0,
                 file'[path[i]].whole = 0
          PROVE  file'[path[j]].shown >= file'[path[j]].kept
      <4>1. path[i] # 0
        BY <3>5 DEF KnowsItsWay
      <4>. QED
        BY <3>2, <3>3, <3>5, <4>1 DEF KnowsItsWay
    <3>6. \A i, j \in 1..keep : i < j /\ path'[j] # 0 => path'[i] # 0
      BY <3>3 DEF KnowsItsWay
    <3>7. ASSUME follow.at = "walk", NEW i \in 1..keep, NEW j \in 1..keep, i < j, path'[j] # 0,
                 file'[path'[i]].whole = 0
          PROVE  file'[path'[j]].shown >= file'[path'[j]].kept
      BY <3>3, <3>5, <3>7
    <3>8. ASSUME NEW i \in 1..(follow.next - 1)
          PROVE  /\ path'[i] > follow.first
                 /\ LET piece == follow.found[follow.next - i] IN
                    /\ piece.file = path'[i] /\ piece.from = 0
                    /\ file'[path'[i]].kept <= piece.to /\ piece.to <= file'[path'[i]].whole
      BY <3>3, <3>4 DEF KnowsItsWay
    <3>9. /\ follow.next \in 1..(keep + 1) /\ Len(follow.found) = follow.next - 1
      BY DEF KnowsItsWay
    <3>. QED
      BY <1>2, <3>2, <3>6, <3>7, <3>8, <3>9 DEF KnowsItsWay
  <2>7. KnowsNothing => KnowsNothing'
    <3>1. NewFile.shown = 0
      BY DEF NewFile
    <3>2. \A d \in 1..Len(file') : d \in 1..Len(file) \/ d = Len(file) + 1
      BY <1>1, <2>1
    <3>. QED
      BY <1>2, <2>1, <3>1, <3>2 DEF KnowsNothing
  <2>. QED
    BY <1>2, <2>3, <2>4, <2>5, <2>6, <2>7 DEF WatchInv
<1>. QED
  BY <1>3, <1>4 DEF Open

LEMMA TruncateShows ==
  ASSUME LogTypeOK, FilesInOrder, NEW w \in Writers, Truncate(w)
  PROVE  FilesInOrder' /\ NoGap' /\ WatchInv'
<1>1. /\ Len(file) \in Nat /\ path \in [0..keep -> 0..Len(file)]
      /\ \A d \in 1..Len(file) : file[d].whole \in Nat /\ file[d].kept \in Nat
  BY LogTypes
<1>2. /\ keep = 0 /\ keep' = 0 /\ torn' /\ file' = Append(file, NewFile)
      /\ path' = [path EXCEPT ![0] = Len(file')]
  BY DEF Truncate
<1>3. /\ Len(file') = Len(file) + 1 /\ \A d \in 1..Len(file) : file'[d] = file[d]
      /\ file'[Len(file) + 1] = NewFile /\ path'[0] = Len(file')
  BY <1>1, <1>2, FileAdded
<1>4. NewFile.kept <= NewFile.whole
  BY DEF NewFile
<1>5. FilesInOrder'
  <2>1. \A d \in Gone' : d < path'[0]
    BY <1>1, <1>2, <1>3 DEF Gone
  <2>2. \A d \in 1..Len(file') : file'[d].kept <= file'[d].whole
    BY <1>1, <1>3, <1>4 DEF FilesInOrder
  <2>3. \A i \in 0..keep' : i = 0
    BY <1>2
  <2>. QED
    BY <1>3, <2>1, <2>2, <2>3 DEF FilesInOrder
<1>. QED
  BY <1>2, <1>5 DEF NoGap, WatchInv

\* The file that goes is the oldest, and a watch that has not shown all of it is torn.
LEMMA RemoveOldestShows ==
  ASSUME LogTypeOK, LogInv, FilesInOrder, NoGap, WatchInv, NEW w \in Writers, RemoveOldest(w)
  PROVE  FilesInOrder' /\ NoGap' /\ WatchInv'
<1>1. /\ Len(file) \in Nat /\ keep \in Nat /\ path \in [0..keep -> 0..Len(file)]
      /\ \A i \in 0..keep : path[i] \in Nat /\ path[i] <= Len(file)
  BY LogTypes
<1>2. /\ keep > 0 /\ step = keep /\ path' = [path EXCEPT ![keep] = 0] /\ step' = keep - 1
      /\ torn' = (torn \/ Tears(path[keep]))
      /\ UNCHANGED <<keep, file, holder, deaths, follow, twice>>
  BY DEF RemoveOldest
<1>3. Rotating
  BY LogConstants DEF RemoveOldest, LogInv, LogTypeInv, Rotating
<1>4. \A i \in 0..keep : path'[i] = IF i = keep THEN 0 ELSE path[i]
  BY <1>1, <1>2
<1>5. \A d \in Gone' : d \in Gone \/ d = path[keep]
  BY <1>2, <1>4 DEF Gone
<1>6. Gone \subseteq Gone' /\ Gone' \subseteq 1..Len(file)
  BY <1>2, <1>4 DEF Gone
<1>7. FilesInOrder'
  <2>1. \A i, j \in 0..keep : i < j /\ path'[i] # 0 /\ path'[j] # 0 => path'[i] > path'[j]
    BY <1>4 DEF FilesInOrder
  <2>2. ASSUME NEW d \in Gone', NEW i \in 0..keep, path'[i] # 0 PROVE d < path'[i]
    <3>1. i < keep /\ path'[i] = path[i] /\ keep \in 0..keep
      BY <1>1, <1>4, <2>2
    <3>2. CASE d \in Gone
      BY <2>2, <3>1, <3>2 DEF FilesInOrder
    <3>3. CASE d = path[keep]
      <4>1. path[keep] # 0
        BY <1>1, <1>6, <3>3
      <4>. QED
        BY <1>1, <2>2, <3>1, <3>3, <4>1 DEF FilesInOrder
    <3>. QED
      BY <1>5, <3>2, <3>3
  <2>3. 0 \in 0..keep /\ path'[0] = path[0]
    BY <1>1, <1>2, <1>4
  <2>. QED
    BY <1>2, <2>1, <2>2, <2>3 DEF FilesInOrder
<1>8. NoGap'
  <2>. SUFFICES ASSUME deaths = 0, NEW i \in 1..keep, NEW j \in 1..keep, i < j, path'[j] # 0,
                       i # keep
                PROVE  path'[i] # 0
    BY <1>1, <1>2, <1>3 DEF NoGap, Rotating
  <2>1. path[j] # 0 /\ path'[i] = path[i] /\ i # keep + 1
    BY <1>1, <1>4
  <2>. QED
    BY <1>2, <2>1 DEF NoGap
<1>9. ASSUME ~torn' PROVE WatchInv'
  <2>1. ~torn /\ ~Tears(path[keep])
    BY <1>2, <1>9
  <2>2. follow.at \notin {"screen", "walk"}
    BY <2>1 DEF Tears
  <2>3. ASSUME KnowsItsFile, follow.at # "off" PROVE KnowsItsFile'
    <3>1. \A d \in 1..Len(file) : d \in Gone' \/ d < follow.first => file[d].shown >= file[d].kept
      <4>1. path[keep] # 0 => file[path[keep]].shown >= file[path[keep]].kept
        <5>1. path[keep] # 0 => ~(file[path[keep]].shown < file[path[keep]].kept)
          BY <2>1, <2>3 DEF Tears
        <5>. QED
          BY <1>1, <5>1, LogTypes
      <4>. QED
        BY <1>5, <2>3, <4>1 DEF KnowsItsFile
    <3>2. \A d \in 1..Len(file) \ Gone' : d > follow.first => file[d].shown = 0
      BY <1>6, <2>3 DEF KnowsItsFile
    <3>. QED
      BY <1>2, <2>3, <3>1, <3>2 DEF KnowsItsFile
  <2>4. KnowsNothing => KnowsNothing'
    BY <1>2 DEF KnowsNothing
  <2>. QED
    BY <1>2, <2>1, <2>2, <2>3, <2>4 DEF WatchInv
<1>. QED
  BY <1>7, <1>8, <1>9 DEF WatchInv

\* A file that moves up stays in order; the live one has its lines counted when it goes.
LEMMA ShiftShows ==
  ASSUME LogTypeOK, LogInv, FilesInOrder, NoGap, WatchInv, NEW w \in Writers, Shift(w)
  PROVE  FilesInOrder' /\ NoGap' /\ WatchInv'
<1>1. /\ Len(file) \in Nat /\ keep \in Nat /\ path \in [0..keep -> 0..Len(file)] /\ step \in Nat
      /\ \A i \in 0..keep : path[i] \in Nat /\ path[i] <= Len(file)
      /\ \A d \in 1..Len(file) : /\ file[d] \in LogLine /\ file[d].whole \in Nat
                                 /\ file[d].kept \in Nat /\ file[d].shown \in Nat
  BY LogTypes
<1>2. /\ keep > 0 /\ step < keep /\ Moved /\ torn' = (torn \/ Tears(0))
      /\ UNCHANGED <<keep, deaths, follow, twice>>
      /\ \/ step > 0 /\ step' = step - 1 /\ UNCHANGED holder
         \/ ~(step > 0) /\ step' = 0 /\ holder' = NoWriter
  BY DEF Shift, Moved
<1>3. Rotating /\ path[0] # 0 /\ path[step + 1] = 0
  <2>1. Rotating
    BY LogConstants DEF Shift, LogInv, LogTypeInv, Rotating
  <2>. QED
    BY <1>2, <2>1 DEF LogInv, RotationIsDue
<1>4. \A i \in 0..keep : path'[i] = IF i = step + 1 THEN path[step]
                                    ELSE IF i = step THEN 0 ELSE path[i]
  <2>1. step \in 0..keep /\ step + 1 \in 0..keep
    BY <1>1, <1>2
  <2>2. CASE path[step] = 0
    BY <1>2, <1>3, <2>1, <2>2 DEF Moved
  <2>3. CASE path[step] # 0
    BY <1>1, <1>2, <2>1, <2>3 DEF Moved
  <2>. QED
    BY <2>2, <2>3
<1>5. /\ Len(file') = Len(file)
      /\ \A d \in 1..Len(file) :
            /\ file'[d].shown = file[d].shown /\ file'[d].whole = file[d].whole
            /\ file'[d].kept = IF step = 0 /\ d = path[0] THEN file[d].whole ELSE file[d].kept
  <2>1. CASE step = 0
    <3>1. file' = [file EXCEPT ![path[0]] = [file[path[0]] EXCEPT !.kept = file[path[0]].whole]]
      BY <1>2, <1>3, <2>1 DEF Moved
    <3>2. path[0] \in 1..Len(file)
      BY <1>1, <1>3
    <3>3. ASSUME NEW l \in LogLine
          PROVE  LET m == [l EXCEPT !.kept = l.whole] IN
                 m \in LogLine /\ m.shown = l.shown /\ m.whole = l.whole /\ m.kept = l.whole
      BY DEF LogLine
    <3> DEFINE m == [file[path[0]] EXCEPT !.kept = file[path[0]].whole]
    <3>4. /\ m \in LogLine /\ m.shown = file[path[0]].shown /\ m.whole = file[path[0]].whole
          /\ m.kept = file[path[0]].whole
      BY <1>1, <3>2, <3>3
    <3>. HIDE DEF m
    <3>5. file' = [file EXCEPT ![path[0]] = m]
      BY <3>1 DEF m
    <3>6. /\ Len(file') = Len(file) /\ file'[path[0]] = m
          /\ \A d \in 1..Len(file) : d # path[0] => file'[d] = file[d]
      BY <3>2, <3>4, <3>5, FileReplaced
    <3>. QED
      BY <2>1, <3>4, <3>6
  <2>2. CASE step # 0
    BY <1>2, <2>2 DEF Moved
  <2>. QED
    BY <2>1, <2>2
<1>6. Gone' = Gone
  <2>1. step \in 0..keep /\ step + 1 \in 0..keep /\ step # step + 1
    BY <1>1, <1>2
  <2>2. ASSUME NEW d \in 1..Len(file)
        PROVE  (\E i \in 0..keep : path'[i] = d) <=> (\E i \in 0..keep : path[i] = d)
    <3>1. d # 0
      OBVIOUS
    <3>2. ASSUME NEW i \in 0..keep, path[i] = d PROVE \E j \in 0..keep : path'[j] = d
      BY <1>3, <1>4, <2>1, <3>1, <3>2
    <3>3. ASSUME NEW i \in 0..keep, path'[i] = d PROVE \E j \in 0..keep : path[j] = d
      BY <1>4, <2>1, <3>1, <3>3
    <3>. QED
      BY <3>2, <3>3
  <2>. QED
    BY <1>2, <1>5, <2>2 DEF Gone
<1>7. FilesInOrder'
  <2>1. ASSUME NEW i \in 0..keep, NEW j \in 0..keep, i < j, path'[i] # 0, path'[j] # 0
        PROVE  path'[i] > path'[j]
    <3>1. i # step /\ j # step
      BY <1>4, <2>1
    <3> DEFINE a == IF i = step + 1 THEN step ELSE i
               b == IF j = step + 1 THEN step ELSE j
    <3>2. a \in 0..keep /\ b \in 0..keep /\ a < b
      BY <1>1, <1>2, <2>1, <3>1
    <3>3. path'[i] = path[a] /\ path'[j] = path[b]
      BY <1>4, <3>1
    <3>. HIDE DEF a, b
    <3>. QED
      BY <2>1, <3>2, <3>3 DEF FilesInOrder
  <2>2. ASSUME NEW d \in Gone, NEW i \in 0..keep, path'[i] # 0 PROVE d < path'[i]
    <3>1. \E j \in 0..keep : path'[i] = path[j]
      BY <1>1, <1>2, <1>4, <2>2
    <3>. QED
      BY <2>2, <3>1 DEF FilesInOrder
  <2>3. path'[0] # 0 => path'[0] = Len(file)
    <3>1. 0 \in 0..keep /\ 0 # step + 1
      BY <1>1
    <3>2. path'[0] \in {0, path[0]}
      BY <1>4, <3>1
    <3>. QED
      BY <3>2 DEF FilesInOrder
  <2>4. ASSUME NEW d \in 1..Len(file) PROVE file'[d].kept <= file'[d].whole
    <3>1. CASE step = 0 /\ d = path[0]
      <4>1. file'[d].kept = file[d].whole /\ file'[d].whole = file[d].whole
        BY <1>5, <3>1
      <4>. QED
        BY <1>1, <4>1
    <3>2. CASE ~(step = 0 /\ d = path[0])
      BY <1>5, <3>2 DEF FilesInOrder
    <3>. QED
      BY <3>1, <3>2
  <2>. QED
    BY <1>2, <1>5, <1>6, <2>1, <2>2, <2>3, <2>4 DEF FilesInOrder
<1>8. NoGap'
  <2>. SUFFICES ASSUME deaths = 0, NEW i \in 1..keep, NEW j \in 1..keep, i < j, path'[j] # 0,
                       ~(Rotating' /\ i = step' + 1)
                PROVE  path'[i] # 0
    BY <1>2 DEF NoGap
  <2>1. i # step
    <3>1. CASE step > 0
      BY <1>1, <1>2, <1>3, <3>1 DEF Rotating
    <3>2. CASE ~(step > 0)
      BY <1>1, <3>2
    <3>. QED
      BY <3>1, <3>2
  <2>2. j # step
    BY <1>4
  <2>3. CASE i = step + 1
    <3>1. path'[i] = path[step] /\ path[j] # 0 /\ step < j
      <4>1. step < j /\ j # step + 1
        BY <1>1, <2>2, <2>3
      <4>2. path'[i] = path[step]
        BY <1>4, <2>3
      <4>3. path'[j] = path[j]
        BY <1>4, <2>2, <4>1
      <4>. QED
        BY <4>1, <4>2, <4>3
    <3>2. CASE step = 0
      BY <1>3, <3>1, <3>2
    <3>3. CASE step # 0
      <4>1. step \in 1..keep /\ step # step + 1
        BY <1>1, <1>2, <3>3
      <4>. QED
        BY <3>1, <4>1 DEF NoGap
    <3>. QED
      BY <3>2, <3>3
  <2>4. CASE i # step + 1
    <3>1. path'[i] = path[i]
      BY <1>4, <2>1, <2>4
    <3>2. CASE j = step + 1
      <4>1. path[step] # 0 /\ i < step /\ step \in 1..keep
        BY <1>1, <1>2, <1>4, <2>1, <3>2
      <4>. QED
        BY <2>4, <3>1, <4>1 DEF NoGap
    <3>3. CASE j # step + 1
      <4>1. path[j] # 0
        BY <1>4, <2>2, <3>3
      <4>. QED
        BY <2>4, <3>1, <4>1 DEF NoGap
    <3>. QED
      BY <3>2, <3>3
  <2>. QED
    BY <2>3, <2>4
<1>9. ASSUME ~torn' PROVE WatchInv'
  <2>1. ~torn /\ follow.at \notin {"screen", "walk"}
    BY <1>2, <1>9 DEF Tears
  <2>2. ASSUME KnowsItsFile PROVE KnowsItsFile'
    <3>1. path[0] = Len(file) /\ path[0] \notin Gone /\ follow.first \in Nat
          /\ follow.first <= Len(file)
      <4>1. 0 \in 0..keep
        BY <1>1
      <4>. QED
        BY <1>3, <4>1, FollowTypes DEF FilesInOrder, Gone
    <3>2. \A d \in 1..Len(file) : d \in Gone \/ d < follow.first => file'[d].shown >= file'[d].kept
      BY <1>1, <1>5, <2>2, <3>1 DEF KnowsItsFile
    <3>3. \A d \in 1..Len(file) \ Gone : d > follow.first => file'[d].shown = 0
      BY <1>5, <2>2 DEF KnowsItsFile
    <3>4. follow.first # 0 => /\ file'[follow.first].shown = follow.seen
                              /\ follow.seen <= file'[follow.first].whole
                              /\ file'[follow.first].whole > 0
      <4>1. follow.first # 0 => follow.first \in 1..Len(file)
        BY <1>1, <3>1
      <4>. QED
        BY <1>5, <2>2, <4>1 DEF KnowsItsFile
    <3>5. follow.first = 0 => follow.seen = 0
      BY <2>2 DEF KnowsItsFile
    <3>. QED
      BY <1>2, <1>5, <1>6, <3>2, <3>3, <3>4, <3>5 DEF KnowsItsFile
  <2>3. KnowsNothing => KnowsNothing'
    BY <1>2, <1>5 DEF KnowsNothing
  <2>. QED
    BY <1>2, <2>1, <2>2, <2>3 DEF WatchInv
<1>. QED
  BY <1>7, <1>8, <1>9 DEF WatchInv

LEMMA LeastNumber ==
  ASSUME NEW T \in SUBSET Nat, T # {}
  PROVE  \E m \in T : \A n \in T : m <= n
<1>. DEFINE R == OpToRel(<, Nat)
<1>1. IsWellFoundedOn(R, Nat)
  BY NatLessThanWellFounded
<1>2. PICK m \in T : \A n \in T : <<n, m>> \notin R
  BY <1>1, WFMin
<1>3. \A n \in T : ~ (n < m)
  BY <1>2 DEF OpToRel
<1>. QED
  BY <1>3

LEMMA GreatestNumber ==
  ASSUME NEW S \in SUBSET Nat, S # {}, NEW b \in Nat, \A x \in S : x <= b
  PROVE  \E m \in S : \A n \in S : n <= m
<1> DEFINE T == {c \in Nat : \A x \in S : x <= c}
<1>1. T \in SUBSET Nat /\ T # {}
  OBVIOUS
<1>2. PICK m \in T : \A n \in T : m <= n
  <2>. HIDE DEF T
  <2>. QED
    BY <1>1, LeastNumber
<1>3. m \in S
  <2>. SUFFICES ASSUME m \notin S PROVE FALSE
    OBVIOUS
  <2>1. m \in Nat /\ \A x \in S : x \in Nat /\ x <= m /\ x # m
    BY <1>2
  <2>2. PICK x \in S : TRUE
    OBVIOUS
  <2>3. m - 1 \in Nat /\ \A y \in S : y <= m - 1
    BY <2>1, <2>2
  <2>4. m - 1 \in T /\ ~(m <= m - 1)
    BY <2>1, <2>3
  <2>. QED
    BY <1>2, <2>4
<1>. QED
  BY <1>2, <1>3

LEMMA ValuesAreBounded ==
  ASSUME NEW n \in Nat, NEW f \in [1..n -> Nat]
  PROVE  \E b \in Nat : \A i \in 1..n : f[i] <= b
<1> DEFINE Below(k) == \E b \in Nat : \A i \in 1..k : f[i] <= b
           NotBelow == {k \in 0..n : ~Below(k)}
<1>1. SUFFICES ASSUME NotBelow # {} PROVE FALSE
  <2>1. n \in 0..n
    OBVIOUS
  <2>. QED
    BY <1>1, <2>1
<1>2. PICK k \in NotBelow : \A m \in NotBelow : k <= m
  <2>1. NotBelow \in SUBSET Nat
    OBVIOUS
  <2>. HIDE DEF NotBelow
  <2>. QED
    BY <1>1, <2>1, LeastNumber
<1>3. Below(0)
  <2>1. 0 \in Nat /\ \A i \in 1..0 : f[i] <= 0
    OBVIOUS
  <2>. QED
    BY <2>1
<1>4. k \in 0..n /\ ~Below(k) /\ k # 0
  <2>. HIDE DEF Below
  <2>. QED
    BY <1>2, <1>3
<1>5. Below(k - 1)
  <2>1. k - 1 \in 0..n /\ ~(k <= k - 1)
    BY <1>4
  <2>. HIDE DEF Below
  <2>. QED
    BY <1>2, <2>1
<1>6. PICK b \in Nat : \A i \in 1..(k - 1) : f[i] <= b
  BY <1>5
<1>7. f[k] \in Nat
  BY <1>4
<1>8. ASSUME NEW i \in 1..k PROVE f[i] <= b + f[k]
  <2>1. f[i] \in Nat /\ (i = k \/ i \in 1..(k - 1))
    BY <1>4
  <2>. QED
    BY <1>6, <1>7, <2>1
<1>9. b + f[k] \in Nat
  BY <1>7
<1>. QED
  BY <1>4, <1>8, <1>9

LEMMA PiecesTyped ==
  ASSUME NEW n, NEW pieces \in Seq(Pieces(n))
  PROVE  /\ Len(pieces) \in Nat /\ DOMAIN pieces = 1..Len(pieces)
         /\ \A i \in 1..Len(pieces) : /\ pieces[i].file \in 1..n
                                      /\ pieces[i].from \in Nat /\ pieces[i].to \in Nat
<1>1. \A i \in 1..Len(pieces) : pieces[i] \in Pieces(n)
  OBVIOUS
<1>. QED
  BY <1>1 DEF Pieces

\* What the pieces show of a file: see Show.
PiecesOf(pieces, d) == {i \in DOMAIN pieces : pieces[i].file = d /\ pieces[i].from < pieces[i].to}
ReachOf(pieces, d) == {file[d].shown} \cup {pieces[i].to : i \in PiecesOf(pieces, d)}
ShownBy(pieces) ==
  [d \in DOMAIN file |->
     IF \E i \in PiecesOf(pieces, d) : pieces[i].from > file[d].shown THEN file[d].shown
     ELSE CHOOSE n \in ReachOf(pieces, d) : \A m \in ReachOf(pieces, d) : m <= n]

LEMMA ShowIs ==
  ASSUME NEW pieces, Show(pieces)
  PROVE  /\ file' = [d \in DOMAIN file |-> [file[d] EXCEPT !.shown = ShownBy(pieces)[d]]]
         /\ twice' = (twice \/ \E d \in DOMAIN file : \E i, j \in PiecesOf(pieces, d) :
                                 i # j \/ pieces[i].from < file[d].shown)
         /\ torn' = (torn \/ Nameless(follow'.first, ShownBy(pieces)))
BY Zenon DEF Show, ShownBy, ReachOf, PiecesOf

LEMMA ShownTyped ==
  ASSUME LogTypeOK, NEW pieces \in Seq(Pieces(Len(file)))
  PROVE  \A d \in 1..Len(file) : ShownBy(pieces)[d] \in Nat
<1>1. /\ Len(file) \in Nat /\ DOMAIN file = 1..Len(file)
      /\ \A d \in 1..Len(file) : file[d].shown \in Nat
  BY LogTypes
<1>2. /\ Len(pieces) \in Nat /\ DOMAIN pieces = 1..Len(pieces)
      /\ \A i \in 1..Len(pieces) : pieces[i].to \in Nat
  BY PiecesTyped
<1>. SUFFICES ASSUME NEW d \in 1..Len(file) PROVE ShownBy(pieces)[d] \in Nat
  OBVIOUS
<1>3. PICK b \in Nat : \A i \in 1..Len(pieces) : pieces[i].to <= b
  <2> DEFINE f == [i \in 1..Len(pieces) |-> pieces[i].to]
  <2>1. f \in [1..Len(pieces) -> Nat]
    BY <1>2
  <2>2. \E c \in Nat : \A i \in 1..Len(pieces) : f[i] <= c
    <3>. HIDE DEF f
    <3>. QED
      BY <1>2, <2>1, ValuesAreBounded
  <2>. QED
    BY <2>2
<1>4. /\ ReachOf(pieces, d) \subseteq Nat /\ ReachOf(pieces, d) # {}
      /\ \A x \in ReachOf(pieces, d) : x <= b + file[d].shown
  <2>1. ReachOf(pieces, d) # {}
    BY DEF ReachOf
  <2>2. file[d].shown \in Nat
    BY <1>1
  <2>3. ASSUME NEW x \in ReachOf(pieces, d)
        PROVE  x = file[d].shown \/ (x \in Nat /\ x <= b)
    BY <1>2, <1>3 DEF ReachOf, PiecesOf
  <2>. QED
    BY <2>1, <2>2, <2>3
<1>5. b + file[d].shown \in Nat
  BY <1>1, <1>3
<1>6. \E n \in ReachOf(pieces, d) : \A m \in ReachOf(pieces, d) : m <= n
  BY <1>4, <1>5, GreatestNumber
<1>7. (CHOOSE n \in ReachOf(pieces, d) : \A m \in ReachOf(pieces, d) : m <= n) \in ReachOf(pieces, d)
  BY <1>6
<1>. QED
  BY <1>1, <1>4, <1>7 DEF ShownBy

\* Pieces of different files, each from where its file was shown up to.
LEMMA ShownExactly ==
  ASSUME LogTypeOK, NEW pieces \in Seq(Pieces(Len(file))), Show(pieces),
         \A i \in 1..Len(pieces) :
            pieces[i].from < pieces[i].to => pieces[i].from = file[pieces[i].file].shown,
         \A i, j \in 1..Len(pieces) :
            /\ i # j /\ pieces[i].from < pieces[i].to /\ pieces[j].from < pieces[j].to
            => pieces[i].file # pieces[j].file
  PROVE  /\ twice' = twice
         /\ \A i \in 1..Len(pieces) :
               pieces[i].from < pieces[i].to => file'[pieces[i].file].shown = pieces[i].to
         /\ \A d \in 1..Len(file) :
               \/ file'[d].shown = file[d].shown
               \/ \E i \in 1..Len(pieces) : pieces[i].file = d /\ pieces[i].from < pieces[i].to
<1>1. /\ Len(file) \in Nat /\ DOMAIN file = 1..Len(file)
      /\ \A d \in 1..Len(file) : file[d].shown \in Nat
  BY LogTypes
<1>2. /\ DOMAIN pieces = 1..Len(pieces)
      /\ \A i \in 1..Len(pieces) : /\ pieces[i].file \in 1..Len(file)
                                   /\ pieces[i].from \in Nat /\ pieces[i].to \in Nat
  BY PiecesTyped
<1>3. \A d \in 1..Len(file) : file'[d].shown = ShownBy(pieces)[d]
  <2>1. \A d \in 1..Len(file) : ShownBy(pieces)[d] \in Nat
    BY ShownTyped
  <2>2. file' = [d \in DOMAIN file |-> [file[d] EXCEPT !.shown = ShownBy(pieces)[d]]]
    BY ShowIs
  <2>. QED
    BY <2>1, <2>2, FilesShown
<1>4. ASSUME NEW d \in DOMAIN file, NEW i \in PiecesOf(pieces, d)
      PROVE  /\ i \in 1..Len(pieces) /\ pieces[i].file = d /\ pieces[i].from = file[d].shown
             /\ pieces[i].from < pieces[i].to /\ PiecesOf(pieces, d) = {i}
  BY <1>2, <1>4 DEF PiecesOf
<1>5. twice' = twice
  <2>1. ASSUME NEW d \in DOMAIN file, NEW i \in PiecesOf(pieces, d), NEW j \in PiecesOf(pieces, d)
        PROVE  i = j /\ ~(pieces[i].from < file[d].shown)
    <3>1. PiecesOf(pieces, d) = {i} /\ pieces[i].from = file[d].shown
      BY <1>4
    <3>. QED
      BY <1>1, <3>1
  <2>2. twice \in BOOLEAN
    BY DEF LogTypeOK
  <2>3. twice' = (twice \/ \E d \in DOMAIN file : \E i, j \in PiecesOf(pieces, d) :
                              i # j \/ pieces[i].from < file[d].shown)
    BY ShowIs
  <2>. QED
    BY <2>1, <2>2, <2>3
<1>6. ASSUME NEW i \in 1..Len(pieces), pieces[i].from < pieces[i].to
      PROVE  file'[pieces[i].file].shown = pieces[i].to
  <2> DEFINE d == pieces[i].file
  <2>1. d \in DOMAIN file /\ i \in PiecesOf(pieces, d)
    BY <1>1, <1>2, <1>6 DEF PiecesOf
  <2>2. PiecesOf(pieces, d) = {i} /\ pieces[i].from = file[d].shown
    BY <1>4, <2>1
  <2>3. ReachOf(pieces, d) = {file[d].shown, pieces[i].to}
    BY <2>2 DEF ReachOf
  <2>4. file[d].shown \in Nat /\ pieces[i].to \in Nat /\ file[d].shown < pieces[i].to
    BY <1>1, <1>2, <1>6, <2>1, <2>2
  <2>5. ~ \E k \in PiecesOf(pieces, d) : pieces[k].from > file[d].shown
    BY <2>2, <2>4
  <2>6. ShownBy(pieces)[d] = CHOOSE n \in ReachOf(pieces, d) : \A m \in ReachOf(pieces, d) : m <= n
    BY <2>1, <2>5 DEF ShownBy
  <2>. HIDE DEF d
  <2>7. (CHOOSE n \in ReachOf(pieces, d) : \A m \in ReachOf(pieces, d) : m <= n) = pieces[i].to
    BY <2>3, <2>4
  <2>. QED
    BY <1>1, <1>3, <2>1, <2>6, <2>7 DEF d
<1>7. ASSUME NEW d \in 1..Len(file), PiecesOf(pieces, d) = {}
      PROVE  file'[d].shown = file[d].shown
  <2>1. ReachOf(pieces, d) = {file[d].shown}
    BY <1>7 DEF ReachOf
  <2>2. ShownBy(pieces)[d] = CHOOSE n \in ReachOf(pieces, d) : \A m \in ReachOf(pieces, d) : m <= n
    BY <1>1, <1>7 DEF ShownBy
  <2>3. (CHOOSE n \in ReachOf(pieces, d) : \A m \in ReachOf(pieces, d) : m <= n) = file[d].shown
    BY <1>1, <2>1
  <2>. QED
    BY <1>3, <2>2, <2>3
<1>8. ASSUME NEW d \in 1..Len(file)
      PROVE  \/ file'[d].shown = file[d].shown
             \/ \E i \in 1..Len(pieces) : pieces[i].file = d /\ pieces[i].from < pieces[i].to
  BY <1>2, <1>7 DEF PiecesOf
<1>. QED
  BY <1>5, <1>6, <1>8

LEMMA Prefixed ==
  ASSUME NEW S, NEW q \in Seq(S), NEW p \in S
  PROVE  /\ <<p>> \o q \in Seq(S) /\ Len(<<p>> \o q) = Len(q) + 1
         /\ (<<p>> \o q)[1] = p /\ \A i \in 1..Len(q) : (<<p>> \o q)[i + 1] = q[i]
<1>1. <<p>> \in Seq(S) /\ Len(<<p>>) = 1 /\ <<p>>[1] = p
  OBVIOUS
<1>. QED
  BY <1>1

LEMMA Suffixed ==
  ASSUME NEW S, NEW q \in Seq(S), NEW p \in S
  PROVE  /\ Append(q, p) \in Seq(S) /\ Len(Append(q, p)) = Len(q) + 1
         /\ Append(q, p)[Len(q) + 1] = p /\ \A i \in 1..Len(q) : Append(q, p)[i] = q[i]
OBVIOUS

\* What a reading step of the watch leaves of a file: all but what is shown of it.
LEMMA ShowTyped ==
  ASSUME LogTypeOK, NEW pieces \in Seq(Pieces(Len(file))), Show(pieces)
  PROVE  /\ file' \in Seq(LogLine) /\ Len(file') = Len(file)
         /\ \A d \in 1..Len(file) : /\ file'[d].kept = file[d].kept
                                    /\ file'[d].whole = file[d].whole
                                    /\ file'[d].shown = ShownBy(pieces)[d]
         /\ twice' \in BOOLEAN /\ torn' \in BOOLEAN
<1>1. \A d \in 1..Len(file) : ShownBy(pieces)[d] \in Nat
  BY ShownTyped
<1>2. file' = [d \in DOMAIN file |-> [file[d] EXCEPT !.shown = ShownBy(pieces)[d]]]
  BY ShowIs
<1>3. twice' \in BOOLEAN /\ torn' \in BOOLEAN
  BY ShowIs DEF LogTypeOK
<1>. QED
  BY <1>1, <1>2, <1>3, FilesShown

LEMMA WatchStartsIs ==
  ASSUME LogTypeOK, WatchStarts
  PROVE  /\ follow.at = "off" /\ UNCHANGED writerVars /\ twice' = twice
         /\ follow' = [Off EXCEPT !.at = "screen", !.next = 1, !.live = path[0],
                                  !.upto = IF path[0] = 0 THEN 0 ELSE file[path[0]].whole]
         /\ file' \in Seq(LogLine) /\ Len(file') = Len(file)
         /\ \A d \in 1..Len(file) :
               /\ file'[d].kept = file[d].kept /\ file'[d].whole = file[d].whole
               /\ file'[d].shown = IF d \in Gone THEN file[d].whole ELSE file[d].shown
         /\ torn' = (torn \/ Gap) /\ torn' \in BOOLEAN
<1> DEFINE g == [d \in DOMAIN file |-> IF d \in Gone THEN file[d].whole ELSE file[d].shown]
<1>1. /\ DOMAIN file = 1..Len(file)
      /\ \A d \in 1..Len(file) :
            /\ g[d] = IF d \in Gone THEN file[d].whole ELSE file[d].shown
            /\ g[d] \in Nat
  BY LogTypes
<1>2. file' = [d \in DOMAIN file |-> [file[d] EXCEPT !.shown = g[d]]]
  <2>1. file' = [d \in DOMAIN file |->
                   [file[d] EXCEPT !.shown = IF d \in Gone THEN file[d].whole ELSE file[d].shown]]
    BY Zenon DEF WatchStarts
  <2>. QED
    BY <2>1
<1>. HIDE DEF g
<1>3. /\ file' \in Seq(LogLine) /\ Len(file') = Len(file)
      /\ \A d \in 1..Len(file) : /\ file'[d].kept = file[d].kept
                                 /\ file'[d].whole = file[d].whole
                                 /\ file'[d].shown = g[d]
  BY <1>1, <1>2, FilesShown
<1>4. /\ follow.at = "off" /\ UNCHANGED writerVars /\ twice' = twice
      /\ follow' = [Off EXCEPT !.at = "screen", !.next = 1, !.live = path[0],
                               !.upto = IF path[0] = 0 THEN 0 ELSE file[path[0]].whole]
      /\ torn' = (torn \/ Gap)
  BY Zenon DEF WatchStarts
<1>5. torn' \in BOOLEAN
  BY <1>4 DEF LogTypeOK
<1>. QED
  BY <1>1, <1>3, <1>4, <1>5

Newcomer == [file |-> follow.live, from |-> 0, to |-> follow.upto]
Own(d) == [file |-> d, from |-> IF follow.seen <= file[d].whole THEN follow.seen ELSE file[d].whole,
           to |-> file[d].whole]

\* What the read of a sibling may find: no file, the one that was followed, another.
AtEnd == follow.next > keep \/ path[follow.next] = 0
Passes == /\ follow' = [follow EXCEPT !.next = follow.next + 1,
                           !.found = <<[file |-> path[follow.next], from |-> 0,
                                        to |-> file[path[follow.next]].whole]>> \o follow.found]
          /\ UNCHANGED <<file, twice, torn>>

LEMMA SiblingIs ==
  ASSUME ScreenSibling \/ PollSibling
  PROVE  /\ follow.at \in {"screen", "walk"} /\ UNCHANGED writerVars
         /\ \/ AtEnd /\ WalkEnds(follow.found)
            \/ /\ ~AtEnd /\ follow.at = "walk" /\ Name(path[follow.next]) = follow.first
               /\ WalkEnds(<<Own(path[follow.next])>> \o follow.found)
            \/ /\ ~AtEnd /\ (follow.at = "screen" \/ Name(path[follow.next]) # follow.first)
               /\ Passes
<1>1. CASE AtEnd
  <2>1. Sibling = 0
    BY <1>1 DEF AtEnd, Sibling
  <2>. QED
    BY <1>1, <2>1 DEF ScreenSibling, PollSibling
<1>2. CASE ~AtEnd
  <2>1. Sibling = path[follow.next] /\ path[follow.next] # 0
    BY <1>2 DEF AtEnd, Sibling
  <2>2. PassesSibling => Passes
    BY <2>1 DEF PassesSibling, Passes, Piece
  <2>3. CASE ScreenSibling
    BY <1>2, <2>1, <2>2, <2>3 DEF ScreenSibling
  <2>4. CASE PollSibling
    BY <1>2, <2>1, <2>2, <2>4 DEF PollSibling, Own, Piece
  <2>. QED
    BY <2>3, <2>4
<1>. QED
  BY <1>1, <1>2

LEMMA FollowsOn ==
  ASSUME NEW n \in Nat, NEW f \in Follows(n), NEW a \in 0..n, NEW i \in Nat, NEW j \in Nat
  PROVE  /\ [f EXCEPT !.seen = i] \in Follows(n)
         /\ [f EXCEPT !.at = "walk", !.next = i, !.live = a, !.upto = j] \in Follows(n)
         /\ [Off EXCEPT !.at = "idle", !.first = a, !.seen = i] \in Follows(n)
         /\ [Off EXCEPT !.at = "screen", !.next = i, !.live = a, !.upto = j] \in Follows(n)
         /\ \A q \in Seq(Pieces(n)) : [f EXCEPT !.next = i, !.found = q] \in Follows(n)
<1> DEFINE S == Seq(Pieces(n))
           F == [at : {"off", "screen", "idle", "walk"}, first : 0..n, seen : Nat, next : Nat, live : 0..n,
                 upto : Nat, found : S]
<1>1. Follows(n) = F
  BY DEF Follows
<1>2. << >> \in S /\ 0 \in 0..n
  OBVIOUS
<1>. HIDE DEF S
<1>3. [f EXCEPT !.seen = i] \in F
  BY <1>1
<1>4. [f EXCEPT !.at = "walk", !.next = i, !.live = a, !.upto = j] \in F
  <2>1. \A g \in F : [g EXCEPT !.at = "walk"] \in F /\ [g EXCEPT !.next = i] \in F
    OBVIOUS
  <2>2. \A g \in F : [g EXCEPT !.live = a] \in F /\ [g EXCEPT !.upto = j] \in F
    OBVIOUS
  <2>. HIDE DEF F
  <2>3. [[[[f EXCEPT !.at = "walk"] EXCEPT !.next = i] EXCEPT !.live = a] EXCEPT !.upto = j] \in F
    BY <1>1, <2>1, <2>2
  <2>. QED
    BY <2>3
<1>5. [Off EXCEPT !.at = "idle", !.first = a, !.seen = i] \in F
  BY <1>2 DEF Off
<1>7. [Off EXCEPT !.at = "screen", !.next = i, !.live = a, !.upto = j] \in F
  BY <1>2 DEF Off
<1>6. \A q \in S : [f EXCEPT !.next = i, !.found = q] \in F
  <2>1. \A g \in F : [g EXCEPT !.next = i] \in F
    OBVIOUS
  <2>2. \A g \in F : \A q \in S : [g EXCEPT !.found = q] \in F
    OBVIOUS
  <2>. HIDE DEF F
  <2>3. \A q \in S : [[f EXCEPT !.next = i] EXCEPT !.found = q] \in F
    BY <1>1, <2>1, <2>2
  <2>. QED
    BY <2>3
<1>. QED
  BY <1>1, <1>3, <1>4, <1>5, <1>6, <1>7 DEF S

\* A walk begins at a live file and has found nothing yet.
WalkBegins == /\ follow.at = "walk" => follow.live # 0
              /\ follow.at = "idle" => follow.found = << >>

\* What is shown at the end: what was found, and what was read of the live file.
WithLive(q) == IF follow.live = 0 THEN q ELSE Append(q, Newcomer)

LEMMA LiveIsAdded ==
  ASSUME LogTypeOK, NEW q \in Seq(Pieces(Len(file)))
  PROVE  q \o LivePiece = WithLive(q) /\ WithLive(q) \in Seq(Pieces(Len(file)))
<1>1. CASE follow.live = 0
  <2>1. q \o << >> = q
    OBVIOUS
  <2>. QED
    BY <1>1, <2>1 DEF LivePiece, WithLive
<1>2. CASE follow.live # 0
  <2>1. follow.live \in 1..Len(file) /\ follow.upto \in Nat
    BY <1>2, FollowTypes, LogTypes
  <2>2. Newcomer \in Pieces(Len(file))
    BY <2>1 DEF Newcomer, Pieces
  <2>3. \A p \in Pieces(Len(file)) : q \o <<p>> = Append(q, p) /\ Append(q, p) \in Seq(Pieces(Len(file)))
    OBVIOUS
  <2>4. LivePiece = <<Newcomer>>
    BY <1>2 DEF LivePiece, Newcomer
  <2>. QED
    BY <1>2, <2>2, <2>3, <2>4 DEF WithLive
<1>. QED
  BY <1>1, <1>2

LEMMA LogWatchTyped ==
  ASSUME LogTypeOK, WatchStarts \/ ScreenSibling \/ PollLive \/ PollSibling
  PROVE  LogTypeOK'
<1>1. /\ Len(file) \in Nat /\ DOMAIN file = 1..Len(file) /\ file \in Seq(LogLine) /\ keep \in Nat
      /\ \A i \in 0..keep : path[i] \in 0..Len(file)
      /\ \A d \in 1..Len(file) : file[d].whole \in Nat
  BY LogTypes
<1>2. /\ follow \in Follows(Len(file)) /\ follow.first \in 0..Len(file) /\ follow.seen \in Nat
      /\ follow.next \in Nat /\ follow.live \in 0..Len(file) /\ follow.upto \in Nat
      /\ follow.found \in Seq(Pieces(Len(file)))
  BY <1>1, FollowTypes
<1>3. UNCHANGED writerVars
  BY WatchStartsIs, SiblingIs DEF PollLive
<1>4. SUFFICES /\ file' \in Seq(LogLine) /\ Len(file') = Len(file)
               /\ follow' \in Follows(Len(file)) /\ twice' \in BOOLEAN /\ torn' \in BOOLEAN
  <2>1. ASSUME file' \in Seq(LogLine), Len(file') = Len(file), follow' \in Follows(Len(file)),
               twice' \in BOOLEAN, torn' \in BOOLEAN
        PROVE  LogTypeOK'
    <3>1. /\ keep' = keep /\ path' \in [0..keep -> 0..Len(file)] /\ fd' \in [Writers -> 0..Len(file)]
          /\ wpc' \in [Writers -> {"idle", "full", "rotate", "open", "text", "newline"}]
          /\ holder' \in Writers \cup {NoWriter} /\ step' \in Nat /\ begun' \in Nat /\ deaths' \in Nat
      BY <1>3 DEF LogTypeOK, writerVars
    <3>. QED
      BY <1>1, <2>1, <3>1, LogTypedByParts
  <2>. QED
    BY <2>1
<1>5. CASE WatchStarts
  <2> DEFINE n == IF path[0] = 0 THEN 0 ELSE file[path[0]].whole
  <2>1. path[0] \in 0..Len(file) /\ n \in Nat
    BY <1>1
  <2>2. follow' = [Off EXCEPT !.at = "screen", !.next = 1, !.live = path[0], !.upto = n]
    BY <1>5, WatchStartsIs
  <2>. HIDE DEF n
  <2>3. [Off EXCEPT !.at = "screen", !.next = 1, !.live = path[0], !.upto = n] \in Follows(Len(file))
    <3>1. 1 \in Nat
      OBVIOUS
    <3>. QED
      BY <1>1, <1>2, <2>1, <3>1, FollowsOn, Zenon
  <2>4. twice' \in BOOLEAN
    BY <1>5, WatchStartsIs DEF LogTypeOK
  <2>. QED
    BY <1>5, <2>2, <2>3, <2>4, WatchStartsIs
<1>6. CASE PollLive
  <2>1. path[0] \in 1..Len(file)
    BY <1>1, <1>6 DEF PollLive
  <2>2. file[path[0]].whole \in Nat
    BY <1>1, <2>1
  <2>3. CASE /\ follow' = [follow EXCEPT !.seen = file[path[0]].whole]
             /\ Show(<<[file |-> path[0], from |-> follow.seen, to |-> file[path[0]].whole]>>)
    <3>1. <<[file |-> path[0], from |-> follow.seen, to |-> file[path[0]].whole]>> \in Seq(Pieces(Len(file)))
      BY <1>2, <2>1, <2>2 DEF Pieces
    <3>2. follow' \in Follows(Len(file))
      BY <1>1, <1>2, <2>2, <2>3, FollowsOn
    <3>. QED
      BY <2>3, <3>1, <3>2, ShowTyped
  <2>4. CASE /\ follow' = [follow EXCEPT !.at = "walk", !.next = 1, !.live = path[0],
                                         !.upto = file[path[0]].whole]
             /\ torn' \in BOOLEAN /\ UNCHANGED <<file, twice>>
    <3>1. follow' \in Follows(Len(file))
      <4>1. path[0] \in 0..Len(file) /\ 1 \in Nat
        BY <2>1
      <4>2. [follow EXCEPT !.at = "walk", !.next = 1, !.live = path[0], !.upto = file[path[0]].whole]
              \in Follows(Len(file))
        BY <1>1, <1>2, <2>2, <4>1, FollowsOn, Zenon
      <4>. QED
        BY <2>4, <4>2
    <3>2. twice' \in BOOLEAN
      BY <2>4 DEF LogTypeOK
    <3>. QED
      BY <1>1, <2>4, <3>1, <3>2
  <2>5. torn \in BOOLEAN
    BY DEF LogTypeOK
  <2>. QED
    BY <1>6, <2>3, <2>4, <2>5 DEF PollLive
<1>7. ASSUME NEW found \in Seq(Pieces(Len(file))), WalkEnds(found)
      PROVE  /\ file' \in Seq(LogLine) /\ Len(file') = Len(file)
             /\ follow' \in Follows(Len(file)) /\ twice' \in BOOLEAN /\ torn' \in BOOLEAN
  <2>1. WithLive(found) \in Seq(Pieces(Len(file))) /\ Show(WithLive(found))
    BY <1>7, LiveIsAdded DEF WalkEnds
  <2>4. follow' \in Follows(Len(file))
    <3>1. (IF follow.upto = 0 THEN 0 ELSE follow.live) \in 0..Len(file)
      BY <1>1, <1>2
    <3>2. follow' = [Off EXCEPT !.at = "idle", !.seen = follow.upto,
                                !.first = IF follow.upto = 0 THEN 0 ELSE follow.live]
      BY <1>7 DEF WalkEnds
    <3>3. \A a, i : [Off EXCEPT !.at = "idle", !.seen = i, !.first = a]
                    = [Off EXCEPT !.at = "idle", !.first = a, !.seen = i]
      BY DEF Off
    <3> DEFINE a == IF follow.upto = 0 THEN 0 ELSE follow.live
    <3>4. follow' = [Off EXCEPT !.at = "idle", !.first = a, !.seen = follow.upto]
      BY <3>2, <3>3
    <3>. HIDE DEF a
    <3>5. [Off EXCEPT !.at = "idle", !.first = a, !.seen = follow.upto] \in Follows(Len(file))
      BY <1>1, <1>2, <3>1, FollowsOn, Zenon DEF a
    <3>. QED
      BY <3>4, <3>5
  <2>. QED
    BY <2>1, <2>4, ShowTyped
<1>8. CASE ScreenSibling \/ PollSibling
  <2>2. CASE WalkEnds(follow.found)
    BY <1>2, <1>7, <2>2
  <2>3. ASSUME ~AtEnd
        PROVE  /\ path[follow.next] \in 1..Len(file) /\ file[path[follow.next]].whole \in Nat
               /\ Own(path[follow.next]) \in Pieces(Len(file))
               /\ [file |-> path[follow.next], from |-> 0, to |-> file[path[follow.next]].whole]
                     \in Pieces(Len(file))
    <3>1. path[follow.next] \in 1..Len(file)
      BY <1>1, <1>2, <2>3 DEF AtEnd
    <3>2. file[path[follow.next]].whole \in Nat
      BY <1>1, <3>1
    <3>. QED
      BY <1>2, <3>1, <3>2 DEF Own, Pieces
  <2>4. CASE ~AtEnd /\ WalkEnds(<<Own(path[follow.next])>> \o follow.found)
    <3>1. <<Own(path[follow.next])>> \o follow.found \in Seq(Pieces(Len(file)))
      BY <1>2, <2>3, <2>4, Prefixed
    <3>. QED
      BY <1>7, <2>4, <3>1
  <2>5. CASE ~AtEnd /\ Passes
    <3> DEFINE q == <<[file |-> path[follow.next], from |-> 0,
                       to |-> file[path[follow.next]].whole]>> \o follow.found
    <3>1. q \in Seq(Pieces(Len(file))) /\ follow.next + 1 \in Nat
      BY <1>2, <2>3, <2>5, Prefixed
    <3>2. /\ follow' = [follow EXCEPT !.next = follow.next + 1, !.found = q]
          /\ UNCHANGED <<file, twice, torn>>
      BY <2>5 DEF Passes
    <3>. HIDE DEF q
    <3>3. follow' \in Follows(Len(file))
      BY <1>1, <1>2, <3>1, <3>2, FollowsOn
    <3>4. twice' \in BOOLEAN /\ torn' \in BOOLEAN
      BY <3>2 DEF LogTypeOK
    <3>. QED
      BY <1>1, <3>2, <3>3, <3>4
  <2>. QED
    BY <1>8, <2>2, <2>4, <2>5, SiblingIs
<1>. QED
  BY <1>5, <1>6, <1>8

LEMMA WalkEndShown ==
  ASSUME LogTypeOK, NEW q \in Seq(Pieces(Len(file))), WalkEnds(q)
  PROVE  /\ WithLive(q) \in Seq(Pieces(Len(file))) /\ Show(WithLive(q))
         /\ follow'.at = "idle" /\ follow'.seen = follow.upto /\ follow'.found = << >>
         /\ follow'.first = IF follow.upto = 0 THEN 0 ELSE follow.live
<1>1. WithLive(q) \in Seq(Pieces(Len(file))) /\ Show(WithLive(q))
  BY LiveIsAdded DEF WalkEnds
<1>2. /\ follow'.at = "idle" /\ follow'.seen = follow.upto /\ follow'.found = << >>
      /\ follow'.first = IF follow.upto = 0 THEN 0 ELSE follow.live
  BY DEF WalkEnds, Off
<1>. QED
  BY <1>1, <1>2

\* The end, with every sibling found that the watch has not shown all of.
LEMMA WalkEndKnows ==
  ASSUME LogTypeOK, FilesInOrder, WatchInv, ~torn, ~torn', follow.at \in {"screen", "walk"},
         UNCHANGED writerVars,
         NEW q \in Seq(Pieces(Len(file))), WalkEnds(q),
         \A k \in 1..Len(q) : \E i \in 1..keep : q[k].file = path[i],
         \A k \in 1..Len(q) : q[k].from < q[k].to => q[k].from = file[q[k].file].shown,
         \A k, l \in 1..Len(q) : k # l /\ q[k].from < q[k].to /\ q[l].from < q[l].to
                                 => q[k].file # q[l].file,
         \A i \in 1..keep : path[i] # 0 =>
            \/ file[path[i]].shown >= file[path[i]].kept
            \/ \E k \in 1..Len(q) : /\ q[k].file = path[i] /\ q[k].from <= file[path[i]].shown
                                    /\ q[k].to >= file[path[i]].kept
  PROVE  WatchInv'
<1> DEFINE pieces == WithLive(q)
<1>1. /\ Len(file) \in Nat /\ keep \in Nat
      /\ \A i \in 0..keep : path[i] \in Nat /\ path[i] <= Len(file)
      /\ \A d \in 1..Len(file) : /\ file[d].whole \in Nat /\ file[d].kept \in Nat
                                 /\ file[d].shown \in Nat
  BY LogTypes
<1>2. /\ follow.first \in Nat /\ follow.live \in Nat /\ follow.live <= Len(file)
      /\ follow.upto \in Nat
  BY FollowTypes
<1>3. KnowsItsFile /\ KnowsItsWay /\ ~twice
  BY DEF WatchInv
<1>4. path[0] # 0 => /\ path[0] = Len(file) /\ path[0] \in 1..Len(file) /\ path[0] \notin Gone
                     /\ file[path[0]].shown = 0
  <2>. SUFFICES ASSUME path[0] # 0
                PROVE  /\ path[0] = Len(file) /\ path[0] \in 1..Len(file) /\ path[0] \notin Gone
                       /\ file[path[0]].shown = 0
    OBVIOUS
  <2>1. 0 \in 0..keep /\ path[0] = Len(file) /\ path[0] \in 1..Len(file)
    BY <1>1 DEF FilesInOrder
  <2>2. follow.first < path[0]
    BY <1>1, <1>3, <2>1 DEF KnowsItsWay
  <2>. QED
    BY <1>3, <2>1, <2>2 DEF KnowsItsFile, Gone
<1>21. /\ follow.live = 0 => follow.upto = 0
       /\ follow.live # 0 => follow.live = path[0] /\ path[0] # 0
                             /\ follow.upto <= file[path[0]].whole
  BY <1>3 DEF KnowsItsWay
<1>5. /\ pieces \in Seq(Pieces(Len(file))) /\ Show(pieces)
      /\ follow'.at = "idle" /\ follow'.seen = follow.upto
      /\ follow'.first = IF follow.upto = 0 THEN 0 ELSE follow.live
  BY WalkEndShown
<1>22. Len(q) \in Nat
  OBVIOUS
<1>6. /\ \A k \in 1..Len(q) : k \in 1..Len(pieces) /\ pieces[k] = q[k]
      /\ follow.live # 0 => Len(q) + 1 \in 1..Len(pieces) /\ pieces[Len(q) + 1] = Newcomer
      /\ \A k \in 1..Len(pieces) : k \in 1..Len(q) \/ (k = Len(q) + 1 /\ follow.live # 0)
  <2>1. CASE follow.live = 0
    BY <2>1 DEF WithLive
  <2>2. CASE follow.live # 0
    <3>1. follow.live \in 1..Len(file) /\ Newcomer \in Pieces(Len(file))
      BY <1>1, <1>2, <2>2 DEF Newcomer, Pieces
    <3>2. /\ Len(pieces) = Len(q) + 1 /\ pieces[Len(q) + 1] = Newcomer
          /\ \A k \in 1..Len(q) : pieces[k] = q[k]
      BY <2>2, <3>1, Suffixed DEF WithLive
    <3>. HIDE DEF pieces
    <3>. QED
      BY <1>22, <2>2, <3>2
  <2>. QED
    BY <2>1, <2>2
<1>7. follow.live # 0 => Newcomer.file = path[0] /\ Newcomer.from = 0 /\ Newcomer.to = follow.upto
  BY <1>21 DEF Newcomer
<1>. HIDE DEF pieces
<1>8. \A k \in 1..Len(q) : q[k].file # path[0] /\ q[k].file \in 1..Len(file)
                           /\ q[k].from \in Nat /\ q[k].to \in Nat
  <2>. TAKE k \in 1..Len(q)
  <2>1. q[k].file \in 1..Len(file) /\ q[k].from \in Nat /\ q[k].to \in Nat
    BY PiecesTyped
  <2>2. PICK i \in 1..keep : q[k].file = path[i]
    OBVIOUS
  <2>3. path[0] # 0 => path[0] > path[i]
    <3>1. 0 \in 0..keep /\ i \in 0..keep /\ 0 < i /\ path[i] # 0
      BY <1>1, <2>1, <2>2
    <3>. QED
      BY <3>1 DEF FilesInOrder
  <2>. QED
    BY <1>1, <1>4, <2>1, <2>2, <2>3
<1>9. \A k \in 1..Len(pieces) : k \in 1..Len(q) \/ (k = Len(q) + 1 /\ follow.live # 0)
  BY <1>6
<1>10. \A k \in 1..Len(pieces) :
          pieces[k].from < pieces[k].to => pieces[k].from = file[pieces[k].file].shown
  BY <1>4, <1>6, <1>7, <1>9, <1>21
<1>11. \A k, l \in 1..Len(pieces) :
          /\ k # l /\ pieces[k].from < pieces[k].to /\ pieces[l].from < pieces[l].to
          => pieces[k].file # pieces[l].file
  <2>. TAKE k, l \in 1..Len(pieces)
  <2>. SUFFICES ASSUME k # l, pieces[k].from < pieces[k].to, pieces[l].from < pieces[l].to
                PROVE  pieces[k].file # pieces[l].file
    OBVIOUS
  <2>1. CASE k \in 1..Len(q) /\ l \in 1..Len(q)
    BY <1>6, <2>1
  <2>2. CASE k \in 1..Len(q) /\ l = Len(q) + 1 /\ follow.live # 0
    BY <1>6, <1>7, <1>8, <2>2
  <2>3. CASE k = Len(q) + 1 /\ l \in 1..Len(q) /\ follow.live # 0
    BY <1>6, <1>7, <1>8, <2>3
  <2>. QED
    BY <1>9, <1>22, <2>1, <2>2, <2>3
<1>12. /\ twice' = twice
       /\ \A k \in 1..Len(pieces) :
             pieces[k].from < pieces[k].to => file'[pieces[k].file].shown = pieces[k].to
       /\ \A d \in 1..Len(file) :
             \/ file'[d].shown = file[d].shown
             \/ \E k \in 1..Len(pieces) : pieces[k].file = d /\ pieces[k].from < pieces[k].to
  BY <1>5, <1>10, <1>11, ShownExactly
<1>13. /\ Len(file') = Len(file)
       /\ \A d \in 1..Len(file) : file'[d].kept = file[d].kept /\ file'[d].whole = file[d].whole
  BY <1>5, ShowTyped
<1>14. UNCHANGED <<keep, path>> /\ Gone' = Gone
  BY <1>13 DEF Gone, writerVars
<1>15. \A d \in 1..Len(file) : file'[d].shown \in Nat /\ file'[d].shown >= file[d].shown
  <2>. TAKE d \in 1..Len(file)
  <2>1. CASE file'[d].shown = file[d].shown
    BY <1>1, <2>1
  <2>2. ASSUME NEW k \in 1..Len(pieces), pieces[k].file = d, pieces[k].from < pieces[k].to
        PROVE  file'[d].shown \in Nat /\ file'[d].shown >= file[d].shown
    <3>1. file'[d].shown = pieces[k].to /\ pieces[k].from = file[d].shown
      BY <1>10, <1>12, <2>2
    <3>2. pieces[k].to \in Nat /\ pieces[k].from \in Nat
      BY <1>5, PiecesTyped
    <3>. QED
      BY <2>2, <3>1, <3>2
  <2>. QED
    BY <1>12, <2>1, <2>2
<1>16. \A i \in 1..keep : path[i] # 0 => file'[path[i]].shown >= file[path[i]].kept
  <2>. SUFFICES ASSUME NEW i \in 1..keep, path[i] # 0
                PROVE  file'[path[i]].shown >= file[path[i]].kept
    OBVIOUS
  <2>1. path[i] \in 1..Len(file)
    BY <1>1
  <2>2. CASE file[path[i]].shown >= file[path[i]].kept
    BY <1>1, <1>15, <2>1, <2>2
  <2>3. ASSUME NEW k \in 1..Len(q), q[k].file = path[i], q[k].from <= file[path[i]].shown,
               q[k].to >= file[path[i]].kept
        PROVE  file'[path[i]].shown >= file[path[i]].kept
    <3>1. k \in 1..Len(pieces) /\ pieces[k] = q[k] /\ q[k].from \in Nat /\ q[k].to \in Nat
      BY <1>6, <1>8
    <3>2. CASE q[k].from < q[k].to
      BY <1>12, <2>3, <3>1, <3>2
    <3>3. CASE ~(q[k].from < q[k].to)
      <4>0. PICK d \in 1..Len(file) : d = path[i]
        BY <2>1
      <4>1. /\ file[d].kept \in Nat /\ file[d].shown \in Nat /\ file'[d].shown \in Nat
            /\ file'[d].shown >= file[d].shown
        BY <1>1, <1>15
      <4>2. q[k].from <= file[d].shown /\ q[k].to >= file[d].kept
        BY <2>3, <4>0
      <4>3. file'[d].shown >= file[d].kept
        <5>1. q[k].to <= q[k].from
          BY <3>1, <3>3
        <5>2. file[d].kept <= q[k].from
          BY <3>1, <4>1, <4>2, <5>1
        <5>3. file[d].kept <= file[d].shown
          BY <3>1, <4>1, <4>2, <5>2
        <5>. QED
          BY <4>1, <5>3
      <4>. QED
        BY <4>0, <4>3
    <3>. QED
      BY <3>2, <3>3
  <2>. QED
    BY <2>2, <2>3
<1>17. \A d \in 1..Len(file) \ Gone : d = path[0] \/ \E i \in 1..keep : path[i] = d
  <2>. TAKE d \in 1..Len(file) \ Gone
  <2>1. PICK i \in 0..keep : path[i] = d
    BY DEF Gone
  <2>2. i = 0 \/ i \in 1..keep
    BY <1>1
  <2>. QED
    BY <2>1, <2>2
<1>18. \A d \in Gone : file'[d].shown >= file[d].kept
  <2>1. \A d \in Gone : d \in 1..Len(file) /\ file[d].shown >= file[d].kept
    BY <1>3 DEF KnowsItsFile, Gone
  <2>. QED
    BY <1>1, <1>15, <2>1
<1>19. CASE follow.upto # 0
  <2>0. follow.live # 0 /\ path[0] # 0
    BY <1>19, <1>21
  <2>1. follow'.first = path[0] /\ follow'.seen = follow.upto
    BY <1>5, <1>19, <1>21, <2>0
  <2>2. \A d \in 1..Len(file) : d \in Gone \/ d < path[0] => file'[d].shown >= file'[d].kept
    <3>1. ASSUME NEW d \in 1..Len(file), d \in Gone \/ d < path[0]
          PROVE  file'[d].shown >= file[d].kept
      <4>1. CASE d \in Gone
        BY <1>18, <4>1
      <4>2. CASE d \notin Gone
        <5>1. PICK i \in 1..keep : path[i] = d
          BY <1>1, <1>4, <1>17, <2>0, <3>1, <4>2
        <5>2. path[i] # 0
          BY <5>1
        <5>. QED
          BY <1>16, <5>1, <5>2
      <4>. QED
        BY <4>1, <4>2
    <3>. QED
      BY <1>13, <3>1
  <2>3. \A d \in 1..Len(file) : ~(d > path[0])
    BY <1>1, <1>4, <2>0
  <2>4. file'[path[0]].shown = follow.upto
    <3>1. Len(q) + 1 \in 1..Len(pieces)
      BY <1>6, <2>0
    <3>2. /\ pieces[Len(q) + 1].from < pieces[Len(q) + 1].to
          /\ pieces[Len(q) + 1].file = path[0] /\ pieces[Len(q) + 1].to = follow.upto
      BY <1>2, <1>6, <1>7, <1>19, <2>0
    <3>. QED
      BY <1>12, <3>1, <3>2
  <2>5. follow.upto <= file'[path[0]].whole /\ file'[path[0]].whole > 0
    BY <1>1, <1>2, <1>4, <1>13, <1>19, <1>21, <2>0
  <2>6. KnowsItsFile'
    BY <1>13, <1>14, <2>0, <2>1, <2>2, <2>3, <2>4, <2>5 DEF KnowsItsFile
  <2>. QED
    BY <1>3, <1>5, <1>12, <2>6 DEF WatchInv
<1>20. CASE follow.upto = 0
  <2>1. follow'.first = 0 /\ follow'.seen = 0
    BY <1>5, <1>20
  <2>2. \A d \in 1..Len(file) : d \in Gone \/ d < 0 => file'[d].shown >= file'[d].kept
    BY <1>13, <1>18
  <2>3. ASSUME NEW d \in 1..Len(file) \ Gone PROVE file'[d].shown = 0
    <3>1. CASE d = path[0]
      <4>1. ~ \E k \in 1..Len(pieces) : pieces[k].file = d /\ pieces[k].from < pieces[k].to
        <5>. SUFFICES ASSUME NEW k \in 1..Len(pieces), pieces[k].file = d,
                             pieces[k].from < pieces[k].to
                      PROVE  FALSE
          OBVIOUS
        <5>1. CASE k \in 1..Len(q)
          BY <1>6, <1>8, <3>1, <5>1
        <5>2. CASE k = Len(q) + 1 /\ follow.live # 0
          BY <1>6, <1>7, <1>20, <5>2
        <5>. QED
          BY <1>9, <5>1, <5>2
      <4>. QED
        BY <1>4, <1>12, <3>1, <4>1
    <3>2. ASSUME NEW i \in 1..keep, path[i] = d PROVE file'[d].shown = 0
      <4>1. ~Nameless(0, ShownBy(pieces))
        BY <1>5, <2>1, ShowIs
      <4>2. file'[d].shown = ShownBy(pieces)[d]
        BY <1>5, ShowTyped
      <4>3. ~(file'[d].shown > 0)
        BY <1>1, <3>2, <4>1, <4>2 DEF Nameless
      <4>. QED
        BY <1>15, <4>3
    <3>. QED
      BY <1>17, <3>1, <3>2
  <2>4. KnowsItsFile'
    BY <1>13, <1>14, <2>1, <2>2, <2>3 DEF KnowsItsFile
  <2>. QED
    BY <1>3, <1>5, <1>12, <2>4 DEF WatchInv
<1>. QED
  BY <1>19, <1>20

LEMMA FoundTyped ==
  ASSUME LogTypeOK, follow.next \in 0..keep, path[follow.next] # 0
  PROVE  /\ path[follow.next] \in 1..Len(file) /\ file[path[follow.next]].whole \in Nat
         /\ Own(path[follow.next]) \in Pieces(Len(file))
         /\ <<Own(path[follow.next])>> \o follow.found \in Seq(Pieces(Len(file)))
         /\ [file |-> path[follow.next], from |-> 0, to |-> file[path[follow.next]].whole]
               \in Pieces(Len(file))
<1>1. path[follow.next] \in Nat /\ path[follow.next] <= Len(file) /\ Len(file) \in Nat
  BY LogTypes
<1>2. path[follow.next] \in 1..Len(file)
  BY <1>1
<1>3. file[path[follow.next]].whole \in Nat
  BY <1>2, LogTypes
<1>4. follow.seen \in Nat /\ follow.found \in Seq(Pieces(Len(file)))
  BY FollowTypes
<1>5. Own(path[follow.next]) \in Pieces(Len(file))
  BY <1>2, <1>3, <1>4 DEF Own, Pieces
<1>6. [file |-> path[follow.next], from |-> 0, to |-> file[path[follow.next]].whole]
         \in Pieces(Len(file))
  BY <1>2, <1>3 DEF Pieces
<1>. QED
  BY <1>2, <1>3, <1>4, <1>5, <1>6, Prefixed

\* The watch starts with all of history before it, and that without a gap.
LEMMA WatchStartsKnows ==
  ASSUME LogTypeOK, FilesInOrder, WatchInv, WatchStarts, ~torn'
  PROVE  WatchInv'
<1>1. /\ Len(file) \in Nat /\ keep \in Nat
      /\ \A i \in 0..keep : path[i] \in Nat /\ path[i] <= Len(file)
      /\ \A d \in 1..Len(file) : file[d].whole \in Nat /\ file[d].kept \in Nat
  BY LogTypes
<1>2. /\ UNCHANGED writerVars /\ twice' = twice /\ follow.at = "off"
      /\ follow'.at = "screen" /\ follow'.first = 0 /\ follow'.seen = 0 /\ follow'.next = 1
      /\ follow'.live = path[0] /\ follow'.found = << >>
      /\ follow'.upto = IF path[0] = 0 THEN 0 ELSE file[path[0]].whole
      /\ Len(file') = Len(file)
      /\ \A d \in 1..Len(file) :
            /\ file'[d].kept = file[d].kept /\ file'[d].whole = file[d].whole
            /\ file'[d].shown = IF d \in Gone THEN file[d].whole ELSE file[d].shown
      /\ ~torn /\ ~Gap
  BY WatchStartsIs DEF Off
<1>3. ~twice /\ KnowsNothing
  BY <1>2 DEF WatchInv
<1>4. UNCHANGED <<keep, path>> /\ Gone' = Gone
  BY <1>2 DEF Gone, writerVars
<1>5. KnowsItsFile'
  <2>1. \A d \in 1..Len(file) : d \in Gone => file'[d].shown >= file'[d].kept
    BY <1>1, <1>2 DEF FilesInOrder
  <2>2. \A d \in 1..Len(file) \ Gone : file'[d].shown = 0
    BY <1>2, <1>3 DEF KnowsNothing
  <2>3. \A d \in 1..Len(file) : ~(d < 0)
    OBVIOUS
  <2>. QED
    BY <1>2, <1>4, <2>1, <2>2, <2>3 DEF KnowsItsFile
<1>6. KnowsItsWay'
  <2>1. path[0] # 0 => path[0] \in 1..Len(file)
    <3>1. 0 \in 0..keep
      BY <1>1
    <3>. QED
      BY <1>1, <3>1
  <2>2. IF follow'.live = 0 THEN follow'.first = 0 /\ follow'.upto = 0
        ELSE /\ follow'.live = path'[0] /\ follow'.first < follow'.live
             /\ follow'.upto <= file'[follow'.live].whole
    BY <1>1, <1>2, <1>4, <2>1
  <2>3. \A i, j \in 1..keep : i < j /\ path[j] # 0 => path[i] # 0
    BY <1>2 DEF Gap
  <2>4. 1 \in 1..(keep + 1) /\ Len(<< >>) = 1 - 1 /\ 1..(1 - 1) = {}
    BY <1>1
  <2>. QED
    BY <1>2, <1>4, <2>2, <2>3, <2>4 DEF KnowsItsWay
<1>. QED
  BY <1>2, <1>3, <1>5, <1>6 DEF WatchInv

PollsOn == /\ Name(path[0]) = follow.first /\ file[path[0]].whole > follow.seen
           /\ follow' = [follow EXCEPT !.seen = file[path[0]].whole]
           /\ Show(<<[file |-> path[0], from |-> follow.seen, to |-> file[path[0]].whole]>>)
WalksOn == /\ ~(Name(path[0]) = follow.first /\ file[path[0]].whole >= follow.seen)
           /\ follow' = [follow EXCEPT !.at = "walk", !.next = 1, !.live = path[0],
                                       !.upto = file[path[0]].whole]
           /\ torn' = (torn \/ holder # NoWriter \/ deaths > 0 \/ StopsShort)
           /\ UNCHANGED <<file, twice>>

LEMMA PollLiveIs ==
  ASSUME PollLive
  PROVE  /\ follow.at = "idle" /\ path[0] # 0 /\ UNCHANGED writerVars
         /\ PollsOn \/ WalksOn
BY DEF PollLive, PollsOn, WalksOn

\* The live file is the one the watch has read, and is longer.
LEMMA PollsOnKnows ==
  ASSUME LogTypeOK, FilesInOrder, WatchInv, UNCHANGED writerVars, follow.at = "idle",
         path[0] # 0, PollsOn, ~torn'
  PROVE  WatchInv'
<1> DEFINE d == path[0]
           piece == [file |-> d, from |-> follow.seen, to |-> file[d].whole]
<1>1. /\ Len(file) \in Nat /\ keep \in Nat /\ DOMAIN file = 1..Len(file)
      /\ \A e \in 1..Len(file) : /\ file[e].whole \in Nat /\ file[e].kept \in Nat
                                 /\ file[e].shown \in Nat
      /\ d \in Nat /\ d <= Len(file)
  BY LogTypes
<1>2. d \in 1..Len(file) /\ d = Len(file) /\ d \notin Gone
  BY <1>1 DEF FilesInOrder, Gone
<1>3. follow.seen \in Nat /\ follow.first \in Nat
  BY FollowTypes
<1>4. d = follow.first /\ file[d].whole > follow.seen /\ file[d].whole \in Nat
  BY <1>1, <1>2, <1>3 DEF PollsOn, Name
<1>5. piece \in Pieces(Len(file))
  BY <1>2, <1>3, <1>4 DEF Pieces
<1>6. Show(<<piece>>)
  BY DEF PollsOn
<1>7. ~torn
  BY <1>6, ShowIs
<1>8. KnowsItsFile /\ ~twice
  BY <1>7 DEF WatchInv
<1>9. file[d].shown = follow.seen
  BY <1>2, <1>4, <1>8 DEF KnowsItsFile
<1>10. /\ <<piece>> \in Seq(Pieces(Len(file))) /\ Len(<<piece>>) = 1 /\ <<piece>>[1] = piece
       /\ piece.file = d /\ piece.from = follow.seen /\ piece.to = file[d].whole
  BY <1>5
<1>. HIDE DEF piece
<1>11. \A i \in 1..1 : i = 1
  OBVIOUS
<1>12. /\ twice' = twice /\ file'[d].shown = file[d].whole
       /\ \A e \in 1..Len(file) : e # d => file'[e].shown = file[e].shown
  <2>1. \A i \in 1..Len(<<piece>>) :
           <<piece>>[i].from < <<piece>>[i].to => <<piece>>[i].from = file[<<piece>>[i].file].shown
    BY <1>9, <1>10, <1>11
  <2>2. \A i, j \in 1..Len(<<piece>>) : i = j
    BY <1>10, <1>11
  <2>3. /\ twice' = twice
        /\ \A i \in 1..Len(<<piece>>) :
              <<piece>>[i].from < <<piece>>[i].to => file'[<<piece>>[i].file].shown = <<piece>>[i].to
        /\ \A e \in 1..Len(file) :
              \/ file'[e].shown = file[e].shown
              \/ \E i \in 1..Len(<<piece>>) : <<piece>>[i].file = e /\ <<piece>>[i].from < <<piece>>[i].to
    BY <1>6, <1>10, <2>1, <2>2, ShownExactly
  <2>4. 1 \in 1..Len(<<piece>>)
    BY <1>10
  <2>. QED
    BY <1>4, <1>10, <1>11, <2>3, <2>4
<1>13. /\ Len(file') = Len(file)
       /\ \A e \in 1..Len(file) : file'[e].kept = file[e].kept /\ file'[e].whole = file[e].whole
  BY <1>6, <1>10, ShowTyped
<1>14. follow'.at = "idle" /\ follow'.first = follow.first /\ follow'.seen = file[d].whole
  <2>1. follow \in Follows(Len(file))
    BY DEF LogTypeOK, Follows, Pieces
  <2>. QED
    BY <2>1 DEF PollsOn, Follows
<1>15. UNCHANGED <<keep, path>> /\ Gone' = Gone
  BY <1>13 DEF Gone, writerVars
<1>16. KnowsItsFile'
  <2>1. \A e \in 1..Len(file) : e \in Gone \/ e < follow.first => file'[e].shown >= file'[e].kept
    BY <1>2, <1>4, <1>8, <1>12, <1>13 DEF KnowsItsFile
  <2>2. \A e \in 1..Len(file) \ Gone : e > follow.first => file'[e].shown = 0
    BY <1>2, <1>4
  <2>3. /\ follow.first # 0 /\ file'[follow.first].shown = follow'.seen
        /\ follow'.seen <= file'[follow.first].whole /\ file'[follow.first].whole > 0
    BY <1>2, <1>3, <1>4, <1>12, <1>13, <1>14
  <2>. QED
    BY <1>13, <1>14, <1>15, <2>1, <2>2, <2>3 DEF KnowsItsFile
<1>. QED
  BY <1>8, <1>12, <1>14, <1>16 DEF WatchInv

\* The live file is not the one the watch has read: no rotation is under way and no
\* process has died, so history has no gap.
LEMMA WalksOnKnows ==
  ASSUME LogTypeOK, FilesInOrder, NoGap, WalkBegins, WatchInv, UNCHANGED writerVars,
         follow.at = "idle", path[0] # 0, WalksOn, ~torn'
  PROVE  WatchInv'
<1>1. /\ Len(file) \in Nat /\ keep \in Nat /\ deaths \in Nat
      /\ \A i \in 0..keep : path[i] \in Nat /\ path[i] <= Len(file)
      /\ \A d \in 1..Len(file) : /\ file[d].whole \in Nat /\ file[d].kept \in Nat
                                 /\ file[d].shown \in Nat
  BY LogTypes
<1>2. path[0] \in 1..Len(file) /\ path[0] = Len(file) /\ 0 \in 0..keep
  BY <1>1 DEF FilesInOrder
<1>3. follow.seen \in Nat /\ follow.first \in Nat /\ follow.first <= Len(file)
  BY FollowTypes
<1>4. ~torn /\ holder = NoWriter /\ deaths = 0 /\ ~StopsShort
  <2>1. ~torn /\ holder = NoWriter /\ ~(deaths > 0) /\ ~StopsShort
    BY Zenon DEF WalksOn
  <2>. QED
    BY <1>1, <2>1
<1>5. KnowsItsFile /\ ~twice
  BY <1>4 DEF WatchInv
<1>6. /\ follow'.at = "walk" /\ follow'.first = follow.first /\ follow'.seen = follow.seen
      /\ follow'.next = 1 /\ follow'.live = path[0] /\ follow'.upto = file[path[0]].whole
      /\ follow'.found = << >>
  <2>1. follow \in Follows(Len(file)) /\ follow.found = << >>
    BY DEF LogTypeOK, Follows, Pieces, WalkBegins
  <2>. QED
    BY <2>1 DEF WalksOn, Follows
<1>7. UNCHANGED <<keep, path, file, twice>>
  BY DEF WalksOn, writerVars
<1>8. follow.first < path[0]
  <2>1. CASE follow.first = path[0]
    <3>1. file[path[0]].whole > 0 /\ file[path[0]].whole >= follow.seen
      BY <1>1, <1>2, <1>3, <1>5, <2>1 DEF KnowsItsFile
    <3>2. Name(path[0]) = path[0]
      BY <1>1, <1>2, <3>1 DEF Name
    <3>. QED
      BY <2>1, <3>1, <3>2 DEF WalksOn
  <2>2. CASE follow.first # path[0]
    BY <1>1, <1>2, <1>3, <2>2
  <2>. QED
    BY <2>1, <2>2
<1>9. \A i, j \in 1..keep : i < j /\ path[j] # 0 => path[i] # 0
  BY <1>4 DEF NoGap, Rotating
<1>10. ASSUME follow.first = 0, NEW i \in 1..keep, NEW j \in 1..keep, i < j, path[j] # 0,
              file[path[i]].whole = 0
       PROVE  file[path[j]].shown >= file[path[j]].kept
  <2>1. path[i] # 0 /\ Name(path[i]) = 0
    BY <1>9, <1>10 DEF Name
  <2>2. ~(file[path[j]].shown < file[path[j]].kept)
    BY <1>4, <1>10, <2>1 DEF StopsShort
  <2>3. path[j] \in 1..Len(file)
    BY <1>1, <1>10
  <2>. QED
    BY <1>1, <2>2, <2>3
<1>11. KnowsItsWay'
  <2>1. 1 \in 1..(keep + 1) /\ Len(<< >>) = 1 - 1 /\ 1..(1 - 1) = {}
    BY <1>1
  <2>2. file[path[0]].whole <= file[path[0]].whole
    BY <1>1, <1>2
  <2>. QED
    BY <1>6, <1>7, <1>8, <1>9, <1>10, <2>1, <2>2 DEF KnowsItsWay
<1>12. KnowsItsFile'
  <2>1. Gone' = Gone
    BY <1>7 DEF Gone
  <2>. QED
    BY <1>5, <1>6, <1>7, <2>1 DEF KnowsItsFile
<1>. QED
  BY <1>5, <1>6, <1>7, <1>11, <1>12 DEF WatchInv

\* A sibling that is not the file the watch has read, and which the walk comes to before
\* that one, is younger.
LEMMA NextIsYounger ==
  ASSUME LogTypeOK, FilesInOrder, KnowsItsFile, KnowsItsWay,
         follow.next \in 1..keep, path[follow.next] # 0,
         follow.at = "screen" \/ Name(path[follow.next]) # follow.first
  PROVE  path[follow.next] > follow.first
<1>1. /\ Len(file) \in Nat /\ keep \in Nat
      /\ \A i \in 0..keep : path[i] \in Nat /\ path[i] <= Len(file)
  BY LogTypes
<1>2. follow.first \in Nat /\ follow.first <= Len(file)
  BY FollowTypes
<1>3. CASE follow.first = 0
  BY <1>1, <1>3
<1>4. CASE follow.first # 0
  <2>1. follow.first \in 1..Len(file) /\ follow.next \in 0..keep
    BY <1>1, <1>2, <1>4
  <2>2. CASE follow.first \in Gone
    BY <2>1, <2>2 DEF FilesInOrder
  <2>3. CASE follow.first \notin Gone
    <3>1. PICK k \in 0..keep : path[k] = follow.first
      BY <2>1, <2>3 DEF Gone
    <3>2. k # 0 /\ follow.at # "screen"
      BY <1>1, <1>2, <1>4, <3>1 DEF KnowsItsWay
    <3>3. k # follow.next
      <4>1. file[follow.first].whole > 0
        BY <1>4 DEF KnowsItsFile
      <4>. QED
        BY <1>4, <3>1, <3>2, <4>1 DEF Name
    <3>4. ~(k < follow.next)
      <4>1. k < follow.next => k \in 1..(follow.next - 1)
        BY <1>1, <3>2
      <4>. QED
        BY <1>2, <3>1, <4>1 DEF KnowsItsWay
    <3>5. follow.next < k
      BY <1>1, <3>3, <3>4
    <3>. QED
      BY <1>4, <2>1, <3>1, <3>5 DEF FilesInOrder
  <2>. QED
    BY <2>2, <2>3
<1>. QED
  BY <1>3, <1>4

LEMMA PassesOn ==
  ASSUME LogTypeOK, FilesInOrder, WatchInv, UNCHANGED writerVars,
         follow.at \in {"screen", "walk"}, ~AtEnd,
         follow.at = "screen" \/ Name(path[follow.next]) # follow.first, Passes
  PROVE  WatchInv'
<1> DEFINE n == follow.next
           piece == [file |-> path[n], from |-> 0, to |-> file[path[n]].whole]
<1>. SUFFICES ASSUME ~torn PROVE WatchInv'
  BY DEF WatchInv, Passes
<1>1. KnowsItsFile /\ KnowsItsWay /\ ~twice
  BY DEF WatchInv
<1>2. /\ path[n] # 0 /\ keep \in Nat /\ n \in Nat /\ n \in 1..keep /\ n \in 0..keep
      /\ follow.found \in Seq(Pieces(Len(file))) /\ Len(follow.found) = n - 1
  BY <1>1, FollowTypes, LogTypes DEF KnowsItsWay, AtEnd
<1>3. path[n] > follow.first
  BY <1>1, <1>2, NextIsYounger
<1>4. piece \in Pieces(Len(file)) /\ path[n] \in 1..Len(file)
  BY <1>2, FoundTyped
<1>5. /\ follow'.at = follow.at /\ follow'.first = follow.first /\ follow'.seen = follow.seen
      /\ follow'.next = n + 1 /\ follow'.live = follow.live /\ follow'.upto = follow.upto
      /\ follow'.found = <<piece>> \o follow.found
  <2>1. follow \in Follows(Len(file))
    BY DEF LogTypeOK, Follows, Pieces
  <2>. HIDE DEF piece
  <2>2. follow' = [follow EXCEPT !.next = n + 1, !.found = <<piece>> \o follow.found]
    BY DEF piece, Passes
  <2>. QED
    BY <2>1, <2>2 DEF Follows
<1>6. UNCHANGED <<keep, path, file, twice, torn>> /\ Gone' = Gone
  BY DEF Gone, writerVars, Passes
<1>7. piece.file = path[n] /\ piece.from = 0 /\ piece.to = file[path[n]].whole
  OBVIOUS
<1>. HIDE DEF piece
<1>8. /\ Len(<<piece>> \o follow.found) = n /\ (<<piece>> \o follow.found)[1] = piece
      /\ \A i \in 1..Len(follow.found) : (<<piece>> \o follow.found)[i + 1] = follow.found[i]
  <2>1. follow.found \in Seq(Pieces(Len(file)))
    BY <1>2
  <2>2. /\ Len(<<piece>> \o follow.found) = Len(follow.found) + 1
        /\ (<<piece>> \o follow.found)[1] = piece
        /\ \A i \in 1..Len(follow.found) : (<<piece>> \o follow.found)[i + 1] = follow.found[i]
    BY <1>4, <2>1, Prefixed
  <2>. QED
    BY <1>2, <2>2
<1>9. ASSUME NEW i \in 1..n
      PROVE  /\ path[i] > follow.first
             /\ LET p == (<<piece>> \o follow.found)[n + 1 - i] IN
                /\ p.file = path[i] /\ p.from = 0
                /\ file[path[i]].kept <= p.to /\ p.to <= file[path[i]].whole
  <2>1. CASE i = n
    <3>0. n + 1 - i = 1
      BY <1>2, <2>1
    <3>1. (<<piece>> \o follow.found)[n + 1 - i] = piece
      BY <1>8, <3>0
    <3>2. file[path[n]].kept <= file[path[n]].whole /\ file[path[n]].whole \in Nat
      BY <1>4, LogTypes DEF FilesInOrder
    <3>. QED
      BY <1>3, <1>7, <2>1, <3>1, <3>2
  <2>2. CASE i # n
    <3>1. i \in 1..(n - 1) /\ n - i \in 1..Len(follow.found) /\ n + 1 - i = (n - i) + 1
      BY <1>2, <2>2
    <3>2. (<<piece>> \o follow.found)[n + 1 - i] = follow.found[n - i]
      BY <1>8, <3>1
    <3>. QED
      BY <1>1, <3>1, <3>2 DEF KnowsItsWay
  <2>. QED
    BY <2>1, <2>2
<1>10. KnowsItsWay'
  <2>1. n + 1 \in 1..(keep + 1) /\ n = (n + 1) - 1
    BY <1>2
  <2> DEFINE q == <<piece>> \o follow.found
  <2>2. follow'.found = q /\ Len(q) = n
    BY <1>5, <1>8
  <2>3. \A i \in 1..n : /\ path[i] > follow.first
                        /\ q[n + 1 - i].file = path[i] /\ q[n + 1 - i].from = 0
                        /\ file[path[i]].kept <= q[n + 1 - i].to
                        /\ q[n + 1 - i].to <= file[path[i]].whole
    BY <1>9
  <2>. HIDE DEF q, n
  <2>4. follow'.next - 1 = n
    BY <1>2, <1>5
  <2>5. ASSUME NEW i \in 1..(follow'.next - 1)
        PROVE  /\ path[i] > follow'.first
               /\ LET p == follow'.found[follow'.next - i] IN
                  /\ p.file = path[i] /\ p.from = 0
                  /\ file[path[i]].kept <= p.to /\ p.to <= file[path[i]].whole
    <3>1. i \in 1..n /\ follow'.next - i = n + 1 - i /\ follow'.first = follow.first
      BY <1>2, <1>5, <2>4
    <3>. QED
      BY <2>2, <2>3, <3>1
  <2>6. /\ follow'.at = "screen" => follow'.first = 0
        /\ IF follow'.live = 0 THEN follow'.first = 0 /\ follow'.upto = 0
           ELSE /\ follow'.live = path[0] /\ follow'.first < follow'.live
                /\ follow'.upto <= file[follow'.live].whole
        /\ follow'.next \in 1..(keep + 1) /\ Len(follow'.found) = follow'.next - 1
    BY <1>1, <1>5, <2>1, <2>2, <2>4 DEF KnowsItsWay
  <2>7. /\ \A i, j \in 1..keep : i < j /\ path[j] # 0 => path[i] # 0
        /\ follow'.at = "walk" /\ follow'.first = 0 => \A i, j \in 1..keep :
             i < j /\ path[j] # 0 /\ file[path[i]].whole = 0 => file[path[j]].shown >= file[path[j]].kept
    BY <1>1, <1>5 DEF KnowsItsWay
  <2>. QED
    BY <1>6, <2>5, <2>6, <2>7 DEF KnowsItsWay
<1>11. KnowsItsFile'
  BY <1>1, <1>5, <1>6 DEF KnowsItsFile
<1>. QED
  BY <1>1, <1>5, <1>6, <1>10, <1>11 DEF WatchInv

\* What the walk has found: the siblings it passed, none of which was shown.
LEMMA FoundIs ==
  ASSUME LogTypeOK, FilesInOrder, KnowsItsFile, KnowsItsWay
  PROVE  /\ keep \in Nat /\ follow.next \in 1..(keep + 1) /\ follow.next \in Nat
         /\ follow.found \in Seq(Pieces(Len(file))) /\ Len(follow.found) = follow.next - 1
         /\ \A k \in 1..Len(follow.found) :
               LET i == follow.next - k IN
               /\ i \in 1..(follow.next - 1) /\ i \in 1..keep /\ path[i] # 0
               /\ follow.found[k].file = path[i] /\ follow.found[k].from = 0
               /\ file[path[i]].shown = 0 /\ follow.found[k].to >= file[path[i]].kept
         /\ \A k, l \in 1..Len(follow.found) :
               k # l => follow.found[k].file # follow.found[l].file
         /\ \A i \in 1..(follow.next - 1) : follow.next - i \in 1..Len(follow.found)
                                            /\ follow.next - (follow.next - i) = i
<1>1. /\ Len(file) \in Nat /\ keep \in Nat
      /\ \A i \in 0..keep : path[i] \in Nat /\ path[i] <= Len(file)
      /\ \A d \in 1..Len(file) : file[d].kept \in Nat
  BY LogTypes
<1>2. follow.first \in Nat /\ follow.next \in Nat /\ follow.found \in Seq(Pieces(Len(file)))
  BY FollowTypes
<1>3. follow.next \in 1..(keep + 1) /\ Len(follow.found) = follow.next - 1
  BY DEF KnowsItsWay
<1>4. ASSUME NEW k \in 1..Len(follow.found), NEW i, i = follow.next - k
      PROVE  /\ i \in 1..(follow.next - 1) /\ i \in 1..keep /\ path[i] # 0
             /\ follow.found[k].file = path[i] /\ follow.found[k].from = 0
             /\ file[path[i]].shown = 0 /\ follow.found[k].to >= file[path[i]].kept
  <2>1. i \in 1..(follow.next - 1) /\ i \in 1..keep /\ i \in 0..keep /\ follow.next - i = k
    BY <1>1, <1>2, <1>3, <1>4
  <2>2. /\ path[i] > follow.first
        /\ follow.found[k].file = path[i] /\ follow.found[k].from = 0
        /\ file[path[i]].kept <= follow.found[k].to
    BY <2>1 DEF KnowsItsWay
  <2>3. path[i] \in 1..Len(file) /\ path[i] # 0
    BY <1>1, <1>2, <2>1, <2>2
  <2>4. path[i] \notin Gone
    BY <2>1 DEF Gone
  <2>5. file[path[i]].shown = 0
    BY <2>2, <2>3, <2>4 DEF KnowsItsFile
  <2>6. follow.found[k].to \in Nat
    BY <1>2, PiecesTyped
  <2>. QED
    BY <1>1, <2>1, <2>2, <2>3, <2>5, <2>6
<1>5. ASSUME NEW k \in 1..Len(follow.found), NEW l \in 1..Len(follow.found), k # l
      PROVE  follow.found[k].file # follow.found[l].file
  <2> DEFINE i == follow.next - k
             j == follow.next - l
  <2>1. i \in 0..keep /\ j \in 0..keep /\ i # j
    BY <1>1, <1>2, <1>3, <1>5
  <2>2. follow.found[k].file = path[i] /\ follow.found[l].file = path[j] /\ path[i] # 0 /\ path[j] # 0
    BY <1>4
  <2>. HIDE DEF i, j
  <2>3. path[i] \in Nat /\ path[j] \in Nat /\ (path[i] > path[j] \/ path[j] > path[i])
    BY <1>1, <2>1, <2>2 DEF FilesInOrder
  <2>. QED
    BY <2>2, <2>3
<1>6. \A i \in 1..(follow.next - 1) : follow.next - i \in 1..Len(follow.found)
                                      /\ follow.next - (follow.next - i) = i
  BY <1>2, <1>3
<1>. QED
  BY <1>1, <1>2, <1>3, <1>4, <1>5, <1>6

\* The walk has come to the end of history.
LEMMA EndsAtTheEnd ==
  ASSUME LogTypeOK, FilesInOrder, WatchInv, ~torn', UNCHANGED writerVars,
         follow.at \in {"screen", "walk"}, AtEnd, WalkEnds(follow.found)
  PROVE  WatchInv'
<1> DEFINE q == follow.found
<1>1. ~torn
  <2>1. follow.found \in Seq(Pieces(Len(file)))
    BY FollowTypes
  <2>. QED
    BY <2>1, WalkEndShown, ShowIs
<1>2. KnowsItsFile /\ KnowsItsWay
  BY <1>1 DEF WatchInv
<1>3. /\ keep \in Nat /\ follow.next \in 1..(keep + 1) /\ follow.next \in Nat
      /\ q \in Seq(Pieces(Len(file)))
      /\ \A k \in 1..Len(q) : LET i == follow.next - k IN
            /\ i \in 1..keep /\ q[k].file = path[i] /\ q[k].from = 0 /\ file[path[i]].shown = 0
            /\ q[k].to >= file[path[i]].kept
      /\ \A k, l \in 1..Len(q) : k # l => q[k].file # q[l].file
      /\ \A i \in 1..(follow.next - 1) : follow.next - i \in 1..Len(q)
                                         /\ follow.next - (follow.next - i) = i
  BY <1>2, FoundIs
<1>4. \A k \in 1..Len(q) : \E i \in 1..keep : q[k].file = path[i]
  BY <1>3
<1>5. \A k \in 1..Len(q) : q[k].from < q[k].to => q[k].from = file[q[k].file].shown
  BY <1>3
<1>6. ASSUME NEW i \in 1..keep, path[i] # 0
      PROVE  \E k \in 1..Len(q) : /\ q[k].file = path[i] /\ q[k].from <= file[path[i]].shown
                                  /\ q[k].to >= file[path[i]].kept
  <2>1. i \in 1..(follow.next - 1)
    <3>1. CASE follow.next > keep
      BY <1>3, <3>1
    <3>2. CASE ~(follow.next > keep) /\ path[follow.next] = 0
      <4>1. follow.next \in 1..keep /\ i # follow.next
        BY <1>3, <1>6, <3>2
      <4>2. ~(follow.next < i)
        BY <1>2, <1>6, <3>2, <4>1 DEF KnowsItsWay
      <4>. QED
        BY <1>3, <4>1, <4>2
    <3>. QED
      BY <3>1, <3>2 DEF AtEnd
  <2> DEFINE k == follow.next - i
  <2>2. k \in 1..Len(q) /\ follow.next - k = i
    BY <1>3, <2>1
  <2>. HIDE DEF k, q
  <2>3. q[k].file = path[i] /\ q[k].from = 0 /\ file[path[i]].shown = 0 /\ q[k].to >= file[path[i]].kept
    BY <1>3, <2>2
  <2>. QED
    BY <2>2, <2>3
<1>7. \A i \in 1..keep : path[i] # 0 =>
         \/ file[path[i]].shown >= file[path[i]].kept
         \/ \E k \in 1..Len(q) : /\ q[k].file = path[i] /\ q[k].from <= file[path[i]].shown
                                 /\ q[k].to >= file[path[i]].kept
  BY <1>6
<1>8. \A k, l \in 1..Len(q) : k # l /\ q[k].from < q[k].to /\ q[l].from < q[l].to
                              => q[k].file # q[l].file
  BY <1>3
<1>9. q \in Seq(Pieces(Len(file))) /\ WalkEnds(q)
  BY <1>3
<1>. HIDE DEF q
<1>. QED
  BY <1>1, <1>4, <1>5, <1>7, <1>8, <1>9, WalkEndKnows

\* The walk has come to the file the watch has read; what is older was shown.
LEMMA EndsAtItsFile ==
  ASSUME LogTypeOK, FilesInOrder, WatchInv, ~torn', UNCHANGED writerVars,
         follow.at = "walk", ~AtEnd, Name(path[follow.next]) = follow.first,
         WalkEnds(<<Own(path[follow.next])>> \o follow.found)
  PROVE  WatchInv'
<1> DEFINE n == follow.next
           own == Own(path[n])
           q == <<own>> \o follow.found
<1>1. n \in Nat /\ keep \in Nat
  BY FollowTypes, LogTypes
<1>2. n \in 0..keep /\ path[n] # 0
  BY <1>1 DEF AtEnd
<1>3. /\ path[n] \in 1..Len(file) /\ file[path[n]].whole \in Nat /\ own \in Pieces(Len(file))
      /\ q \in Seq(Pieces(Len(file)))
  BY <1>2, FoundTyped
<1>4. ~torn
  BY <1>3, WalkEndShown, ShowIs
<1>5. KnowsItsFile /\ KnowsItsWay
  BY <1>4 DEF WatchInv
<1>6. /\ n \in 1..keep /\ follow.found \in Seq(Pieces(Len(file)))
      /\ \A k \in 1..Len(follow.found) : LET i == n - k IN
            /\ i \in 1..(n - 1) /\ i \in 1..keep /\ path[i] # 0
            /\ follow.found[k].file = path[i] /\ follow.found[k].from = 0
            /\ file[path[i]].shown = 0 /\ follow.found[k].to >= file[path[i]].kept
      /\ \A k, l \in 1..Len(follow.found) : k # l => follow.found[k].file # follow.found[l].file
      /\ \A i \in 1..(n - 1) : n - i \in 1..Len(follow.found) /\ n - (n - i) = i
  <2>1. n \in 1..(keep + 1)
    BY <1>5 DEF KnowsItsWay
  <2>2. n \in 1..keep
    BY <1>1, <1>2, <2>1
  <2>. QED
    BY <1>5, <2>2, FoundIs
<1>7. /\ Len(q) = Len(follow.found) + 1 /\ q[1] = own /\ Len(follow.found) \in Nat
      /\ \A k \in 1..Len(follow.found) : q[k + 1] = follow.found[k]
  BY <1>3, <1>6, Prefixed
<1>8. own.file = path[n] /\ own.to = file[path[n]].whole /\ own.from \in Nat
      /\ own.from = IF follow.seen <= file[path[n]].whole THEN follow.seen ELSE file[path[n]].whole
  <2>1. follow.seen \in Nat
    BY FollowTypes
  <2>. QED
    BY <1>3, <2>1 DEF Own
<1>9. /\ file[path[n]].shown \in Nat /\ file[path[n]].kept \in Nat
      /\ file[path[n]].kept <= file[path[n]].whole
  BY <1>3, LogTypes DEF FilesInOrder
<1>. HIDE DEF own, q
<1>10. /\ own.from <= file[path[n]].shown
       /\ own.from < own.to => own.from = file[path[n]].shown
  <2>1. CASE follow.first = 0
    <3>1. file[path[n]].whole = 0
      BY <1>3, <2>1 DEF Name
    <3>2. own.to = 0 /\ own.from = 0
      BY <1>5, <1>8, <2>1, <3>1 DEF KnowsItsFile
    <3>. QED
      BY <1>9, <3>2
  <2>2. CASE follow.first # 0
    <3>1. follow.first = path[n]
      BY <2>2 DEF Name
    <3>2. follow.seen = file[path[n]].shown /\ follow.seen <= file[path[n]].whole
      BY <1>5, <2>2, <3>1 DEF KnowsItsFile
    <3>. QED
      BY <1>8, <1>9, <3>2
  <2>. QED
    BY <2>1, <2>2
<1>11. \A k \in 1..Len(q) : k = 1 \/ (k - 1 \in 1..Len(follow.found) /\ q[k] = follow.found[k - 1])
  <2>. TAKE k \in 1..Len(q)
  <2>1. k # 1 => k - 1 \in 1..Len(follow.found) /\ (k - 1) + 1 = k
    BY <1>7
  <2>. QED
    BY <1>7, <2>1
<1>12. \A k \in 1..Len(follow.found) : \E i \in 1..keep :
          /\ i < n /\ follow.found[k].file = path[i] /\ path[i] # 0 /\ follow.found[k].from = 0
          /\ file[path[i]].shown = 0
  <2>. TAKE k \in 1..Len(follow.found)
  <2> DEFINE i == n - k
  <2>1. /\ i \in 1..(n - 1) /\ i \in 1..keep /\ path[i] # 0
        /\ follow.found[k].file = path[i] /\ follow.found[k].from = 0 /\ file[path[i]].shown = 0
    BY <1>6
  <2>2. i < n
    BY <1>1, <2>1
  <2>. HIDE DEF i
  <2>. QED
    BY <2>1, <2>2
<1>13. \A k \in 1..Len(q) : \E i \in 1..keep : q[k].file = path[i]
  <2>. TAKE k \in 1..Len(q)
  <2>1. CASE k = 1
    BY <1>6, <1>7, <1>8, <2>1
  <2>2. CASE k - 1 \in 1..Len(follow.found) /\ q[k] = follow.found[k - 1]
    <3>1. PICK i \in 1..keep : follow.found[k - 1].file = path[i]
      BY <1>12, <2>2
    <3>. QED
      BY <2>2, <3>1
  <2>. QED
    BY <1>11, <2>1, <2>2
<1>14. \A k \in 1..Len(q) : q[k].from < q[k].to => q[k].from = file[q[k].file].shown
  <2>. TAKE k \in 1..Len(q)
  <2>1. CASE k = 1
    BY <1>7, <1>8, <1>10, <2>1
  <2>2. CASE k - 1 \in 1..Len(follow.found) /\ q[k] = follow.found[k - 1]
    BY <1>12, <2>2
  <2>. QED
    BY <1>11, <2>1, <2>2
<1>15. \A k \in 1..Len(follow.found) : follow.found[k].file # path[n]
  <2>. TAKE k \in 1..Len(follow.found)
  <2>1. PICK i \in 1..keep : i < n /\ follow.found[k].file = path[i] /\ path[i] # 0
    BY <1>12
  <2>2. i \in 0..keep /\ path[n] # 0
    BY <1>1, <1>2
  <2>3. path[i] > path[n] /\ path[i] \in Nat /\ path[n] \in Nat
    BY <1>2, <2>1, <2>2, LogTypes DEF FilesInOrder
  <2>. QED
    BY <2>1, <2>3
<1>16. ASSUME NEW k \in 1..Len(q), NEW l \in 1..Len(q), k # l PROVE q[k].file # q[l].file
  <2>1. CASE k = 1
    BY <1>7, <1>8, <1>11, <1>15, <1>16, <2>1
  <2>2. CASE l = 1
    BY <1>7, <1>8, <1>11, <1>15, <1>16, <2>2
  <2>3. CASE k # 1 /\ l # 1
    <3> DEFINE a == k - 1
               b == l - 1
    <3>1. a # b
      BY <1>7, <1>16
    <3>2. /\ a \in 1..Len(follow.found) /\ q[k] = follow.found[a]
          /\ b \in 1..Len(follow.found) /\ q[l] = follow.found[b]
      BY <1>11, <2>3
    <3>. HIDE DEF a, b
    <3>3. follow.found[a].file # follow.found[b].file
      BY <1>6, <3>1, <3>2
    <3>. QED
      BY <3>2, <3>3
  <2>. QED
    BY <2>1, <2>2, <2>3
<1>17. ASSUME NEW i \in 1..keep, path[i] # 0
       PROVE  \/ file[path[i]].shown >= file[path[i]].kept
              \/ \E k \in 1..Len(q) : /\ q[k].file = path[i] /\ q[k].from <= file[path[i]].shown
                                      /\ q[k].to >= file[path[i]].kept
  <2>1. CASE i < n
    <3> DEFINE k == n - i
    <3>1. k \in 1..Len(follow.found) /\ n - k = i
      BY <1>1, <1>6, <2>1
    <3>. HIDE DEF k
    <3>2. /\ follow.found[k].file = path[i] /\ follow.found[k].from = 0
          /\ file[path[i]].shown = 0 /\ follow.found[k].to >= file[path[i]].kept
      BY <1>6, <3>1
    <3>3. k + 1 \in 1..Len(q) /\ q[k + 1] = follow.found[k]
      BY <1>7, <3>1
    <3>. QED
      BY <3>2, <3>3
  <2>2. CASE i = n
    <3>1. 1 \in 1..Len(q)
      BY <1>7
    <3>2. own.to >= file[path[n]].kept
      BY <1>3, <1>8, <1>9
    <3>. QED
      BY <1>7, <1>8, <1>10, <2>2, <3>1, <3>2
  <2>3. CASE i > n
    <3>1. i \in 0..keep /\ path[i] \in Nat /\ path[i] \in 1..Len(file) /\ Len(file) \in Nat
      BY <1>1, <1>17, LogTypes
    <3>2. CASE follow.first = 0
      <4>1. file[path[n]].whole = 0
        BY <1>3, <3>2 DEF Name
      <4>. QED
        BY <1>5, <1>6, <1>17, <2>3, <3>2, <4>1 DEF KnowsItsWay
    <3>3. CASE follow.first # 0
      <4>1. follow.first = path[n]
        BY <3>3 DEF Name
      <4>2. path[i] < path[n]
        BY <1>2, <1>3, <1>17, <2>3, <3>1 DEF FilesInOrder
      <4>. QED
        BY <1>5, <3>1, <4>1, <4>2 DEF KnowsItsFile
    <3>. QED
      BY <3>2, <3>3
  <2>. QED
    BY <1>1, <2>1, <2>2, <2>3
<1>18. WalkEnds(q)
  BY DEF q, own
<1>19. \A i \in 1..keep : path[i] # 0 =>
          \/ file[path[i]].shown >= file[path[i]].kept
          \/ \E k \in 1..Len(q) : /\ q[k].file = path[i] /\ q[k].from <= file[path[i]].shown
                                  /\ q[k].to >= file[path[i]].kept
  BY <1>17
<1>20. \A k, l \in 1..Len(q) : k # l /\ q[k].from < q[k].to /\ q[l].from < q[l].to
                               => q[k].file # q[l].file
  BY <1>16
<1>. QED
  BY <1>3, <1>4, <1>13, <1>14, <1>18, <1>19, <1>20, WalkEndKnows

\* Whatever the watch reads next.
LEMMA WatchStepShows ==
  ASSUME LogTypeOK, FilesInOrder, NoGap, WalkBegins, WatchInv,
         WatchStarts \/ ScreenSibling \/ PollLive \/ PollSibling
  PROVE  FilesInOrder' /\ NoGap' /\ WalkBegins' /\ WatchInv'
<1>1. /\ Len(file) \in Nat /\ keep \in Nat
      /\ \A i \in 0..keep : path[i] \in Nat /\ path[i] <= Len(file)
      /\ \A d \in 1..Len(file) : file[d].kept \in Nat /\ file[d].whole \in Nat
  BY LogTypes
<1>2. follow \in Follows(Len(file)) /\ follow.next \in Nat /\ follow.found \in Seq(Pieces(Len(file)))
  BY FollowTypes
<1>3. UNCHANGED writerVars
  BY WatchStartsIs, PollLiveIs, SiblingIs
<1>4. ASSUME NEW q \in Seq(Pieces(Len(file))), WalkEnds(q)
      PROVE  /\ \E pieces \in Seq(Pieces(Len(file))) : Show(pieces)
             /\ WalkBegins'
  BY <1>4, WalkEndShown DEF WalkBegins
<1>5. ~AtEnd => <<Own(path[follow.next])>> \o follow.found \in Seq(Pieces(Len(file)))
  <2>1. ~AtEnd => follow.next \in 0..keep /\ path[follow.next] # 0
    BY <1>1, <1>2 DEF AtEnd
  <2>. QED
    BY <2>1, FoundTyped
<1>6. \/ WatchStarts \/ file' = file
      \/ \E pieces \in Seq(Pieces(Len(file))) : Show(pieces)
  <2>1. CASE ScreenSibling \/ PollSibling
    BY <1>2, <1>4, <1>5, <2>1, SiblingIs DEF Passes
  <2>2. CASE PollLive
    <3>1. CASE WalksOn
      BY <3>1 DEF WalksOn
    <3>2. CASE PollsOn /\ path[0] # 0
      <4>1. path[0] \in 1..Len(file) /\ follow.seen \in Nat
        BY <1>1, <3>2, FollowTypes
      <4>2. [file |-> path[0], from |-> follow.seen, to |-> file[path[0]].whole] \in Pieces(Len(file))
        BY <1>1, <4>1 DEF Pieces
      <4>3. <<[file |-> path[0], from |-> follow.seen, to |-> file[path[0]].whole]>>
              \in Seq(Pieces(Len(file)))
        BY <4>2
      <4>. QED
        BY <3>2, <4>3 DEF PollsOn
    <3>. QED
      BY <2>2, <3>1, <3>2, PollLiveIs
  <2>. QED
    BY <2>1, <2>2
<1>7. /\ Len(file') = Len(file)
      /\ \A d \in 1..Len(file) : file'[d].kept = file[d].kept /\ file'[d].whole = file[d].whole
  BY <1>6, WatchStartsIs, ShowTyped
<1>8. FilesInOrder' /\ NoGap'
  <2>1. \A d \in 1..Len(file) : file'[d].kept <= file'[d].whole
    BY <1>7 DEF FilesInOrder
  <2>2. UNCHANGED <<keep, path, deaths, holder, step>>
    BY <1>3 DEF writerVars
  <2>. QED
    BY <1>7, <2>1, <2>2, PathsStay
<1>9. WalkBegins'
  <2>1. CASE WatchStarts
    BY <2>1, WatchStartsIs DEF WalkBegins, Off
  <2>2. CASE PollLive
    BY <1>2, <2>2, PollLiveIs DEF WalkBegins, PollsOn, WalksOn, Follows
  <2>3. CASE ScreenSibling \/ PollSibling
    <3>1. CASE Passes
      <4>1. follow'.at = follow.at /\ follow'.live = follow.live
        BY <1>2, <3>1 DEF Passes, Follows
      <4>. QED
        BY <2>3, <4>1, SiblingIs DEF WalkBegins
    <3>. QED
      BY <1>2, <1>4, <1>5, <2>3, <3>1, SiblingIs
  <2>. QED
    BY <2>1, <2>2, <2>3
<1>10. ASSUME ~torn' PROVE WatchInv'
  <2>1. CASE WatchStarts
    BY <1>10, <2>1, WatchStartsKnows
  <2>2. CASE PollLive
    BY <1>3, <1>10, <2>2, PollLiveIs, PollsOnKnows, WalksOnKnows
  <2>3. CASE ScreenSibling \/ PollSibling
    BY <1>3, <1>10, <2>3, SiblingIs, EndsAtTheEnd, EndsAtItsFile, PassesOn
  <2>. QED
    BY <2>1, <2>2, <2>3
<1>11. WatchInv'
  BY <1>10 DEF WatchInv
<1>. QED
  BY <1>8, <1>9, <1>11

LogWatchInv == LogTypeOK /\ FilesInOrder /\ NoGap /\ WalkBegins /\ WatchInv

LEMMA LogInitWatched == LogInit => LogWatchInv
<1>. SUFFICES ASSUME LogInit PROVE LogWatchInv
  OBVIOUS
<1>1. LogTypeOK
  BY LogInitTyped
<1>2. /\ file = << >> /\ Len(file) = 0 /\ (\A i \in 0..keep : path[i] = 0) /\ keep \in Nat
      /\ follow.at = "off" /\ follow.first = 0 /\ ~twice
  BY LogConstants DEF LogInit, Off
<1>3. FilesInOrder /\ NoGap
  BY <1>2 DEF FilesInOrder, NoGap, Gone
<1>4. WalkBegins /\ WatchInv
  BY <1>2 DEF WalkBegins, WatchInv, KnowsNothing
<1>. QED
  BY <1>1, <1>3, <1>4 DEF LogWatchInv

LEMMA LogNextWatched ==
  ASSUME LogInv, LogWatchInv, [LogNext]_logVars
  PROVE  LogWatchInv'
<1>. USE DEF LogWatchInv
<1>1. CASE UNCHANGED logVars
  <2>1. UNCHANGED <<keep, path, wpc, fd, holder, step, begun, deaths, file, follow, twice, torn>>
    BY <1>1 DEF logVars, writerVars
  <2>2. LogTypeOK'
    BY <2>1 DEF LogTypeOK
  <2>3. FilesInOrder' /\ NoGap' /\ WalkBegins'
    BY <2>1 DEF FilesInOrder, NoGap, WalkBegins, Gone, Rotating
  <2>4. WatchInv'
    BY <2>1 DEF WatchInv, KnowsNothing, KnowsItsFile, KnowsItsWay, Gone
  <2>. QED
    BY <2>2, <2>3, <2>4
<1>2. ASSUME NEW w \in Writers,
             \/ Look(w) \/ Lock(w) \/ Truncate(w) \/ RemoveOldest(w) \/ Shift(w)
             \/ Open(w) \/ Text(w) \/ Newline(w) \/ WriterDies(w)
      PROVE  LogWatchInv'
  <2>1. LogTypeOK'
    BY <1>2, LogWriterTyped
  <2>2. WalkBegins'
    <3>1. follow' = follow
      BY <1>2 DEF Look, Lock, Truncate, RemoveOldest, Shift, Open, Text, Newline, WriterDies, WatchRests
    <3>. QED
      BY <3>1 DEF WalkBegins
  <2>3. FilesInOrder' /\ NoGap' /\ WatchInv'
    BY <1>2, QuietWriters, OpenShows, TruncateShows, RemoveOldestShows, ShiftShows
  <2>. QED
    BY <2>1, <2>2, <2>3
<1>3. CASE WatchStarts \/ ScreenSibling \/ PollLive \/ PollSibling
  BY <1>3, LogWatchTyped, WatchStepShows
<1>. QED
  BY <1>1, <1>2, <1>3 DEF LogNext

\* The watch's invariant (log.rs, Follow): what is older than the file it has read has
\* been shown, what is younger has not, of that file it knows how much; and the first
\* screen and a walk have found every sibling they passed. Unless torn: see ShownOnce.
THEOREM WatchInvariant == LogSpec => []LogWatchInv
<1>1. LogInv /\ LogWatchInv /\ [LogNext]_logVars => LogWatchInv'
  BY LogNextWatched
<1>. QED
  BY <1>1, LogInitWatched, LogInvariant, PTL DEF LogSpec

\* The log keeps its types, whoever writes, rotates, dies or watches.
THEOREM LogTypeCorrect == LogSpec => []LogTypeOK
<1>1. LogWatchInv => LogTypeOK
  BY DEF LogWatchInv
<1>. QED
  BY <1>1, WatchInvariant, PTL

\* What is rotated was full and stays as long as it should, and the watch shows every
\* line that was whole when its file was rotated away, once: for any number of writers,
\* files, lines and deaths. A start or a poll whose reads overlap a rotation tears it, and
\* what else ShownOnce does not promise.
THEOREM LinesKept == LogSpec => []LinesAreKept
<1>1. LogWatchInv => ShownOnce
  <2>. SUFFICES ASSUME LogWatchInv, ~torn PROVE ShownOnce
    BY DEF ShownOnce
  <2>1. ~twice /\ follow.first \in Nat /\ follow.first <= Len(file) /\ Len(file) \in Nat
    BY FollowTypes, LogTypes DEF LogWatchInv, WatchInv
  <2>2. \A d \in 1..follow.first - 1 : d \in 1..Len(file) /\ d < follow.first
    BY <2>1
  <2>3. follow.at = "off" => follow.first = 0
    BY DEF LogWatchInv, WatchInv, KnowsNothing
  <2>4. follow.at # "off" => KnowsItsFile
    BY DEF LogWatchInv, WatchInv
  <2>5. \A d \in 1..follow.first - 1 : file[d].shown >= file[d].kept
    <3>1. CASE follow.at = "off"
      BY <2>3, <3>1
    <3>2. CASE follow.at # "off"
      BY <2>2, <2>4, <3>2 DEF KnowsItsFile
    <3>. QED
      BY <3>1, <3>2
  <2>. QED
    BY <2>1, <2>5 DEF ShownOnce
<1>. QED
  BY <1>1, WatchInvariant, HistoryIsKept, PTL DEF LinesAreKept

-----------------------------------------------------------------------------
(* The proxy: what its cache returns, and the usage row of every request.    *)

(* An entry holds the whole 2xx answer of a recorded request, under that    *)
(* request's prompt.                                                        *)
Entry(e) ==
  /\ e.of \in Requests /\ e.of \in good /\ e.of \in whole /\ e.of \in noted
  /\ ask[e.of].eligible
  /\ e.scope = ask[e.of].scope /\ e.text = ask[e.of].text

OneEach == \A e1, e2 \in cache : SamePrompt(e1, e2) => e1 = e2

Served(r, h) ==
  LET q == h.entry.of IN
  /\ ask[q].scope = ask[r].scope /\ ask[q].text \in Similar[ask[r].text]
  /\ ask[q].eligible /\ q \in good /\ q \in whole /\ q \in noted
  /\ h.at - h.entry.at < Ttl

(* What the stage of a request says of it.                                  *)
Staged(r) ==
  /\ stage[r] \in {"new", "look", "send"} => r \notin good /\ r \notin whole
  /\ stage[r] = "new" => r \notin noted
  /\ stage[r] \in {"fill", "usage"} => r \in noted
  /\ stage[r] # "done" => usage[r] = 0
  /\ usage[r] <= 1
  /\ r \in noted /\ r \notin excused /\ stage[r] = "done" => usage[r] = 1

Warm(r) ==
  /\ r \in good /\ r \in whole /\ ask[r].eligible
  /\ stage[r] = "usage" \/ usage[r] = 1

Cached(r) == \E e \in cache : SamePrompt(e, ask[r])

ProxyInv ==
  /\ ProxyTypeOK
  /\ \A e \in cache : Entry(e)
  /\ OneEach
  /\ \A r \in Requests : \A h \in served[r] : Served(r, h)
  /\ \A r \in Requests : Staged(r)
  /\ restarts = 0 /\ now < Ttl => \A r \in Requests : Warm(r) => Cached(r)

-----------------------------------------------------------------------------
LEMMA ProxyInitInv == ProxyInit => ProxyInv
BY ProxyConstants DEF ProxyInit, ProxyInv, ProxyTypeOK, OneEach, Staged, Warm

(* A hit is live, of the same scope and of the same or a similar text.      *)
LEMMA HitsAreSimilar ==
  ASSUME NEW a \in Asks, NEW e \in Hits(a)
  PROVE  e \in cache /\ Live(e) /\ e.scope = a.scope /\ e.text \in Similar[a.text]
BY ProxyConstants DEF Hits, SamePrompt

(* An entry stays what it is while the requests behind it only grow.        *)
LEMMA EntryStays ==
  ASSUME ask' = ask, good \subseteq good', whole \subseteq whole', noted \subseteq noted'
  PROVE  /\ \A e : Entry(e) => Entry(e)'
         /\ \A r, h : Served(r, h) => Served(r, h)'
BY DEF Entry, Served

(* A step of one request that leaves the cache and what it served alone.    *)
LEMMA CacheUntouched ==
  ASSUME ProxyInv, ProxyTypeOK', UNCHANGED <<ask, cache, served, now, restarts>>,
         good \subseteq good', whole \subseteq whole', noted \subseteq noted',
         \A r \in Requests : Staged(r)',
         \A r \in Requests : Warm(r)' => Warm(r)
  PROVE  ProxyInv'
<1>1. /\ \A e \in cache' : Entry(e)'
      /\ \A r \in Requests : \A h \in served'[r] : Served(r, h)'
  BY EntryStays DEF ProxyInv
<1>2. OneEach'
  BY DEF ProxyInv, OneEach, SamePrompt
<1>3. restarts' = 0 /\ now' < Ttl => \A r \in Requests : Warm(r)' => Cached(r)'
  BY DEF ProxyInv, Cached, SamePrompt
<1>. QED
  BY <1>1, <1>2, <1>3 DEF ProxyInv

(* record_usage writes at most one row for a recorded request that has none. *)
LEMMA UsageRowOnce ==
  ASSUME usage \in [Requests -> Nat], NEW r \in Requests, UsageRow(r), usage[r] = 0
  PROVE  /\ usage' \in [Requests -> Nat]
         /\ \A q \in Requests : q # r => usage'[q] = usage[q]
         /\ usage'[r] \in {0, 1}
         /\ excused \subseteq excused' /\ excused' \subseteq excused \cup {r}
         /\ r \in noted /\ r \notin excused' => usage'[r] = 1
BY DEF UsageRow

-----------------------------------------------------------------------------
LEMMA ProxyNextInv == ProxyInv /\ [ProxyNext]_proxyVars => ProxyInv'
<1>. SUFFICES ASSUME ProxyInv, [ProxyNext]_proxyVars PROVE ProxyInv'
  OBVIOUS
<1>. USE ProxyConstants
<1>t. ProxyTypeOK /\ \A q \in Requests : Staged(q)
  BY DEF ProxyInv
<1>1. ASSUME NEW r \in Requests, Shape(r) PROVE ProxyInv'
  <2>1. ProxyTypeOK'
    BY <1>1, <1>t DEF Shape, Record, Stage, ProxyTypeOK
  <2>2. \A q \in Requests : Staged(q)'
    BY <1>1, <1>t DEF Shape, Record, Stage, ProxyTypeOK, Staged
  <2>3. \A q \in Requests : Warm(q)' => Warm(q)
    BY <1>1, <1>t DEF Shape, Record, Stage, ProxyTypeOK, Warm
  <2>. QED
    BY <1>1, <2>1, <2>2, <2>3, CacheUntouched DEF Shape, Record
<1>2. ASSUME NEW r \in Requests, LookUp(r) PROVE ProxyInv'
  <2>1. CASE UNCHANGED <<served, usage, excused>> /\ Stage(r, "send")
    <3>1. ProxyTypeOK'
      BY <1>2, <1>t, <2>1 DEF LookUp, Stage, ProxyTypeOK
    <3>2. \A q \in Requests : Staged(q)' /\ (Warm(q)' => Warm(q))
      BY <1>2, <1>t, <2>1 DEF LookUp, Stage, ProxyTypeOK, Staged, Warm
    <3>. QED
      BY <1>2, <2>1, <3>1, <3>2, CacheUntouched DEF LookUp
  <2>2. ASSUME NEW e \in Hits(ask[r]), CacheResponse(r, e) PROVE ProxyInv'
    <3>. DEFINE hit == [entry |-> e, at |-> now]
    <3>0. /\ ask[r] \in Asks /\ stage[r] = "look" /\ usage[r] = 0
          /\ UNCHANGED <<ask, noted, good, whole, cache, now, restarts>>
      BY <1>2, <1>t DEF LookUp, ProxyTypeOK, Staged
    <3>1. e \in cache /\ Live(e) /\ e.scope = ask[r].scope /\ e.text \in Similar[ask[r].text]
      BY <3>0, HitsAreSimilar
    <3>2. /\ usage' \in [Requests -> Nat]
          /\ \A q \in Requests : q # r => usage'[q] = usage[q]
          /\ usage'[r] \in {0, 1}
          /\ excused \subseteq excused' /\ excused' \subseteq excused \cup {r}
          /\ r \in noted /\ r \notin excused' => usage'[r] = 1
      BY <1>t, <2>2, <3>0, UsageRowOnce DEF CacheResponse, ProxyTypeOK
    <3>3. \A q \in Requests : \A h \in served'[q] : h \in served[q] \/ (q = r /\ h = hit)
      BY <2>2, <1>t DEF CacheResponse, ProxyTypeOK
    <3>4. Served(r, hit)
      BY <3>1 DEF ProxyInv, Entry, Served, Live
    <3>5. ProxyTypeOK'
      <4>1. \A q \in Requests : \A h \in served'[q] : h.entry.of \in Requests /\ h.at \in 0..now
        BY <3>1, <3>3, <1>t DEF ProxyTypeOK
      <4>. QED
        BY <4>1, <2>2, <3>0, <3>2, <1>t DEF CacheResponse, Stage, ProxyTypeOK
    <3>6. \A q \in Requests : \A h \in served'[q] : Served(q, h)'
      BY <3>0, <3>3, <3>4, EntryStays DEF ProxyInv
    <3>7. \A e1 \in cache' : Entry(e1)'
      BY <3>0, EntryStays DEF ProxyInv
    <3>8. OneEach'
      BY <3>0 DEF ProxyInv, OneEach, SamePrompt
    <3>9. \A q \in Requests : Staged(q)' /\ (Warm(q)' => Warm(q))
      BY <1>t, <2>2, <3>0, <3>2 DEF CacheResponse, Stage, ProxyTypeOK, Staged, Warm
    <3>10. restarts' = 0 /\ now' < Ttl => \A q \in Requests : Warm(q)' => Cached(q)'
      BY <3>0, <3>9 DEF ProxyInv, Cached, SamePrompt
    <3>. QED
      BY <3>5, <3>6, <3>7, <3>8, <3>9, <3>10 DEF ProxyInv
  <2>. QED
    BY <1>2, <2>1, <2>2 DEF LookUp
<1>3. ASSUME NEW r \in Requests, NotSent(r) PROVE ProxyInv'
  <2>1. ProxyTypeOK' /\ \A q \in Requests : Staged(q)' /\ (Warm(q)' => Warm(q))
    BY <1>3, <1>t DEF NotSent, Stage, ProxyTypeOK, Staged, Warm
  <2>. QED
    BY <1>3, <2>1, CacheUntouched DEF NotSent
<1>4. ASSUME NEW r \in Requests, SendFails(r) PROVE ProxyInv'
  <2>1. /\ usage' \in [Requests -> Nat]
        /\ \A q \in Requests : q # r => usage'[q] = usage[q]
        /\ usage'[r] \in {0, 1}
        /\ excused \subseteq excused' /\ excused' \subseteq excused \cup {r}
        /\ r \in noted /\ r \notin excused' => usage'[r] = 1
    BY <1>t, <1>4, UsageRowOnce DEF SendFails, ProxyTypeOK, Staged
  <2>2. ProxyTypeOK' /\ \A q \in Requests : Staged(q)' /\ (Warm(q)' => Warm(q))
    BY <1>4, <1>t, <2>1 DEF SendFails, Stage, ProxyTypeOK, Staged, Warm
  <2>. QED
    BY <1>4, <2>2, CacheUntouched DEF SendFails
<1>5. ASSUME NEW r \in Requests, Answered(r) PROVE ProxyInv'
  <2>1. ProxyTypeOK' /\ \A q \in Requests : Staged(q)' /\ (Warm(q)' => Warm(q))
    BY <1>5, <1>t DEF Answered, Stage, ProxyTypeOK, Staged, Warm
  <2>. QED
    BY <1>5, <2>1, CacheUntouched DEF Answered
<1>6. ASSUME NEW r \in Requests, StreamEnds(r) PROVE ProxyInv'
  <2>1. ProxyTypeOK' /\ \A q \in Requests : Staged(q)' /\ (Warm(q)' => Warm(q))
    BY <1>6, <1>t DEF StreamEnds, Stage, ProxyTypeOK, Staged, Warm
  <2>. QED
    BY <1>6, <2>1, CacheUntouched DEF StreamEnds
<1>7. ASSUME NEW r \in Requests, Fill(r) PROVE ProxyInv'
  <2>. DEFINE new == [scope |-> ask[r].scope, text |-> ask[r].text, of |-> r, at |-> now]
              kept == {e \in cache : Live(e) /\ ~SamePrompt(e, ask[r])}
  <2>0. UNCHANGED <<ask, noted, good, whole, served, usage, excused, now, restarts>>
    BY <1>7 DEF Fill
  <2>1. \A q \in Requests : Staged(q)'
    BY <1>7, <1>t DEF Fill, Stage, ProxyTypeOK, Staged
  <2>2. \A q \in Requests : \A h \in served'[q] : Served(q, h)'
    BY <2>0, EntryStays DEF ProxyInv
  <2>3. CASE ask[r].eligible /\ r \in whole \cap good
    <3>1. cache' = kept \cup {new} /\ r \in noted
      BY <1>7, <1>t, <2>3 DEF Fill, Staged
    <3>2. ProxyTypeOK'
      BY <1>7, <1>t, <2>0, <3>1 DEF Fill, Stage, ProxyTypeOK
    <3>3. \A e \in cache' : Entry(e)'
      <4>1. Entry(new)
        BY <2>3, <3>1 DEF Entry
      <4>. QED
        BY <2>0, <3>1, <4>1, EntryStays DEF ProxyInv
    <3>4. OneEach'
      BY <3>1 DEF ProxyInv, OneEach, SamePrompt
    <3>5. restarts' = 0 /\ now' < Ttl => \A q \in Requests : Warm(q)' => Cached(q)'
      <4>. SUFFICES ASSUME restarts' = 0, now' < Ttl, NEW q \in Requests, Warm(q)'
                    PROVE  Cached(q)'
        OBVIOUS
      <4>0. restarts = 0 /\ now < Ttl
        BY <2>0
      <4>1. CASE SamePrompt(ask[r], ask[q])
        <5>1. new \in cache' /\ new.scope = ask[r].scope /\ new.text = ask[r].text
          BY <3>1
        <5>2. ask' = ask
          BY <2>0
        <5>. QED
          BY <4>1, <5>1, <5>2 DEF Cached, SamePrompt
      <4>2. CASE ~SamePrompt(ask[r], ask[q])
        <5>1. Warm(q)
          BY <1>7, <1>t, <2>0, <4>2 DEF Fill, Stage, ProxyTypeOK, Warm, SamePrompt
        <5>2. PICK e \in cache : SamePrompt(e, ask[q])
          BY <4>0, <5>1 DEF ProxyInv, Cached
        <5>3. Live(e)
          BY <1>t, <4>0 DEF Live, ProxyTypeOK
        <5>4. e \in kept
          BY <4>2, <5>2, <5>3 DEF SamePrompt
        <5>. QED
          BY <2>0, <3>1, <5>2, <5>4 DEF Cached, SamePrompt
      <4>. QED
        BY <4>1, <4>2
    <3>. QED
      BY <2>1, <2>2, <3>2, <3>3, <3>4, <3>5 DEF ProxyInv
  <2>4. CASE ~(ask[r].eligible /\ r \in whole \cap good)
    <3>1. cache' = cache
      BY <1>7, <2>4 DEF Fill
    <3>2. ProxyTypeOK' /\ \A q \in Requests : Warm(q)' => Warm(q)
      BY <1>7, <1>t, <2>0, <2>4, <3>1 DEF Fill, Stage, ProxyTypeOK, Warm
    <3>. QED
      BY <2>0, <2>1, <3>1, <3>2, CacheUntouched
  <2>. QED
    BY <2>3, <2>4
<1>8. ASSUME NEW r \in Requests, Finish(r) PROVE ProxyInv'
  <2>1. /\ usage' \in [Requests -> Nat]
        /\ \A q \in Requests : q # r => usage'[q] = usage[q]
        /\ usage'[r] \in {0, 1}
        /\ excused \subseteq excused' /\ excused' \subseteq excused \cup {r}
        /\ r \in noted /\ r \notin excused' => usage'[r] = 1
    BY <1>t, <1>8, UsageRowOnce DEF Finish, ProxyTypeOK, Staged
  <2>2. ProxyTypeOK' /\ \A q \in Requests : Staged(q)' /\ (Warm(q)' => Warm(q))
    BY <1>8, <1>t, <2>1 DEF Finish, Stage, ProxyTypeOK, Staged, Warm
  <2>. QED
    BY <1>8, <2>2, CacheUntouched DEF Finish
<1>9. CASE Tick
  <2>0. now' = now + 1 /\ now \in Nat /\ Ttl \in Nat
        /\ UNCHANGED <<ask, stage, noted, good, whole, cache, served, usage, excused, restarts>>
    BY <1>9, <1>t DEF Tick, ProxyTypeOK
  <2>1. ProxyTypeOK'
    BY <1>9, <1>t DEF Tick, ProxyTypeOK
  <2>2. /\ \A e \in cache' : Entry(e)'
        /\ \A q \in Requests : \A h \in served'[q] : Served(q, h)'
    BY <2>0, EntryStays DEF ProxyInv
  <2>3. OneEach' /\ \A q \in Requests : Staged(q)' /\ (Warm(q)' => Warm(q)) /\ (Cached(q) => Cached(q)')
    BY <2>0, <1>t DEF ProxyInv, OneEach, Staged, Warm, Cached, SamePrompt
  <2>. QED
    BY <2>0, <2>1, <2>2, <2>3 DEF ProxyInv
<1>10. CASE Restart
  <2>0. /\ cache' = {} /\ restarts \in Nat /\ restarts' = restarts + 1 /\ excused \subseteq excused'
        /\ UNCHANGED <<ask, noted, good, whole, served, usage, now>>
    BY <1>10, <1>t DEF Restart, ProxyTypeOK
  <2>1. /\ ProxyTypeOK'
        /\ \A q \in Requests : Staged(q)'
    BY <1>10, <1>t DEF Restart, ProxyTypeOK, Staged
  <2>2. \A q \in Requests : \A h \in served'[q] : Served(q, h)'
    BY <2>0, EntryStays DEF ProxyInv
  <2>. QED
    BY <2>0, <2>1, <2>2 DEF ProxyInv, OneEach
<1>11. CASE UNCHANGED proxyVars
  BY <1>11 DEF proxyVars, ProxyInv, ProxyTypeOK, Entry, OneEach, SamePrompt, Served, Staged,
               Warm, Cached
<1>. QED
  BY <1>1, <1>2, <1>3, <1>4, <1>5, <1>6, <1>7, <1>8, <1>9, <1>10, <1>11 DEF ProxyNext

-----------------------------------------------------------------------------
(* ProxyInv holds in every reachable state (proxy/mod.rs, semantic_cache.rs). *)
THEOREM ProxyInvariant == ProxySpec => []ProxyInv
BY ProxyInitInv, ProxyNextInv, PTL DEF ProxySpec

(* A cached answer is a whole 2xx answer to the same caller's same or similar *)
(* question, and not older than ttl_s (Cache::lookup, Cache::store).          *)
THEOREM AnswersAreOwn == ProxySpec => []HitIsOwn
<1>1. ProxyInv => HitIsOwn
  BY DEF ProxyInv, OneEach, Served, HitIsOwn
<1>. QED
  BY <1>1, ProxyInvariant, PTL

(* Every recorded request that is over has its usage row, once, and a visible *)
(* row implies a warm cache (proxy/mod.rs, finish and record_usage).          *)
THEOREM OneUsageRow == ProxySpec => []UsageOnce
<1>1. ProxyInv => UsageOnce
  BY DEF ProxyInv, ProxyTypeOK, Staged, Warm, Cached, UsageOnce
<1>. QED
  BY <1>1, ProxyInvariant, PTL

-----------------------------------------------------------------------------
(* The links of projects.                                                    *)

\* The rows say what the user said, and a pair of projects has one row.
WordInv ==
  /\ DOMAIN link = {"manual", "auto", "removed"} /\ DOMAIN word = {"made", "cut"}
  /\ word.made \subseteq link.manual /\ word.cut \subseteq link.removed
  /\ link.manual \cap link.auto = {} /\ link.removed \cap Active = {}

Shaped(r) == {"at", "auto"} \subseteq DOMAIN r

Walking(w) == walk[w].at # "rest"

\* A walk that is the only one has counted every project references have added.
CapInv ==
  /\ \A w \in Walkers : Shaped(walk[w])
  /\ IsFiniteSet(auto)
  /\ ~overlap => /\ Cardinality(auto) <= MaxAuto
                 /\ \A w \in Walkers : Walking(w) =>
                       /\ walk[w].auto \in Nat /\ Cardinality(auto) <= walk[w].auto
                       /\ \A v \in Walkers : Walking(v) => v = w

-----------------------------------------------------------------------------
LEMMA RestingShaped == Shaped(Resting) /\ Resting.at = "rest"
BY DEF Shaped, Resting

LEMMA DisturbedShaped ==
  ASSUME NEW r, Shaped(r)
  PROVE  /\ Shaped(Disturbed(r)) /\ (Disturbed(r).at = "rest" <=> r.at = "rest")
         /\ r.at # "rest" => Disturbed(r).auto = r.auto
<1>1. CASE r.at = "rest"
  BY <1>1, RestingShaped DEF Disturbed
<1>2. CASE r.at # "rest"
  BY <1>2 DEF Disturbed, Shaped
<1>. QED
  BY <1>1, <1>2

\* A step that adds no project and begins no walk.
LEMMA CapStays ==
  ASSUME CapInv, auto' \subseteq auto, overlap' = overlap,
         \A w \in Walkers : /\ Shaped(walk'[w])
                            /\ Walking(w)' => Walking(w) /\ walk'[w].auto = walk[w].auto
  PROVE  CapInv'
<1>1. IsFiniteSet(auto') /\ Cardinality(auto') <= Cardinality(auto)
  BY FS_Subset DEF CapInv
<1>2. Cardinality(auto) \in Nat /\ Cardinality(auto') \in Nat /\ MaxAuto \in Nat
  BY <1>1, FS_CardinalityType, LinkConstants DEF CapInv
<1>. QED
  BY <1>1, <1>2 DEF CapInv

LEMMA ActCap ==
  ASSUME CapInv, Act, auto' \subseteq auto
  PROVE  CapInv'
<1>1. overlap' = overlap /\ \A w \in Walkers : walk'[w] = Disturbed(walk[w])
  BY DEF Act
<1>2. ASSUME NEW w \in Walkers
      PROVE  /\ Shaped(walk'[w])
             /\ Walking(w)' => Walking(w) /\ walk'[w].auto = walk[w].auto
  BY <1>1, DisturbedShaped DEF CapInv, Walking
<1>. QED
  BY <1>1, <1>2, CapStays

LEMMA WalksCap ==
  ASSUME CapInv, NEW w \in Walkers, NEW new, NEW changes \in BOOLEAN, Walks(w, new, changes),
         auto' = auto, overlap' = overlap, Shaped(new),
         new.at # "rest" => Walking(w) /\ new.auto = walk[w].auto
  PROVE  CapInv'
<1>1. ASSUME NEW v \in Walkers
      PROVE  /\ Shaped(walk'[v])
             /\ Walking(v)' => Walking(v) /\ walk'[v].auto = walk[v].auto
  <2>1. walk'[v] = IF v = w THEN new ELSE IF changes THEN Disturbed(walk[v]) ELSE walk[v]
    BY DEF Walks
  <2>2. CASE v = w
    BY <2>1, <2>2 DEF Walking
  <2>3. CASE v # w /\ changes
    BY <2>1, <2>3, DisturbedShaped DEF CapInv, Walking
  <2>4. CASE v # w /\ ~changes
    BY <2>1, <2>4 DEF CapInv, Walking
  <2>. QED
    BY <2>2, <2>3, <2>4
<1>. QED
  BY <1>1, CapStays

\* A walk begins: it counts what there is, and it is alone or walks overlap.
LEMMA FollowCap ==
  ASSUME CapInv, NEW w \in Walkers, Follow(w)
  PROVE  CapInv'
<1> DEFINE new == [Resting EXCEPT !.at = "project", !.level = {<<Root, project[Root]>>},
                                  !.seen = {project[Root]}, !.active = Active,
                                  !.auto = Cardinality(auto)]
<1>1. /\ Walks(w, new, FALSE) /\ auto' = auto
      /\ overlap' = (overlap \/ \E v \in Walkers : walk[v].at # "rest")
  BY DEF Follow
<1>2. Shaped(new) /\ new.auto = Cardinality(auto)
  BY DEF Resting, Shaped
<1>. HIDE DEF new
<1>3. \A v \in Walkers : walk'[v] = IF v = w THEN new ELSE walk[v]
  BY <1>1 DEF Walks
<1>4. Cardinality(auto) \in Nat
  BY FS_CardinalityType DEF CapInv
<1>5. \A v \in Walkers : Shaped(walk'[v])
  BY <1>2, <1>3 DEF CapInv
<1>6. ASSUME ~overlap'
      PROVE  /\ Cardinality(auto) <= MaxAuto
             /\ \A v \in Walkers : Walking(v)' => v = w /\ walk'[v].auto = Cardinality(auto)
  <2>1. ~overlap /\ \A v \in Walkers : walk[v].at = "rest"
    BY <1>1, <1>6
  <2>. QED
    BY <1>2, <1>3, <2>1 DEF CapInv, Walking
<1>. QED
  BY <1>1, <1>4, <1>5, <1>6 DEF CapInv

\* A reference that has no project gets one, while the walk's own count allows it.
LEMMA WalkTargetCap ==
  ASSUME CapInv, NEW w \in Walkers, WalkTarget(w)
  PROVE  CapInv'
<1> DEFINE here == walk[w]
<1>0. Shaped(here) /\ here.at = "target" /\ overlap' = overlap
  BY DEF CapInv, WalkTarget
<1>1. PICK r \in here.refs :
        LET rest == [here EXCEPT !.refs = @ \ {r}] IN
        \/ /\ Walks(w, IF project[r] = here.p[2] THEN rest
                       ELSE [rest EXCEPT !.at = "link", !.to = <<r, project[r]>>], FALSE)
           /\ UNCHANGED <<project, auto>>
        \/ Walks(w, rest, FALSE) /\ UNCHANGED <<project, auto>>
        \/ /\ here.auto < MaxAuto /\ auto' = auto \cup {r}
           /\ Walks(w, IF NextId = here.p[2] THEN [rest EXCEPT !.auto = @ + 1]
                       ELSE [rest EXCEPT !.at = "link", !.to = <<r, NextId>>, !.auto = @ + 1],
                    TRUE)
  BY DEF WalkTarget
<1> DEFINE rest == [here EXCEPT !.refs = @ \ {r}]
           linked(n) == [rest EXCEPT !.at = "link", !.to = <<r, n>>]
           counted == [rest EXCEPT !.auto = @ + 1]
           both == [rest EXCEPT !.at = "link", !.to = <<r, NextId>>, !.auto = @ + 1]
<1>3. Shaped(rest) /\ rest.at # "rest" /\ rest.auto = here.auto
  BY <1>0 DEF Shaped
<1>4. \A n : Shaped(linked(n)) /\ linked(n).auto = here.auto
  BY <1>0 DEF Shaped
<1>5. /\ Shaped(counted) /\ counted.auto = here.auto + 1
      /\ Shaped(both) /\ both.auto = here.auto + 1
  BY <1>0 DEF Shaped
<1>6. ASSUME NEW new, Walks(w, new, FALSE), UNCHANGED auto, Shaped(new), new.auto = here.auto
      PROVE  CapInv'
  <2>1. Walking(w)
    BY <1>0 DEF Walking
  <2>. QED
    BY <1>0, <1>6, <2>1, WalksCap
<1>7. ASSUME NEW new, Walks(w, new, TRUE), Shaped(new), new.auto = here.auto + 1,
             here.auto < MaxAuto, auto' = auto \cup {r}
      PROVE  CapInv'
  <2>1. /\ IsFiniteSet(auto') /\ Cardinality(auto') <= Cardinality(auto) + 1
        /\ Cardinality(auto) \in Nat /\ Cardinality(auto') \in Nat
    <3>1. IsFiniteSet(auto) /\ auto' = auto \cup {r}
      BY <1>7 DEF CapInv
    <3>2. /\ IsFiniteSet(auto')
          /\ Cardinality(auto') = Cardinality(auto) \/ Cardinality(auto') = Cardinality(auto) + 1
      BY <3>1, FS_AddElement
    <3>3. Cardinality(auto) \in Nat
      BY <3>1, FS_CardinalityType
    <3>. QED
      BY <3>2, <3>3
  <2>2. ASSUME NEW v \in Walkers
        PROVE  /\ walk'[v] = IF v = w THEN new ELSE Disturbed(walk[v])
               /\ Shaped(walk'[v]) /\ (v # w => (Walking(v)' <=> Walking(v)))
    <3>1. walk'[v] = IF v = w THEN new ELSE Disturbed(walk[v])
      BY <1>7 DEF Walks
    <3>2. CASE v = w
      BY <1>7, <3>1, <3>2
    <3>3. CASE v # w
      BY <3>1, <3>3, DisturbedShaped DEF CapInv, Walking
    <3>. QED
      BY <3>1, <3>2, <3>3
  <2>3. ASSUME ~overlap'
        PROVE  /\ Cardinality(auto') <= MaxAuto
               /\ \A v \in Walkers : Walking(v)' =>
                     v = w /\ walk'[v].auto = here.auto + 1
               /\ here.auto \in Nat /\ Cardinality(auto') <= here.auto + 1
    <3>1. /\ ~overlap /\ Walking(w)
          /\ here.auto \in Nat /\ Cardinality(auto) <= here.auto
          /\ \A v \in Walkers : Walking(v) => v = w
      BY <1>0, <2>3 DEF CapInv, Walking
    <3>2. Cardinality(auto') <= MaxAuto
      BY <1>7, <2>1, <3>1, LinkConstants
    <3>3. \A v \in Walkers : Walking(v)' => v = w /\ walk'[v].auto = here.auto + 1
      BY <1>7, <2>2, <3>1
    <3>. QED
      BY <2>1, <3>1, <3>2, <3>3
  <2>. QED
    BY <2>1, <2>2, <2>3 DEF CapInv
<1>. HIDE DEF rest, linked, counted, both
<1>8. \/ /\ Walks(w, IF project[r] = here.p[2] THEN rest ELSE linked(project[r]), FALSE)
         /\ UNCHANGED auto
      \/ Walks(w, rest, FALSE) /\ UNCHANGED auto
      \/ /\ here.auto < MaxAuto /\ auto' = auto \cup {r}
         /\ Walks(w, IF NextId = here.p[2] THEN counted ELSE both, TRUE)
  BY <1>1 DEF rest, linked, counted, both
<1>9. CASE Walks(w, IF project[r] = here.p[2] THEN rest ELSE linked(project[r]), FALSE)
           /\ UNCHANGED auto
  <2>1. CASE project[r] = here.p[2]
    BY <1>3, <1>6, <1>9, <2>1
  <2>2. CASE project[r] # here.p[2]
    BY <1>4, <1>6, <1>9, <2>2
  <2>. QED
    BY <2>1, <2>2
<1>10. CASE Walks(w, rest, FALSE) /\ UNCHANGED auto
  BY <1>3, <1>6, <1>10
<1>11. CASE /\ here.auto < MaxAuto /\ auto' = auto \cup {r}
            /\ Walks(w, IF NextId = here.p[2] THEN counted ELSE both, TRUE)
  <2>1. CASE NextId = here.p[2]
    BY <1>5, <1>7, <1>11, <2>1
  <2>2. CASE NextId # here.p[2]
    BY <1>5, <1>7, <1>11, <2>2
  <2>. QED
    BY <2>1, <2>2
<1>. QED
  BY <1>8, <1>9, <1>10, <1>11

LEMMA WalkStepsCap ==
  ASSUME CapInv, NEW w \in Walkers,
         WalkProject(w) \/ WalkLevel(w) \/ WalkLink(w) \/ WalkDrops(w)
  PROVE  CapInv'
<1> DEFINE here == walk[w]
<1>1. Shaped(here) /\ here.at # "rest" /\ auto' = auto /\ overlap' = overlap
  BY DEF CapInv, WalkProject, WalkLevel, WalkLink, LinkIn, WalkDrops
<1>2. ASSUME NEW new, NEW changes \in BOOLEAN, Walks(w, new, changes), Shaped(new),
             new.at # "rest" => new.auto = here.auto
      PROVE  CapInv'
  BY <1>1, <1>2, WalksCap DEF Walking
<1>3. CASE WalkProject(w)
  <2>1. PICK p \in here.level, unread \in BOOLEAN :
          LET found == IF p[1] \in there THEN named[p[1]] \cap there ELSE {} IN
          Walks(w, IF here.depth >= Depth THEN [here EXCEPT !.level = @ \ {p}]
                   ELSE [here EXCEPT !.at = "target", !.level = @ \ {p}, !.p = p,
                                     !.refs = IF unread THEN {} ELSE found,
                                     !.unread = unread], FALSE)
    BY <1>3 DEF WalkProject
  <2> DEFINE found == IF p[1] \in there THEN named[p[1]] \cap there ELSE {}
             passed == [here EXCEPT !.level = @ \ {p}]
             read == [here EXCEPT !.at = "target", !.level = @ \ {p}, !.p = p,
                                  !.refs = IF unread THEN {} ELSE found,
                                  !.unread = unread]
  <2>2. Shaped(passed) /\ passed.auto = here.auto /\ Shaped(read) /\ read.auto = here.auto
    BY <1>1 DEF Shaped
  <2>3. Walks(w, IF here.depth >= Depth THEN passed ELSE read, FALSE)
    BY <2>1
  <2>. HIDE DEF passed, read
  <2>. QED
    BY <1>2, <2>2, <2>3
<1>4. CASE WalkLevel(w)
  <2> DEFINE deeper == [here EXCEPT !.level = here.next, !.next = {}, !.depth = @ + 1,
                                    !.active = Active]
             over == [Resting EXCEPT !.visited = here.visited, !.calm = here.calm]
  <2>1. Shaped(deeper) /\ deeper.auto = here.auto /\ Shaped(over) /\ over.at = "rest"
    BY <1>1 DEF Shaped, Resting
  <2>2. Walks(w, IF here.next # {} THEN deeper ELSE over, FALSE)
    BY <1>4 DEF WalkLevel
  <2>. HIDE DEF deeper, over
  <2>. QED
    BY <1>2, <2>1, <2>2
<1>5. CASE WalkLink(w)
  <2> DEFINE free == (Ids \X Ids) \ (Active \cup link.removed)
             e == <<here.p[2], here.to[2]>>
             made == e \in free
             next == IF (made \/ e \in here.active) /\ here.to[2] \notin here.seen
                     THEN {here.to} ELSE {}
             on == [here EXCEPT !.at = "target", !.to = <<NoDir, 0>>,
                                !.keep = @ \cup {here.to[2]}, !.next = @ \cup next,
                                !.seen = @ \cup {n[2] : n \in next}]
  <2>1. Shaped(on) /\ on.auto = here.auto
    BY <1>1 DEF Shaped
  <2>2. Walks(w, on, made) \/ Walks(w, Resting, FALSE)
    BY <1>5 DEF WalkLink, LinkIn
  <2>. HIDE DEF on, made
  <2>3. CASE Walks(w, on, made)
    <3>1. made \in BOOLEAN
      BY DEF made
    <3>. QED
      BY <1>2, <2>1, <2>3, <3>1
  <2>4. CASE Walks(w, Resting, FALSE)
    BY <1>2, <2>4, RestingShaped
  <2>. QED
    BY <2>2, <2>3, <2>4
<1>6. CASE WalkDrops(w)
  <2> DEFINE drop == {e \in link.auto : ~here.unread /\ e[1] = here.p[2] /\ e[2] \notin here.keep}
             on == [here EXCEPT !.at = "project", !.p = <<NoDir, 0>>, !.keep = {},
                                !.unread = FALSE,
                                !.visited = IF here.unread \/ ~here.calm THEN @
                                            ELSE @ \cup {here.p[1]}]
  <2>1. Shaped(on) /\ on.auto = here.auto
    BY <1>1 DEF Shaped
  <2>2. Walks(w, on, drop # {})
    BY <1>6 DEF WalkDrops
  <2>. HIDE DEF on, drop
  <2>3. (drop # {}) \in BOOLEAN
    OBVIOUS
  <2>. QED
    BY <1>2, <2>1, <2>2, <2>3
<1>. QED
  BY <1>3, <1>4, <1>5, <1>6

-----------------------------------------------------------------------------
LEMMA UserCap ==
  ASSUME CapInv,
         \/ \E d \in Dirs : \/ AddProject(d) \/ SelectProject(d) \/ ResolveProject(d)
                            \/ RemoveProject(d) \/ EditManifest(d) \/ DirectoryGoes(d)
         \/ \E a, b \in Dirs : LinkByHand(a, b)
         \/ \E e \in Ids \X Ids : Unlink(e)
  PROVE  CapInv'
<1>1. Act /\ auto' \subseteq auto
  BY DEF AddProject, SelectProject, ResolveProject, RemoveProject, EditManifest, DirectoryGoes,
         LinkByHand, Unlink, userVars
<1>. QED
  BY <1>1, ActCap

LEMMA UserWord ==
  ASSUME WordInv,
         \/ \E d \in Dirs : \/ AddProject(d) \/ SelectProject(d) \/ ResolveProject(d)
                            \/ RemoveProject(d) \/ EditManifest(d) \/ DirectoryGoes(d)
         \/ \E a, b \in Dirs : LinkByHand(a, b)
         \/ \E e \in Ids \X Ids : Unlink(e)
  PROVE  WordInv'
<1>1. CASE UNCHANGED <<link, word>>
  BY <1>1 DEF WordInv, Active
<1>2. ASSUME NEW d \in Dirs, RemoveProject(d) PROVE WordInv'
  <2> DEFINE Others(set) == {e \in set : project[d] \notin {e[1], e[2]}}
  <2>1. /\ link' = [kind \in DOMAIN link |-> Others(link[kind])]
        /\ word' = [said \in DOMAIN word |-> Others(word[said])]
    BY <1>2 DEF RemoveProject
  <2>2. /\ DOMAIN link' = {"manual", "auto", "removed"} /\ DOMAIN word' = {"made", "cut"}
        /\ link'.manual = Others(link.manual) /\ link'.auto = Others(link.auto)
        /\ link'.removed = Others(link.removed)
        /\ word'.made = Others(word.made) /\ word'.cut = Others(word.cut)
    BY <2>1 DEF WordInv
  <2>. QED
    BY <2>2 DEF WordInv, Active
<1>3. ASSUME NEW a \in Dirs, NEW b \in Dirs, LinkByHand(a, b) PROVE WordInv'
  <2> DEFINE e == <<project[a], project[b]>>
  <2>1. /\ link' = [manual |-> link.manual \cup {e}, auto |-> link.auto \ {e},
                    removed |-> link.removed \ {e}]
        /\ word' = [made |-> word.made \cup {e}, cut |-> word.cut \ {e}]
    BY <1>3 DEF LinkByHand
  <2>. HIDE DEF e
  <2>. QED
    BY <2>1 DEF WordInv, Active
<1>4. ASSUME NEW e \in Ids \X Ids, Unlink(e) PROVE WordInv'
  <2>1. CASE e \in link.manual
    <3>1. /\ link' = [link EXCEPT !.manual = @ \ {e}] /\ word' = [word EXCEPT !.made = @ \ {e}]
      BY <1>4, <2>1 DEF Unlink
    <3>. QED
      BY <3>1 DEF WordInv, Active
  <2>2. CASE e \notin link.manual
    <3>1. /\ link' = [link EXCEPT !.auto = @ \ {e}, !.removed = @ \cup {e}]
          /\ word' = [word EXCEPT !.cut = @ \cup {e}] /\ e \in link.auto
      BY <1>4, <2>2 DEF Unlink, Active
    <3>. QED
      BY <2>2, <3>1 DEF WordInv, Active
  <2>. QED
    BY <2>1, <2>2
<1>. QED
  BY <1>1, <1>2, <1>3, <1>4
  DEF AddProject, SelectProject, ResolveProject, EditManifest, DirectoryGoes, userVars

\* A walk makes a link where there is no row, and drops auto ones.
LEMMA WalkWord ==
  ASSUME WordInv, NEW w \in Walkers,
         \/ Follow(w) \/ WalkProject(w) \/ WalkLevel(w) \/ WalkTarget(w)
         \/ WalkLink(w) \/ WalkDrops(w)
  PROVE  WordInv'
<1>1. word' = word
  BY DEF Follow, WalkProject, WalkLevel, WalkTarget, WalkLink, LinkIn, WalkDrops, FilesRest
<1>2. CASE UNCHANGED link
  BY <1>1, <1>2 DEF WordInv, Active
<1>3. CASE WalkLink(w)
  <2> DEFINE e == <<walk[w].p[2], walk[w].to[2]>>
  <2>1. \/ link' = link
        \/ /\ e \notin Active \cup link.removed
           /\ link' = [link EXCEPT !.auto = @ \cup {e}, !.removed = @ \ {e}]
    BY <1>3 DEF WalkLink, LinkIn
  <2>. HIDE DEF e
  <2>. QED
    BY <1>1, <2>1 DEF WordInv, Active
<1>4. CASE WalkDrops(w)
  <2>1. PICK drop : link' = [link EXCEPT !.auto = @ \ drop]
    BY <1>4 DEF WalkDrops
  <2>. QED
    BY <1>1, <2>1 DEF WordInv, Active
<1>. QED
  BY <1>2, <1>3, <1>4 DEF Follow, WalkProject, WalkLevel, WalkTarget

\* The user has the last word about a link, and references add no more than
\* `max_auto_projects` as long as walks do not overlap: for any number of
\* directories, walks and statements between a walk's own
\* (store/project_links.rs, plugins/graph/follow.rs).
THEOREM TheUserDecides == LinksSpec => []UserHasTheLastWord
<1> DEFINE Inv == WordInv /\ CapInv
<1>1. LinksInit => Inv
  <2>. SUFFICES ASSUME LinksInit PROVE Inv
    OBVIOUS
  <2>1. WordInv
    BY DEF LinksInit, WordInv, Active
  <2>2. CapInv
    <3>1. Cardinality(auto) = 0 /\ IsFiniteSet(auto)
      BY FS_EmptySet DEF LinksInit
    <3>2. \A w \in Walkers : walk[w] = Resting
      BY DEF LinksInit
    <3>. QED
      BY <3>1, <3>2, RestingShaped, LinkConstants DEF CapInv, Walking
  <2>. QED
    BY <2>1, <2>2
<1>2. Inv /\ [LinksNext]_linkVars => Inv'
  <2>. SUFFICES ASSUME Inv, [LinksNext]_linkVars PROVE Inv'
    OBVIOUS
  <2>1. CASE UNCHANGED linkVars
    BY <2>1 DEF linkVars, userVars, WordInv, CapInv, Active, Walking
  <2>2. ASSUME NEW w \in Walkers,
               \/ Follow(w) \/ WalkProject(w) \/ WalkLevel(w) \/ WalkTarget(w)
               \/ WalkLink(w) \/ WalkDrops(w)
        PROVE  Inv'
    BY <2>2, WalkWord, FollowCap, WalkTargetCap, WalkStepsCap
  <2>. QED
    BY <2>1, <2>2, UserWord, UserCap DEF LinksNext
<1>3. Inv => UserHasTheLastWord
  BY DEF WordInv, CapInv, UserHasTheLastWord
<1>. QED
  BY <1>1, <1>2, <1>3, PTL DEF LinksSpec

-----------------------------------------------------------------------------
(* The walks.                                                                *)

Edge(a, b) == <<project[a], project[b]>>

\* One level of scope_of: what the active links of the projects so far lead to.
OneLevel(S) == S \cup {d \in Known : \E p \in S \cap there : <<project[p], project[d]>> \in Active}

Levels(f, k) == /\ f \in [0..k -> SUBSET Dirs] /\ f[0] = {Root}
                /\ \A n \in 1..k : f[n] = OneLevel(f[n - 1])

LEMMA OneLevelInDirs ==
  ASSUME NEW S \in SUBSET Dirs
  PROVE  S \subseteq OneLevel(S) /\ OneLevel(S) \subseteq Dirs
BY DEF OneLevel, Known

LEMMA LevelsGoOn ==
  ASSUME NEW k \in Nat, NEW f, Levels(f, k)
  PROVE  \E g : Levels(g, k + 1)
<1> DEFINE g == [n \in 0..(k + 1) |-> IF n = k + 1 THEN OneLevel(f[k]) ELSE f[n]]
<1>1. f \in [0..k -> SUBSET Dirs] /\ f[0] = {Root}
  BY DEF Levels
<1>2. f[k] \in SUBSET Dirs /\ OneLevel(f[k]) \in SUBSET Dirs
  BY <1>1, OneLevelInDirs
<1>3. \A n \in 0..(k + 1) : g[n] \in SUBSET Dirs
  BY <1>1, <1>2
<1>4. g[0] = {Root}
  BY <1>1
<1>5. ASSUME NEW n \in 1..(k + 1) PROVE g[n] = OneLevel(g[n - 1])
  <2>1. CASE n = k + 1
    <3>1. n - 1 = k /\ k \in 0..(k + 1) /\ k # k + 1
      BY <2>1
    <3>2. g[n - 1] = f[k]
      BY <3>1
    <3>3. g[n] = OneLevel(f[k])
      BY <2>1
    <3>. QED
      BY <3>2, <3>3
  <2>2. CASE n # k + 1
    <3>1. n \in 1..k /\ n - 1 \in 0..(k + 1) /\ n - 1 # k + 1
      BY <2>2
    <3>2. g[n - 1] = f[n - 1] /\ g[n] = f[n]
      BY <3>1, <2>2
    <3>. QED
      BY <3>1, <3>2 DEF Levels
  <2>. QED
    BY <2>1, <2>2
<1>6. g \in [0..(k + 1) -> SUBSET Dirs]
  BY <1>3
<1>. HIDE DEF g
<1>7. Levels(g, k + 1)
  BY <1>4, <1>5, <1>6 DEF Levels
<1>. QED
  BY <1>7

LEMMA LevelsExist ==
  ASSUME NEW k \in Nat
  PROVE  \E f : Levels(f, k)
<1> DEFINE Without == {n \in Nat : ~\E f : Levels(f, n)}
<1>1. SUFFICES ASSUME Without # {} PROVE FALSE
  OBVIOUS
<1>2. Without \in SUBSET Nat
  OBVIOUS
<1>3. PICK m \in Without : \A n \in Without : m <= n
  <2>. HIDE DEF Without
  <2>. QED
    BY <1>1, <1>2, LeastNumber
<1>4. CASE m = 0
  <2> DEFINE f == [n \in 0..0 |-> {Root}]
  <2>1. f \in [0..0 -> SUBSET Dirs] /\ f[0] = {Root} /\ 1..0 = {}
    BY LinkConstants
  <2>2. Levels(f, 0)
    BY <2>1 DEF Levels
  <2>. QED
    BY <1>4, <2>2
<1>5. CASE m # 0
  <2>1. m - 1 \in Nat /\ m - 1 \notin Without /\ (m - 1) + 1 = m
    BY <1>3, <1>5
  <2>2. PICK f : Levels(f, m - 1)
    BY <2>1
  <2>3. \E g : Levels(g, (m - 1) + 1)
    BY <2>1, <2>2, LevelsGoOn
  <2>. QED
    BY <2>1, <2>3
<1>. QED
  BY <1>4, <1>5

\* scope_of stops with a set of directories that no active link leads out of.
LEMMA ScopeIsClosed ==
  \E X \in SUBSET Dirs :
     /\ Root \in X /\ Scope(Root) = X \cap there
     /\ \A b \in X \cap there, d \in Known : Edge(b, d) \in Active => d \in X
<1> DEFINE N == Cardinality(Dirs)
           Body(L) == [n \in 0..N |->
              IF n = 0 THEN {Root}
              ELSE L[n - 1] \cup {d \in Known : \E p \in L[n - 1] \cap there :
                                                   <<project[p], project[d]>> \in Active}]
           Level == CHOOSE L : L = Body(L)
<1>1. N \in Nat
  BY LinkConstants, FS_CardinalityType
<1>2. Scope(Root) = Level[N] \cap there
  BY DEF Scope
<1>3. \E L : L = Body(L)
  <2>1. PICK f : Levels(f, N)
    BY <1>1, LevelsExist
  <2>2. \A n \in 0..N : f[n] = Body(f)[n]
    <3>. SUFFICES ASSUME NEW n \in 0..N PROVE f[n] = Body(f)[n]
      OBVIOUS
    <3>1. CASE n = 0
      BY <2>1, <3>1 DEF Levels
    <3>2. CASE n # 0
      <4>1. n \in 1..N
        BY <1>1, <3>2
      <4>2. f[n] = OneLevel(f[n - 1])
        BY <2>1, <4>1 DEF Levels
      <4>. QED
        BY <3>2, <4>2 DEF OneLevel
    <3>. QED
      BY <3>1, <3>2
  <2>3. f = [n \in 0..N |-> f[n]]
    BY <2>1 DEF Levels
  <2>4. f = Body(f)
    BY <2>2, <2>3
  <2>. QED
    BY <2>4
<1>4. Level = Body(Level)
  BY <1>3
<1>5. Level[0] = {Root} /\ \A n \in 1..N : Level[n] = OneLevel(Level[n - 1])
  <2>. HIDE DEF Level
  <2>1. Level[0] = {Root}
    BY <1>1, <1>4
  <2>2. ASSUME NEW n \in 1..N PROVE Level[n] = OneLevel(Level[n - 1])
    <3>1. n \in 0..N /\ n # 0
      BY <1>1
    <3>2. Level[n] = Body(Level)[n]
      BY <1>4
    <3>. QED
      BY <3>1, <3>2 DEF OneLevel
  <2>. QED
    BY <2>1, <2>2
<1>. HIDE DEF Level, Body, N
<1>. DEFINE Far(n) == /\ Level[n] \in SUBSET Dirs /\ Root \in Level[n]
                      /\ OneLevel(Level[n]) = Level[n] \/ n + 1 <= Cardinality(Level[n])
            Short == {n \in 0..N : ~Far(n)}
<1>6. Far(0)
  <2>1. Cardinality({Root}) = 1 /\ {Root} \in SUBSET Dirs
    BY FS_Singleton, LinkConstants
  <2>. QED
    BY <1>5, <2>1
<1>7. ASSUME NEW n \in 1..N, Far(n - 1) PROVE Far(n)
  <2>1. /\ Level[n - 1] \in SUBSET Dirs /\ Root \in Level[n - 1]
        /\ Level[n] = OneLevel(Level[n - 1])
    BY <1>5, <1>7
  <2>2. Level[n] \in SUBSET Dirs /\ Level[n - 1] \subseteq Level[n]
    BY <2>1, OneLevelInDirs
  <2>3. CASE OneLevel(Level[n - 1]) = Level[n - 1]
    BY <2>1, <2>2, <2>3
  <2>4. CASE OneLevel(Level[n - 1]) # Level[n - 1]
    <3>1. IsFiniteSet(Level[n])
      BY <2>2, FS_Subset, LinkConstants
    <3>2. /\ Cardinality(Level[n - 1]) <= Cardinality(Level[n])
          /\ Cardinality(Level[n - 1]) # Cardinality(Level[n])
          /\ IsFiniteSet(Level[n - 1])
      BY <2>1, <2>2, <2>4, <3>1, FS_Subset
    <3>3. Cardinality(Level[n - 1]) \in Nat /\ Cardinality(Level[n]) \in Nat
      BY <3>1, <3>2, FS_CardinalityType
    <3>4. (n - 1) + 1 <= Cardinality(Level[n - 1])
      BY <1>7, <2>4
    <3>5. n + 1 <= Cardinality(Level[n])
      BY <3>2, <3>3, <3>4
    <3>. QED
      BY <2>1, <2>2, <3>5
  <2>. QED
    BY <2>3, <2>4
<1>8. Short = {}
  <2>. SUFFICES ASSUME Short # {} PROVE FALSE
    OBVIOUS
  <2>1. Short \in SUBSET Nat
    OBVIOUS
  <2>. HIDE DEF Far
  <2>2. PICK m \in Short : \A n \in Short : m <= n
    <3>. HIDE DEF Short
    <3>. QED
      BY <2>1, LeastNumber
  <2>3. m # 0
    BY <1>6, <2>2
  <2>4. m \in 1..N /\ m - 1 \in 0..N /\ m - 1 \notin Short
    BY <1>1, <2>2, <2>3
  <2>5. Far(m - 1)
    BY <2>4
  <2>. QED
    BY <1>7, <2>2, <2>4, <2>5
<1>9. Far(N)
  BY <1>1, <1>8
<1>10. OneLevel(Level[N]) = Level[N]
  <2>1. IsFiniteSet(Dirs) /\ Level[N] \in SUBSET Dirs
    BY <1>9, LinkConstants
  <2>2. Cardinality(Level[N]) <= N /\ Cardinality(Level[N]) \in Nat
    BY <2>1, FS_Subset, FS_CardinalityType DEF N
  <2>. QED
    BY <1>1, <1>9, <2>2
<1>11. ASSUME NEW b \in Level[N] \cap there, NEW d \in Known, Edge(b, d) \in Active
       PROVE  d \in Level[N]
  <2>1. d \in OneLevel(Level[N])
    BY <1>11 DEF OneLevel, Edge
  <2>. QED
    BY <1>10, <2>1
<1>12. Level[N] \in SUBSET Dirs /\ Root \in Level[N]
  BY <1>9
<1>. QED
  BY <1>2, <1>11, <1>12

-----------------------------------------------------------------------------
WalkRecords ==
    [at : {"rest", "project", "target", "link"}, level : SUBSET (Dirs \X Ids),
     next : SUBSET (Dirs \X Ids), depth : Nat, auto : Nat, seen : SUBSET Ids,
     active : SUBSET (Ids \X Ids), p : (Dirs \X Ids) \cup {<<NoDir, 0>>}, refs : SUBSET Dirs,
     to : (Dirs \X Ids) \cup {<<NoDir, 0>>}, keep : SUBSET Ids, unread : BOOLEAN,
     visited : SUBSET Dirs, calm : BOOLEAN]

\* A walk that reads a project's references has one, and one that links has a target.
Placed(h) == /\ h.at \in {"target", "link"} => h.p \in Dirs \X Ids
             /\ h.at = "link" => h.to \in Dirs \X Ids

WalksTyped == walk \in [Walkers -> WalkRecords] /\ \A w \in Walkers : Placed(walk[w])

\* Ids stay low: a removed project leaves one gap at most.
RegistryTyped ==
    /\ project \in [Dirs -> Ids \cup {0}] /\ auto \subseteq Known
    /\ selected \in Dirs \cup {NoDir}
    /\ \A a, b \in Known : project[a] = project[b] => a = b
    /\ \A d \in Dirs : project[d] <= Cardinality(Known) + acts
    /\ link \in [manual : SUBSET (Ids \X Ids), auto : SUBSET (Ids \X Ids),
                 removed : SUBSET (Ids \X Ids)]
    /\ \A e \in link.manual \cup link.auto \cup link.removed :
          \E a, b \in Known : e = Edge(a, b)
    /\ link.manual \cap link.auto = {} /\ link.removed \cap Active = {}
    /\ named \in [Dirs -> SUBSET Dirs] /\ there \subseteq Dirs /\ Root \in there
    /\ acts \in 0..MaxActs /\ overlap \in BOOLEAN

LEMMA LinksTyping ==
  ASSUME RegistryTyped, WalksTyped
  PROVE  LinksTypeOK
<1>1. link.manual \cup link.auto \cup link.removed
         \subseteq {<<project[e[1]], project[e[2]]>> : e \in Known \X Known}
  <2>. SUFFICES ASSUME NEW e \in link.manual \cup link.auto \cup link.removed
                PROVE  e \in {<<project[f[1]], project[f[2]]>> : f \in Known \X Known}
    OBVIOUS
  <2>1. PICK a \in Known, b \in Known : e = Edge(a, b)
    BY DEF RegistryTyped
  <2>2. <<a, b>> \in Known \X Known /\ e = <<project[<<a, b>>[1]], project[<<a, b>>[2]]>>
    BY <2>1 DEF Edge
  <2>. QED
    BY <2>2
<1>2. ASSUME NEW w \in Walkers
      PROVE  /\ walk[w].at \in {"rest", "project", "target", "link"}
             /\ walk[w].level \cup walk[w].next \subseteq Dirs \X Ids
             /\ walk[w].seen \cup walk[w].keep \subseteq Ids
  <2>1. walk[w] \in WalkRecords
    BY DEF WalksTyped
  <2>2. /\ walk[w].at \in {"rest", "project", "target", "link"}
        /\ walk[w].level \subseteq Dirs \X Ids /\ walk[w].next \subseteq Dirs \X Ids
        /\ walk[w].seen \subseteq Ids /\ walk[w].keep \subseteq Ids
    BY <2>1 DEF WalkRecords
  <2>. QED
    BY <2>2
<1>3. link.manual \cap link.auto = {} /\ link.removed \cap Active = {}
  BY DEF RegistryTyped
<1>. QED
  BY <1>1, <1>2, <1>3 DEF LinksTypeOK, RegistryTyped

-----------------------------------------------------------------------------
LEMMA IdRange ==
  /\ IsFiniteSet(Known) /\ Cardinality(Known) \in Nat /\ Cardinality(Dirs) \in Nat
  /\ MaxActs \in Nat /\ Cardinality(Known) <= Cardinality(Dirs)
  /\ Known # Dirs => Cardinality(Known) + 1 <= Cardinality(Dirs)
  /\ Ids = 1..(Cardinality(Dirs) + MaxActs) /\ 1 \in Ids
<1>1. Known \subseteq Dirs /\ Root \in Dirs /\ IsFiniteSet(Dirs) /\ MaxActs \in Nat
  BY LinkConstants DEF Known
<1>2. /\ IsFiniteSet(Known) /\ Cardinality(Known) <= Cardinality(Dirs)
      /\ Known # Dirs => Cardinality(Known) # Cardinality(Dirs)
  BY <1>1, FS_Subset
<1>3. Cardinality(Known) \in Nat /\ Cardinality(Dirs) \in Nat
  BY <1>1, <1>2, FS_CardinalityType
<1>4. Cardinality(Dirs) # 0
  BY <1>1, FS_EmptySet
<1>. QED
  BY <1>1, <1>2, <1>3, <1>4 DEF Ids

\* The id of a new project is higher than every other, and there is one.
LEMMA NextIdIsNew ==
  ASSUME RegistryTyped, NEW r \in Dirs \ Known
  PROVE  /\ NextId \in Ids /\ \A d \in Dirs : project[d] < NextId
         /\ NextId <= Cardinality(Known) + acts + 1
<1> DEFINE S == {project[d] : d \in Dirs}
           Top == Cardinality(Known) + acts
<1>1. /\ Known # Dirs /\ acts \in Nat /\ acts <= MaxActs
      /\ \A d \in Dirs : project[d] \in Nat /\ project[d] <= Top
  <2>1. Ids \cup {0} \subseteq Nat
    BY IdRange
  <2>. QED
    BY <2>1, IdRange DEF RegistryTyped, Known
<1>2. Top \in Nat /\ Top + 1 <= Cardinality(Dirs) + MaxActs
  BY <1>1, IdRange
<1>3. S \in SUBSET Nat /\ S # {} /\ \A x \in S : x <= Top
  BY <1>1, LinkConstants
<1>4. PICK m \in S : \A n \in S : n <= m
  <2>. HIDE DEF S, Top
  <2>. QED
    BY <1>2, <1>3, GreatestNumber
<1>5. PICK t \in Dirs : m = project[t]
  BY <1>4
<1>6. m \in Nat /\ m <= Top
  BY <1>1, <1>5
<1>7. m + 1 \in Ids
  <2>. HIDE DEF Top
  <2>. QED
    BY <1>2, <1>6, IdRange
<1>8. \A d \in Dirs : project[d] < m + 1
  <2>1. \A d \in Dirs : project[d] <= m
    BY <1>4
  <2>. QED
    BY <1>1, <1>6, <2>1
<1>9. \E n \in Ids : (\A d \in Dirs : project[d] < n) /\ (n = 1 \/ \E d \in Dirs : project[d] = n - 1)
  <2>1. project[t] = (m + 1) - 1
    BY <1>5, <1>6
  <2>. QED
    BY <1>7, <1>8, <2>1
<1>10. /\ NextId \in Ids /\ \A d \in Dirs : project[d] < NextId
       /\ NextId = 1 \/ \E d \in Dirs : project[d] = NextId - 1
  BY <1>9 DEF NextId
<1>11. NextId <= Top + 1
  <2>. HIDE DEF Top
  <2>1. NextId \in Nat
    BY <1>10, IdRange
  <2>. QED
    BY <1>1, <1>2, <1>10, <2>1
<1>. QED
  BY <1>10, <1>11

LEMMA RestingTyped ==
  /\ Resting \in WalkRecords /\ Placed(Resting) /\ Resting.at = "rest"
  /\ Resting.visited = {} /\ Resting.calm = TRUE
BY DEF Resting, WalkRecords, Placed

LEMMA DisturbedTyped ==
  ASSUME NEW h \in WalkRecords, Placed(h)
  PROVE  Disturbed(h) \in WalkRecords /\ Placed(Disturbed(h))
<1>1. CASE h.at = "rest"
  BY <1>1, RestingTyped DEF Disturbed
<1>2. CASE h.at # "rest"
  <2> DEFINE g == [h EXCEPT !.calm = FALSE, !.visited = {}]
  <2>1. g \in WalkRecords /\ g.at = h.at /\ g.p = h.p /\ g.to = h.to
    BY DEF WalkRecords
  <2>. HIDE DEF g
  <2>2. Disturbed(h) = g
    BY <1>2 DEF Disturbed, g
  <2>. QED
    BY <2>1, <2>2 DEF Placed
<1>. QED
  BY <1>1, <1>2

LEMMA ActTyped ==
  ASSUME WalksTyped, Act
  PROVE  WalksTyped' /\ (acts \in 0..MaxActs => acts' \in 0..MaxActs)
<1>1. acts \in 0..MaxActs => acts' \in 0..MaxActs
  BY LinkConstants DEF Act
<1>2. WalksTyped'
  BY DisturbedTyped DEF WalksTyped, Act
<1>. QED
  BY <1>1, <1>2

LEMMA WalksGoOn ==
  ASSUME WalksTyped, NEW w \in Walkers, NEW new \in WalkRecords, Placed(new),
         NEW changes \in BOOLEAN, Walks(w, new, changes)
  PROVE  WalksTyped'
BY DisturbedTyped DEF WalksTyped, Walks

-----------------------------------------------------------------------------
RowsTyped == [manual : SUBSET (Ids \X Ids), auto : SUBSET (Ids \X Ids),
              removed : SUBSET (Ids \X Ids)]

\* A project appears, of the user or of a walk.
LEMMA ProjectAdded ==
  ASSUME RegistryTyped, NEW r \in Dirs \ Known, project' = [project EXCEPT ![r] = NextId],
         acts' \in {acts, acts + 1}
  PROVE  /\ Known' = Known \cup {r} /\ project'[r] = NextId /\ NextId # 0
         /\ \A d \in Known : project'[d] = project[d]
         /\ \A a, b \in Known : Edge(a, b)' = Edge(a, b)
         /\ \A d \in Dirs : project[d] # NextId
         /\ project' \in [Dirs -> Ids \cup {0}]
         /\ \A a, b \in Known' : project'[a] = project'[b] => a = b
         /\ \A d \in Dirs : project'[d] <= Cardinality(Known') + acts'
<1>1. /\ project \in [Dirs -> Ids \cup {0}] /\ acts \in Nat /\ acts' \in Nat /\ acts <= acts'
      /\ \A d \in Dirs : project[d] <= Cardinality(Known) + acts
      /\ \A a, b \in Known : project[a] = project[b] => a = b
  BY IdRange DEF RegistryTyped
<1>2. /\ NextId \in Ids /\ \A d \in Dirs : project[d] < NextId
      /\ NextId <= Cardinality(Known) + acts + 1
  BY NextIdIsNew
<1>3. \A d \in Dirs : project[d] \in Nat /\ project[d] # NextId
  BY <1>1, <1>2, IdRange
<1>4. NextId # 0
  BY <1>2, IdRange
<1>5. \A d \in Dirs : project'[d] = IF d = r THEN NextId ELSE project[d]
  BY <1>1
<1>6. Known' = Known \cup {r}
  BY <1>4, <1>5 DEF Known
<1>7. Cardinality(Known') = Cardinality(Known) + 1
  BY <1>6, IdRange, FS_AddElement
<1>8. \A d \in Dirs : project'[d] <= Cardinality(Known') + acts'
  <2>. SUFFICES ASSUME NEW d \in Dirs PROVE project'[d] <= Cardinality(Known') + acts'
    OBVIOUS
  <2>1. project'[d] \in Nat /\ project'[d] <= Cardinality(Known) + acts + 1
    BY <1>1, <1>2, <1>3, <1>5, IdRange
  <2>. QED
    BY <1>1, <1>7, <2>1, IdRange
<1>9. Known \subseteq Dirs /\ r \notin Known
  BY DEF Known
<1>10. \A a, b \in Known' : project'[a] = project'[b] => a = b
  BY <1>1, <1>3, <1>5, <1>6, <1>9
<1>11. project' \in [Dirs -> Ids \cup {0}]
  BY <1>1, <1>2
<1>12. \A d \in Known : project'[d] = project[d]
  BY <1>5, <1>9
<1>13. \A a, b \in Known : Edge(a, b)' = Edge(a, b)
  BY <1>12 DEF Edge
<1>. QED
  BY <1>3, <1>4, <1>5, <1>6, <1>8, <1>10, <1>11, <1>12, <1>13

LEMMA AddedTyped ==
  ASSUME RegistryTyped, NEW r \in Dirs \ Known, project' = [project EXCEPT ![r] = NextId],
         acts' \in {acts, acts + 1}, acts' \in 0..MaxActs, auto' \in {auto, auto \cup {r}},
         UNCHANGED <<selected, link, named, there>>, overlap' \in BOOLEAN
  PROVE  RegistryTyped'
<1>1. /\ Known' = Known \cup {r} /\ \A a, b \in Known : Edge(a, b)' = Edge(a, b)
      /\ project' \in [Dirs -> Ids \cup {0}]
      /\ \A a, b \in Known' : project'[a] = project'[b] => a = b
      /\ \A d \in Dirs : project'[d] <= Cardinality(Known') + acts'
  BY ProjectAdded
<1>2. auto' \subseteq Known'
  BY <1>1 DEF RegistryTyped
<1>3. ASSUME NEW e \in link'.manual \cup link'.auto \cup link'.removed
      PROVE  \E a, b \in Known' : e = Edge(a, b)'
  <2>1. PICK a \in Known, b \in Known : e = Edge(a, b)
    BY <1>3 DEF RegistryTyped
  <2>2. e = Edge(a, b)'
    BY <1>1, <2>1
  <2>. QED
    BY <1>1, <2>2
<1>. QED
  BY <1>1, <1>2, <1>3 DEF RegistryTyped, Active

\* The rows change, the projects stay.
LEMMA LinkedTyped ==
  ASSUME RegistryTyped, UNCHANGED <<project, auto, selected, named, there>>,
         acts' \in {acts, acts + 1}, acts' \in 0..MaxActs, overlap' \in BOOLEAN,
         link' \in RowsTyped,
         \A e \in link'.manual \cup link'.auto \cup link'.removed :
            e \in link.manual \cup link.auto \cup link.removed \/ \E a, b \in Known : e = Edge(a, b),
         link'.manual \cap link'.auto = {},
         link'.removed \cap (link'.manual \cup link'.auto) = {}
  PROVE  RegistryTyped'
<1>1. Known' = Known /\ \A a, b : Edge(a, b)' = Edge(a, b)
  BY DEF Known, Edge
<1>2. ASSUME NEW e \in link'.manual \cup link'.auto \cup link'.removed
      PROVE  \E a, b \in Known' : e = Edge(a, b)'
  <2>1. \E a, b \in Known : e = Edge(a, b)
    BY <1>2 DEF RegistryTyped
  <2>. QED
    BY <1>1, <2>1
<1>3. \A d \in Dirs : project'[d] <= Cardinality(Known') + acts'
  <2>. SUFFICES ASSUME NEW d \in Dirs PROVE project'[d] <= Cardinality(Known') + acts'
    OBVIOUS
  <2>1. /\ project[d] \in Nat /\ acts \in Nat /\ acts' \in Nat /\ acts <= acts'
        /\ project[d] <= Cardinality(Known) + acts
    BY IdRange DEF RegistryTyped
  <2>. QED
    BY <1>1, <2>1, IdRange
<1>. QED
  BY <1>1, <1>2, <1>3 DEF RegistryTyped, RowsTyped, Active

\* Nothing of the registry changes but what is selected or on disk.
LEMMA OthersTyped ==
  ASSUME RegistryTyped, UNCHANGED <<project, auto, link>>, selected' \in Dirs \cup {NoDir},
         named' \in [Dirs -> SUBSET Dirs], there' \subseteq Dirs, Root \in there',
         acts' \in {acts, acts + 1}, acts' \in 0..MaxActs, overlap' \in BOOLEAN
  PROVE  RegistryTyped'
<1>1. Known' = Known /\ \A a, b : Edge(a, b)' = Edge(a, b)
  BY DEF Known, Edge
<1>2. \A e \in link'.manual \cup link'.auto \cup link'.removed :
         \E a, b \in Known' : e = Edge(a, b)'
  BY <1>1 DEF RegistryTyped
<1>3. \A d \in Dirs : project'[d] <= Cardinality(Known') + acts'
  <2>. SUFFICES ASSUME NEW d \in Dirs PROVE project'[d] <= Cardinality(Known') + acts'
    OBVIOUS
  <2>1. /\ project[d] \in Nat /\ acts \in Nat /\ acts' \in Nat /\ acts <= acts'
        /\ project[d] <= Cardinality(Known) + acts
    BY IdRange DEF RegistryTyped
  <2>. QED
    BY <1>1, <2>1, IdRange
<1>. QED
  BY <1>1, <1>2, <1>3 DEF RegistryTyped, Active

LEMMA RemovedTyped ==
  ASSUME RegistryTyped, acts' \in 0..MaxActs, NEW d \in Dirs, RemoveProject(d)
  PROVE  RegistryTyped'
<1> DEFINE Others(set) == {e \in set : project[d] \notin {e[1], e[2]}}
<1>1. /\ d \in Known /\ acts' = acts + 1 /\ overlap' = overlap
      /\ project' = [project EXCEPT ![d] = 0] /\ auto' = auto \ {d}
      /\ selected' \in {selected, NoDir} /\ UNCHANGED <<named, there>>
      /\ link' = [kind \in DOMAIN link |-> Others(link[kind])]
  BY DEF RemoveProject, Act
<1>2. /\ link.manual \in SUBSET (Ids \X Ids) /\ link.auto \in SUBSET (Ids \X Ids)
      /\ link.removed \in SUBSET (Ids \X Ids) /\ DOMAIN link = {"manual", "auto", "removed"}
      /\ project \in [Dirs -> Ids \cup {0}]
  BY DEF RegistryTyped
<1>3. /\ link'.manual = Others(link.manual) /\ link'.auto = Others(link.auto)
      /\ link'.removed = Others(link.removed)
  BY <1>1, <1>2
<1>4. link' \in [manual : SUBSET (Ids \X Ids), auto : SUBSET (Ids \X Ids),
                 removed : SUBSET (Ids \X Ids)]
  <2>1. link' = [manual |-> Others(link.manual), auto |-> Others(link.auto),
                 removed |-> Others(link.removed)]
    BY <1>1, <1>2
  <2>. QED
    BY <1>2, <2>1
<1>5. \A x \in Dirs : project'[x] = IF x = d THEN 0 ELSE project[x]
  BY <1>1, <1>2
<1>6. Known' = Known \ {d}
  BY <1>5 DEF Known
<1>7. Cardinality(Known') = Cardinality(Known) - 1
  BY <1>1, <1>6, IdRange, FS_RemoveElement
<1>8. \A x \in Dirs : project'[x] <= Cardinality(Known') + acts'
  <2>. SUFFICES ASSUME NEW x \in Dirs PROVE project'[x] <= Cardinality(Known') + acts'
    OBVIOUS
  <2>1. project'[x] = 0 \/ project'[x] = project[x]
    BY <1>5
  <2>2. /\ project[x] \in Nat /\ acts \in Nat /\ project[x] <= Cardinality(Known) + acts
    BY IdRange DEF RegistryTyped
  <2>. QED
    BY <1>1, <1>7, <2>1, <2>2, IdRange
<1>9. Known \subseteq Dirs
  BY DEF Known
<1>10. \A a, b \in Known' : project'[a] = project'[b] => a = b
  BY <1>5, <1>6, <1>9 DEF RegistryTyped
<1>11. ASSUME NEW e \in link'.manual \cup link'.auto \cup link'.removed
       PROVE  \E a, b \in Known' : e = Edge(a, b)'
  <2>1. /\ e \in link.manual \cup link.auto \cup link.removed
        /\ project[d] # e[1] /\ project[d] # e[2]
    BY <1>3, <1>11
  <2>2. PICK a \in Known, b \in Known : e = Edge(a, b)
    BY <2>1 DEF RegistryTyped
  <2>3. e[1] = project[a] /\ e[2] = project[b]
    BY <2>2 DEF Edge
  <2>4. a # d /\ b # d
    BY <2>1, <2>3
  <2>5. a \in Known' /\ b \in Known' /\ Edge(a, b)' = Edge(a, b)
    BY <1>5, <1>6, <1>9, <2>4 DEF Edge
  <2>. QED
    BY <2>2, <2>5
<1>12. auto' \subseteq Known'
  BY <1>1, <1>6 DEF RegistryTyped
<1>13. selected' \in Dirs \cup {NoDir}
  BY <1>1 DEF RegistryTyped
<1>14. project' \in [Dirs -> Ids \cup {0}]
  BY <1>1, <1>2
<1>15. link'.manual \cap link'.auto = {} /\ link'.removed \cap Active' = {}
  BY <1>3 DEF RegistryTyped, Active
<1>. HIDE DEF Others
<1>. QED
  BY <1>1, <1>4, <1>8, <1>10, <1>11, <1>12, <1>13, <1>14, <1>15 DEF RegistryTyped

-----------------------------------------------------------------------------
(* The steps of one walk, field by field.                                    *)

Typed(g) == g \in WalkRecords /\ Placed(g)

\* What a walk carries along.
Carries(g, h) == g.visited = h.visited /\ g.calm = h.calm /\ g.auto = h.auto

Begins(g) == /\ g.at = "project" /\ g.level = {<<Root, project[Root]>>} /\ g.next = {}
             /\ g.seen = {project[Root]} /\ g.active = Active /\ g.keep = {}
             /\ g.visited = {} /\ g.calm = TRUE

PassesBy(g, h, p) == /\ g.at = "project" /\ g.level = h.level \ {p} /\ g.next = h.next
                     /\ g.keep = h.keep /\ g.seen = h.seen /\ g.active = h.active
                     /\ Carries(g, h)

ReadsProject(g, h, p, unread) ==
    /\ g.at = "target" /\ g.level = h.level \ {p} /\ g.next = h.next /\ g.p = p
    /\ g.refs = IF unread THEN {} ELSE IF p[1] \in there THEN named[p[1]] \cap there ELSE {}
    /\ g.unread = unread /\ g.keep = h.keep /\ g.seen = h.seen /\ g.active = h.active
    /\ Carries(g, h)

GoesDeeper(g, h) == /\ g.at = "project" /\ g.level = h.next /\ g.next = {} /\ g.active = Active
                    /\ g.keep = h.keep /\ g.seen = h.seen /\ Carries(g, h)

Stops(g, h) == g.at = "rest" /\ g.visited = h.visited /\ g.calm = h.calm

\* The reference r is done with, or linked next.
TakesUp(g, h, r) == /\ g.refs = h.refs \ {r} /\ g.level = h.level /\ g.next = h.next /\ g.p = h.p
                    /\ g.unread = h.unread /\ g.keep = h.keep /\ g.seen = h.seen
                    /\ g.active = h.active /\ g.visited = h.visited /\ g.calm = h.calm

LinksOne(g, h, next) ==
    /\ g.at = "target" /\ g.level = h.level /\ g.next = h.next \cup next /\ g.p = h.p
    /\ g.refs = h.refs /\ g.unread = h.unread /\ g.keep = h.keep \cup {h.to[2]}
    /\ g.seen = h.seen \cup {n[2] : n \in next} /\ g.active = h.active /\ Carries(g, h)

DropsRest(g, h) ==
    /\ g.at = "project" /\ g.level = h.level /\ g.next = h.next /\ g.keep = {}
    /\ g.seen = h.seen /\ g.active = h.active /\ g.calm = h.calm /\ g.auto = h.auto
    /\ g.visited = IF h.unread \/ ~h.calm THEN h.visited ELSE h.visited \cup {h.p[1]}

-----------------------------------------------------------------------------
LEMMA FollowStep ==
  ASSUME RegistryTyped, WalksTyped, NEW w \in Walkers, Follow(w)
  PROVE  /\ \E g : Typed(g) /\ Begins(g) /\ Walks(w, g, FALSE)
         /\ Root \in Known /\ overlap' \in BOOLEAN
         /\ UNCHANGED <<project, auto, link, selected, named, there, acts>>
<1> DEFINE g == [Resting EXCEPT !.at = "project", !.level = {<<Root, project[Root]>>},
                                !.seen = {project[Root]}, !.active = Active,
                                !.auto = Cardinality(auto)]
<1>1. /\ Walks(w, g, FALSE) /\ Root \in Known /\ overlap' \in BOOLEAN
      /\ UNCHANGED <<project, auto, link, selected, named, there, acts>>
  BY DEF Follow, FilesRest, RegistryTyped
<1>2. <<Root, project[Root]>> \in Dirs \X Ids /\ project[Root] \in Ids
  BY <1>1 DEF RegistryTyped, Known
<1>3. Active \in SUBSET (Ids \X Ids)
  BY DEF RegistryTyped, Active
<1>4. Cardinality(auto) \in Nat
  <2>1. auto \subseteq Known
    BY DEF RegistryTyped
  <2>. QED
    BY <2>1, IdRange, FS_Subset, FS_CardinalityType
<1>5. Begins(g)
  BY DEF Begins, Resting
<1>6. Typed(g)
  BY <1>2, <1>3, <1>4 DEF Typed, WalkRecords, Placed, Resting
<1>. HIDE DEF g
<1>. QED
  BY <1>1, <1>5, <1>6

LEMMA ProjectStep ==
  ASSUME RegistryTyped, WalksTyped, NEW w \in Walkers, WalkProject(w)
  PROVE  /\ walk[w].at = "project" /\ UNCHANGED <<project, auto, link, selected, named, there, acts>>
         /\ overlap' = overlap
         /\ \E g, p, unread :
               /\ Typed(g) /\ Walks(w, g, FALSE) /\ p \in walk[w].level
               /\ unread \in BOOLEAN /\ (unread => p[1] \in there)
               /\ PassesBy(g, walk[w], p) \/ ReadsProject(g, walk[w], p, unread)
<1> DEFINE h == walk[w]
<1>0. h \in WalkRecords /\ Placed(h)
  BY DEF WalksTyped
<1>1. /\ h.at = "project" /\ UNCHANGED <<project, auto, link, selected, named, there, acts>>
      /\ overlap' = overlap
  BY DEF WalkProject, FilesRest
<1>2. PICK p \in h.level, unread \in BOOLEAN :
        LET found == IF p[1] \in there THEN named[p[1]] \cap there ELSE {} IN
        /\ unread => p[1] \in there
        /\ Walks(w, IF h.depth >= Depth THEN [h EXCEPT !.level = @ \ {p}]
                    ELSE [h EXCEPT !.at = "target", !.level = @ \ {p}, !.p = p,
                                   !.refs = IF unread THEN {} ELSE found,
                                   !.unread = unread], FALSE)
  BY DEF WalkProject
<1> DEFINE found == IF p[1] \in there THEN named[p[1]] \cap there ELSE {}
           f == IF unread THEN {} ELSE found
           passed == [h EXCEPT !.level = @ \ {p}]
           read == [h EXCEPT !.at = "target", !.level = @ \ {p}, !.p = p, !.refs = f,
                             !.unread = unread]
<1>3. Walks(w, IF h.depth >= Depth THEN passed ELSE read, FALSE)
  BY <1>2
<1>4. h.level \in SUBSET (Dirs \X Ids) /\ p \in Dirs \X Ids /\ f \in SUBSET Dirs
  <2>1. h.level \in SUBSET (Dirs \X Ids)
    BY <1>0 DEF WalkRecords
  <2>. QED
    BY <2>1 DEF RegistryTyped
<1>. HIDE DEF f
<1>5. Typed(passed) /\ PassesBy(passed, h, p)
  BY <1>0, <1>1, <1>4 DEF Typed, WalkRecords, Placed, PassesBy, Carries
<1>6. Typed(read)
  BY <1>0, <1>1, <1>4 DEF Typed, WalkRecords, Placed
<1>7. ReadsProject(read, h, p, unread)
  BY <1>0, <1>1, <1>4 DEF WalkRecords, ReadsProject, Carries, f
<1>. HIDE DEF passed, read
<1>8. CASE h.depth >= Depth
  BY <1>1, <1>2, <1>3, <1>5, <1>8
<1>9. CASE ~(h.depth >= Depth)
  BY <1>1, <1>2, <1>3, <1>6, <1>7, <1>9
<1>. QED
  BY <1>8, <1>9

LEMMA LevelStep ==
  ASSUME RegistryTyped, WalksTyped, NEW w \in Walkers, WalkLevel(w)
  PROVE  /\ walk[w].at = "project" /\ walk[w].level = {}
         /\ UNCHANGED <<project, auto, link, selected, named, there, acts>> /\ overlap' = overlap
         /\ \E g : /\ Typed(g) /\ Walks(w, g, FALSE)
                   /\ \/ GoesDeeper(g, walk[w])
                      \/ walk[w].next = {} /\ Stops(g, walk[w])
<1> DEFINE h == walk[w]
           deeper == [h EXCEPT !.level = h.next, !.next = {}, !.depth = @ + 1, !.active = Active]
           over == [Resting EXCEPT !.visited = h.visited, !.calm = h.calm]
<1>0. h \in WalkRecords /\ Placed(h)
  BY DEF WalksTyped
<1>1. /\ h.at = "project" /\ h.level = {} /\ overlap' = overlap
      /\ UNCHANGED <<project, auto, link, selected, named, there, acts>>
      /\ Walks(w, IF h.next # {} THEN deeper ELSE over, FALSE)
  BY DEF WalkLevel, FilesRest
<1>2. Active \in SUBSET (Ids \X Ids)
  BY DEF RegistryTyped, Active
<1>3. Typed(deeper)
  <2>1. \A n \in SUBSET (Dirs \X Ids), a \in SUBSET (Ids \X Ids), k \in Nat :
           [h EXCEPT !.level = n, !.next = {}, !.depth = k, !.active = a] \in WalkRecords
    BY <1>0 DEF WalkRecords
  <2>2. h.next \in SUBSET (Dirs \X Ids) /\ h.depth + 1 \in Nat
    BY <1>0 DEF WalkRecords
  <2>3. deeper \in WalkRecords
    BY <1>2, <2>1, <2>2
  <2>4. deeper.at = "project"
    BY <1>0, <1>1 DEF WalkRecords
  <2>. HIDE DEF deeper
  <2>. QED
    BY <2>3, <2>4 DEF Typed, Placed
<1>4. GoesDeeper(deeper, h)
  BY <1>0, <1>1 DEF WalkRecords, GoesDeeper, Carries
<1>5. Typed(over) /\ Stops(over, h)
  <2>1. h.visited \in SUBSET Dirs /\ h.calm \in BOOLEAN
    BY <1>0 DEF WalkRecords
  <2>2. over \in WalkRecords
    BY <2>1 DEF WalkRecords, Resting
  <2>3. over.at = "rest" /\ over.visited = h.visited /\ over.calm = h.calm
    BY DEF Resting
  <2>. HIDE DEF over
  <2>. QED
    BY <2>2, <2>3 DEF Typed, Placed, Stops
<1>. HIDE DEF deeper, over
<1>. QED
  BY <1>1, <1>3, <1>4, <1>5

-----------------------------------------------------------------------------
FilesStay == UNCHANGED <<selected, named, there, acts, overlap>>

LEMMA TargetStep ==
  ASSUME RegistryTyped, WalksTyped, NEW w \in Walkers, WalkTarget(w)
  PROVE  /\ walk[w].at = "target" /\ UNCHANGED link /\ FilesStay
         /\ \E g, r :
               /\ Typed(g) /\ TakesUp(g, walk[w], r) /\ r \in walk[w].refs /\ r \in Dirs
               /\ \/ /\ UNCHANGED <<project, auto>> /\ Walks(w, g, FALSE) /\ g.auto = walk[w].auto
                     /\ \/ r \in Known /\ project[r] = walk[w].p[2] /\ g.at = "target"
                        \/ /\ r \in Known /\ project[r] # walk[w].p[2] /\ g.at = "link"
                           /\ g.to = <<r, project[r]>>
                        \/ r \notin Known /\ walk[w].auto >= MaxAuto /\ g.at = "target"
                  \/ /\ r \notin Known /\ walk[w].auto < MaxAuto /\ Walks(w, g, TRUE)
                     /\ project' = [project EXCEPT ![r] = NextId] /\ auto' = auto \cup {r}
                     /\ \/ NextId = walk[w].p[2] /\ g.at = "target"
                        \/ NextId # walk[w].p[2] /\ g.at = "link" /\ g.to = <<r, NextId>>
<1> DEFINE h == walk[w]
<1>0. h \in WalkRecords /\ Placed(h)
  BY DEF WalksTyped
<1>1. h.at = "target" /\ UNCHANGED link /\ FilesStay
  BY DEF WalkTarget, FilesRest, FilesStay
<1>2. PICK r \in h.refs :
        LET rest == [h EXCEPT !.refs = @ \ {r}] IN
        \/ /\ r \in Known
           /\ Walks(w, IF project[r] = h.p[2] THEN rest
                       ELSE [rest EXCEPT !.at = "link", !.to = <<r, project[r]>>], FALSE)
           /\ UNCHANGED <<project, auto>>
        \/ /\ r \notin Known /\ h.auto >= MaxAuto
           /\ Walks(w, rest, FALSE) /\ UNCHANGED <<project, auto>>
        \/ /\ r \notin Known /\ h.auto < MaxAuto
           /\ project' = [project EXCEPT ![r] = NextId] /\ auto' = auto \cup {r}
           /\ Walks(w, IF NextId = h.p[2] THEN [rest EXCEPT !.auto = @ + 1]
                       ELSE [rest EXCEPT !.at = "link", !.to = <<r, NextId>>, !.auto = @ + 1],
                    TRUE)
  BY DEF WalkTarget
<1> DEFINE rest == [h EXCEPT !.refs = @ \ {r}]
           linked(n) == [rest EXCEPT !.at = "link", !.to = <<r, n>>]
           counted == [rest EXCEPT !.auto = @ + 1]
           both == [rest EXCEPT !.at = "link", !.to = <<r, NextId>>, !.auto = @ + 1]
<1>3. /\ h.refs \in SUBSET Dirs /\ r \in Dirs /\ h.auto \in Nat /\ h.auto + 1 \in Nat
      /\ h.p \in Dirs \X Ids
  BY <1>0, <1>1, <1>2 DEF WalkRecords, Placed
<1>4. /\ rest \in WalkRecords /\ rest.at = "target" /\ TakesUp(rest, h, r) /\ rest.auto = h.auto
      /\ rest.p \in Dirs \X Ids
  BY <1>0, <1>1, <1>3 DEF WalkRecords, TakesUp
<1>. HIDE DEF rest
<1>5. ASSUME NEW n \in Ids
      PROVE  /\ Typed(linked(n)) /\ TakesUp(linked(n), h, r) /\ linked(n).auto = h.auto
             /\ linked(n).at = "link" /\ linked(n).to = <<r, n>>
  <2>1. <<r, n>> \in Dirs \X Ids
    BY <1>3, <1>5
  <2>2. linked(n) \in WalkRecords
    BY <1>4, <2>1 DEF WalkRecords
  <2>3. /\ linked(n).auto = h.auto /\ linked(n).at = "link" /\ linked(n).to = <<r, n>>
        /\ linked(n).p = rest.p /\ TakesUp(linked(n), h, r)
    BY <1>4 DEF WalkRecords, TakesUp
  <2>. HIDE DEF linked
  <2>. QED
    BY <1>4, <2>1, <2>2, <2>3 DEF Typed, Placed
<1>6. /\ Typed(counted) /\ TakesUp(counted, h, r) /\ counted.auto = h.auto + 1
      /\ counted.at = "target"
  BY <1>3, <1>4 DEF Typed, Placed, WalkRecords, TakesUp
<1>7. /\ Typed(rest) /\ TakesUp(rest, h, r)
  BY <1>4 DEF Typed, Placed
<1>8. ASSUME NextId \in Ids
      PROVE  /\ Typed(both) /\ TakesUp(both, h, r) /\ both.auto = h.auto + 1
             /\ both.at = "link" /\ both.to = <<r, NextId>>
  <2>1. <<r, NextId>> \in Dirs \X Ids
    BY <1>3, <1>8
  <2>2. \A t \in Dirs \X Ids, k \in Nat :
           [rest EXCEPT !.at = "link", !.to = t, !.auto = k] \in WalkRecords
    BY <1>4 DEF WalkRecords
  <2>3. both = [rest EXCEPT !.at = "link", !.to = <<r, NextId>>, !.auto = h.auto + 1]
    BY <1>4
  <2>4. both \in WalkRecords
    BY <1>3, <2>1, <2>2, <2>3
  <2>5. /\ both.auto = h.auto + 1 /\ both.at = "link" /\ both.to = <<r, NextId>>
        /\ both.p = rest.p /\ TakesUp(both, h, r)
    BY <1>4 DEF WalkRecords, TakesUp
  <2>. HIDE DEF both
  <2>. QED
    BY <1>4, <2>1, <2>4, <2>5 DEF Typed, Placed
<1>9. \/ /\ r \in Known /\ Walks(w, IF project[r] = h.p[2] THEN rest ELSE linked(project[r]), FALSE)
         /\ UNCHANGED <<project, auto>>
      \/ /\ r \notin Known /\ h.auto >= MaxAuto
         /\ Walks(w, rest, FALSE) /\ UNCHANGED <<project, auto>>
      \/ /\ r \notin Known /\ h.auto < MaxAuto
         /\ project' = [project EXCEPT ![r] = NextId] /\ auto' = auto \cup {r}
         /\ Walks(w, IF NextId = h.p[2] THEN counted ELSE both, TRUE)
  BY <1>2 DEF rest
<1>. HIDE DEF linked, counted, both
<1>10. CASE /\ r \in Known /\ Walks(w, IF project[r] = h.p[2] THEN rest ELSE linked(project[r]), FALSE)
            /\ UNCHANGED <<project, auto>>
  <2>1. project[r] \in Ids
    BY <1>3, <1>10 DEF RegistryTyped, Known
  <2>2. CASE project[r] = h.p[2]
    BY <1>1, <1>2, <1>3, <1>4, <1>7, <1>10, <2>2
  <2>3. CASE project[r] # h.p[2]
    <3>1. PICK g : g = linked(project[r])
      OBVIOUS
    <3>2. Walks(w, g, FALSE)
      BY <1>10, <2>3, <3>1
    <3>3. /\ Typed(g) /\ TakesUp(g, h, r) /\ g.auto = h.auto /\ g.at = "link"
          /\ g.to = <<r, project[r]>>
      BY <1>5, <2>1, <3>1
    <3>. QED
      BY <1>1, <1>2, <1>3, <1>10, <2>3, <3>2, <3>3
  <2>. QED
    BY <2>2, <2>3
<1>11. CASE /\ r \notin Known /\ h.auto >= MaxAuto
            /\ Walks(w, rest, FALSE) /\ UNCHANGED <<project, auto>>
  BY <1>1, <1>2, <1>3, <1>4, <1>7, <1>11
<1>12. CASE /\ r \notin Known /\ h.auto < MaxAuto
            /\ project' = [project EXCEPT ![r] = NextId] /\ auto' = auto \cup {r}
            /\ Walks(w, IF NextId = h.p[2] THEN counted ELSE both, TRUE)
  <2>1. NextId \in Ids
    BY <1>3, <1>12, NextIdIsNew
  <2>2. CASE NextId = h.p[2]
    <3>1. Walks(w, counted, TRUE)
      BY <1>12, <2>2
    <3>2. counted.at = "target" /\ TakesUp(counted, h, r) /\ Typed(counted)
      BY <1>6
    <3>. QED
      BY <1>1, <1>2, <1>3, <1>12, <2>2, <3>1, <3>2
  <2>3. CASE NextId # h.p[2]
    BY <1>1, <1>2, <1>3, <1>8, <1>12, <2>1, <2>3
  <2>. QED
    BY <2>2, <2>3
<1>. QED
  BY <1>9, <1>10, <1>11, <1>12

LEMMA LinkStep ==
  ASSUME RegistryTyped, WalksTyped, NEW w \in Walkers, WalkLink(w)
  PROVE  /\ walk[w].at = "link" /\ UNCHANGED <<project, auto>> /\ FilesStay
         /\ \/ /\ link' = link /\ Walks(w, Resting, FALSE)
               /\ ~({walk[w].p[2], walk[w].to[2]} \subseteq {project[d] : d \in Dirs})
            \/ \E g, next, made : LET e == <<walk[w].p[2], walk[w].to[2]>> IN
               /\ Typed(g) /\ Walks(w, g, made) /\ LinksOne(g, walk[w], next)
               /\ made \in BOOLEAN /\ \E a, b \in Known : e = Edge(a, b)
               /\ made => /\ e \notin Active \cup link.removed /\ link' \in RowsTyped
                          /\ link'.manual = link.manual /\ link'.auto = link.auto \cup {e}
                          /\ link'.removed = link.removed
               /\ ~made => e \in Active \cup link.removed /\ link' = link
               /\ next = IF (made \/ e \in walk[w].active) /\ walk[w].to[2] \notin walk[w].seen
                         THEN {walk[w].to} ELSE {}
<1> DEFINE h == walk[w]
           e == <<h.p[2], h.to[2]>>
           free == (Ids \X Ids) \ (Active \cup link.removed)
           made == e \in free
           next == IF (made \/ e \in h.active) /\ h.to[2] \notin h.seen THEN {h.to} ELSE {}
           on == [h EXCEPT !.at = "target", !.to = <<NoDir, 0>>,
                           !.keep = @ \cup {h.to[2]}, !.next = @ \cup next,
                           !.seen = @ \cup {n[2] : n \in next}]
<1>0. h \in WalkRecords /\ Placed(h)
  BY DEF WalksTyped
<1>1. h.at = "link" /\ UNCHANGED <<project, auto>> /\ FilesStay
  BY DEF WalkLink, LinkIn, FilesRest, FilesStay
<1>2. h.p \in Dirs \X Ids /\ h.to \in Dirs \X Ids /\ e \in Ids \X Ids /\ h.to[2] \in Ids
  BY <1>0, <1>1 DEF Placed
<1>3. CASE ~({h.p[2], h.to[2]} \subseteq {project[d] : d \in Dirs})
  <2>1. Walks(w, Resting, FALSE) /\ link' = link
    BY <1>3 DEF WalkLink, LinkIn
  <2>. QED
    BY <1>1, <1>3, <2>1
<1>4. CASE {h.p[2], h.to[2]} \subseteq {project[d] : d \in Dirs}
  <2>1. /\ Walks(w, on, made)
        /\ link' = IF made THEN [link EXCEPT !.auto = @ \cup {e}, !.removed = @ \ {e}] ELSE link
    BY <1>4 DEF WalkLink, LinkIn
  <2>2. PICK a \in Dirs, b \in Dirs : h.p[2] = project[a] /\ h.to[2] = project[b]
    BY <1>4
  <2>3. a \in Known /\ b \in Known /\ e = Edge(a, b)
    BY <1>2, <2>2, IdRange DEF Known, Edge
  <2>4. made \in BOOLEAN /\ (made <=> e \notin Active \cup link.removed)
    BY <1>2
  <2>5. ASSUME made
        PROVE  /\ link' \in RowsTyped /\ link'.manual = link.manual
               /\ link'.auto = link.auto \cup {e} /\ link'.removed = link.removed
    <3>1. /\ link \in RowsTyped /\ e \in Ids \X Ids /\ e \notin link.removed
          /\ link' = [link EXCEPT !.auto = @ \cup {e}, !.removed = @ \ {e}]
      BY <1>2, <2>1, <2>4, <2>5 DEF RegistryTyped, RowsTyped
    <3>2. link'.manual = link.manual /\ link'.auto = link.auto \cup {e} /\ link'.removed = link.removed
      BY <3>1 DEF RowsTyped
    <3>3. /\ \A x, y \in SUBSET (Ids \X Ids) : [link EXCEPT !.auto = x, !.removed = y] \in RowsTyped
          /\ link.auto \cup {e} \in SUBSET (Ids \X Ids) /\ link.removed \ {e} \in SUBSET (Ids \X Ids)
      BY <3>1 DEF RowsTyped
    <3>4. link' = [link EXCEPT !.auto = link.auto \cup {e}, !.removed = link.removed \ {e}]
      BY <3>1
    <3>5. link' \in RowsTyped
      BY <3>3, <3>4
    <3>. QED
      BY <3>2, <3>5
  <2>6. ~made => e \in Active \cup link.removed /\ link' = link
    BY <2>1, <2>4
  <2>7. next \in SUBSET (Dirs \X Ids) /\ {n[2] : n \in next} \in SUBSET Ids
    BY <1>2
  <2>. HIDE DEF e, made, next
  <2>8. Typed(on)
    <3>1. \A t, s, k, n : /\ t \in (Dirs \X Ids) \cup {<<NoDir, 0>>} /\ s \in SUBSET Ids
                          /\ k \in SUBSET Ids /\ n \in SUBSET (Dirs \X Ids)
             => [h EXCEPT !.at = "target", !.to = t, !.keep = k, !.next = n, !.seen = s]
                  \in WalkRecords
      <4>1. \A g \in WalkRecords :
              /\ [g EXCEPT !.at = "target"] \in WalkRecords
              /\ \A t \in (Dirs \X Ids) \cup {<<NoDir, 0>>} : [g EXCEPT !.to = t] \in WalkRecords
        BY DEF WalkRecords
      <4>2. \A g \in WalkRecords :
              /\ \A k \in SUBSET Ids : [g EXCEPT !.keep = k] \in WalkRecords
              /\ \A s \in SUBSET Ids : [g EXCEPT !.seen = s] \in WalkRecords
        BY DEF WalkRecords
      <4>3. \A g \in WalkRecords, n \in SUBSET (Dirs \X Ids) : [g EXCEPT !.next = n] \in WalkRecords
        BY DEF WalkRecords
      <4>4. \A t, s, k, n : /\ t \in (Dirs \X Ids) \cup {<<NoDir, 0>>} /\ s \in SUBSET Ids
                            /\ k \in SUBSET Ids /\ n \in SUBSET (Dirs \X Ids)
               => [[[[[h EXCEPT !.at = "target"] EXCEPT !.to = t] EXCEPT !.keep = k]
                      EXCEPT !.next = n] EXCEPT !.seen = s] \in WalkRecords
        BY <1>0, <4>1, <4>2, <4>3
      <4>. QED
        BY <4>4
    <3>2. /\ h.keep \cup {h.to[2]} \in SUBSET Ids /\ h.next \cup next \in SUBSET (Dirs \X Ids)
          /\ h.seen \cup {n[2] : n \in next} \in SUBSET Ids
      <4>1. h.keep \in SUBSET Ids /\ h.next \in SUBSET (Dirs \X Ids) /\ h.seen \in SUBSET Ids
        BY <1>0 DEF WalkRecords
      <4>. QED
        BY <1>2, <2>7, <4>1
    <3>3. on = [h EXCEPT !.at = "target", !.to = <<NoDir, 0>>, !.keep = h.keep \cup {h.to[2]},
                         !.next = h.next \cup next, !.seen = h.seen \cup {n[2] : n \in next}]
      OBVIOUS
    <3>4. on \in WalkRecords
      BY <3>1, <3>2, <3>3
    <3>5. on.at = "target" /\ on.p = h.p
      BY <1>0 DEF WalkRecords
    <3>. HIDE DEF on
    <3>. QED
      BY <1>2, <3>4, <3>5 DEF Typed, Placed
  <2>9. LinksOne(on, h, next)
    BY <1>0 DEF WalkRecords, LinksOne, Carries
  <2>10. next = IF (made \/ e \in h.active) /\ h.to[2] \notin h.seen THEN {h.to} ELSE {}
    BY DEF next
  <2>. HIDE DEF on
  <2>. QED
    BY <1>1, <2>1, <2>3, <2>4, <2>5, <2>6, <2>8, <2>9, <2>10 DEF e
<1>. QED
  BY <1>3, <1>4

LEMMA DropsStep ==
  ASSUME RegistryTyped, WalksTyped, NEW w \in Walkers, WalkDrops(w)
  PROVE  /\ walk[w].at = "target" /\ walk[w].refs = {} /\ UNCHANGED <<project, auto>> /\ FilesStay
         /\ \E g, drop :
               /\ drop = {e \in link.auto : /\ ~walk[w].unread /\ e[1] = walk[w].p[2]
                                            /\ e[2] \notin walk[w].keep}
               /\ Typed(g) /\ DropsRest(g, walk[w]) /\ Walks(w, g, drop # {})
               /\ link' \in RowsTyped /\ link'.manual = link.manual
               /\ link'.removed = link.removed /\ link'.auto = link.auto \ drop
<1> DEFINE h == walk[w]
           drop == {e \in link.auto : ~h.unread /\ e[1] = h.p[2] /\ e[2] \notin h.keep}
           v == IF h.unread \/ ~h.calm THEN h.visited ELSE h.visited \cup {h.p[1]}
           on == [h EXCEPT !.at = "project", !.p = <<NoDir, 0>>, !.keep = {}, !.unread = FALSE,
                           !.visited = IF h.unread \/ ~h.calm THEN @ ELSE @ \cup {h.p[1]}]
<1>0. h \in WalkRecords /\ Placed(h)
  BY DEF WalksTyped
<1>1. /\ h.at = "target" /\ h.refs = {} /\ UNCHANGED <<project, auto>> /\ FilesStay
      /\ Walks(w, on, drop # {}) /\ link' = [link EXCEPT !.auto = @ \ drop]
  BY DEF WalkDrops, FilesRest, FilesStay
<1>2. v \in SUBSET Dirs
  BY <1>0, <1>1 DEF WalkRecords, Placed
<1>3. on = [h EXCEPT !.at = "project", !.p = <<NoDir, 0>>, !.keep = {}, !.unread = FALSE,
                     !.visited = v]
  OBVIOUS
<1>4. drop \subseteq link.auto
  OBVIOUS
<1>. HIDE DEF v, drop, on
<1>5. on \in WalkRecords
  <2>1. \A x \in SUBSET Dirs : [h EXCEPT !.at = "project", !.p = <<NoDir, 0>>, !.keep = {},
                                         !.unread = FALSE, !.visited = x] \in WalkRecords
    BY <1>0 DEF WalkRecords
  <2>. QED
    BY <1>2, <1>3, <2>1
<1>6. DropsRest(on, h)
  BY <1>0, <1>3 DEF WalkRecords, DropsRest, v
<1>7. Typed(on)
  BY <1>5, <1>6 DEF Typed, Placed, DropsRest
<1>8. /\ link' \in RowsTyped /\ link'.manual = link.manual
      /\ link'.removed = link.removed /\ link'.auto = link.auto \ drop
  <2>1. link \in RowsTyped
    BY DEF RegistryTyped, RowsTyped
  <2>2. \A x \in SUBSET (Ids \X Ids) : [link EXCEPT !.auto = x] \in RowsTyped
    BY <2>1 DEF RowsTyped
  <2>3. link.auto \ drop \in SUBSET (Ids \X Ids)
    BY <2>1 DEF RowsTyped
  <2>. QED
    BY <1>1, <2>1, <2>2, <2>3 DEF RowsTyped
<1>. QED
  BY <1>1, <1>6, <1>7, <1>8 DEF drop

-----------------------------------------------------------------------------
\* What the user does.
UserActs ==
    \/ \E d \in Dirs : \/ AddProject(d) \/ SelectProject(d) \/ ResolveProject(d)
                       \/ RemoveProject(d) \/ EditManifest(d) \/ DirectoryGoes(d)
    \/ \E a, b \in Dirs : LinkByHand(a, b)
    \/ \E e \in Ids \X Ids : Unlink(e)

\* What one walk does.
WalkSteps(w) == \/ Follow(w) \/ WalkProject(w) \/ WalkLevel(w) \/ WalkTarget(w)
                \/ WalkLink(w) \/ WalkDrops(w)

LEMMA UserTyped ==
  ASSUME RegistryTyped, WalksTyped, UserActs
  PROVE  RegistryTyped' /\ WalksTyped' /\ Act
<1>1. Act
  BY DEF UserActs, AddProject, SelectProject, ResolveProject, RemoveProject, EditManifest,
         DirectoryGoes, LinkByHand, Unlink
<1>2. /\ WalksTyped' /\ acts' \in 0..MaxActs /\ acts' \in {acts, acts + 1}
      /\ overlap' \in BOOLEAN
  <2>1. acts \in 0..MaxActs /\ overlap \in BOOLEAN
    BY DEF RegistryTyped
  <2>2. acts' = acts + 1 /\ overlap' = overlap
    BY <1>1 DEF Act
  <2>3. WalksTyped' /\ acts' \in 0..MaxActs
    BY <1>1, <2>1, ActTyped
  <2>. QED
    BY <2>1, <2>2, <2>3
<1>3. ASSUME NEW d \in Dirs, AddProject(d) PROVE RegistryTyped'
  <2>1. /\ d \in Dirs \ Known /\ project' = [project EXCEPT ![d] = NextId] /\ auto' = auto
        /\ UNCHANGED <<selected, link, named, there>>
    BY <1>3 DEF AddProject, RegistryTyped
  <2>. QED
    BY <1>2, <2>1, AddedTyped
<1>4. ASSUME NEW d \in Dirs,
             SelectProject(d) \/ ResolveProject(d) \/ EditManifest(d) \/ DirectoryGoes(d)
      PROVE  RegistryTyped'
  <2>1. UNCHANGED <<project, auto, link>>
    BY <1>4 DEF SelectProject, ResolveProject, EditManifest, DirectoryGoes, userVars
  <2>2. selected' \in Dirs \cup {NoDir}
    BY <1>4 DEF SelectProject, ResolveProject, EditManifest, DirectoryGoes, userVars, RegistryTyped
  <2>3. named' \in [Dirs -> SUBSET Dirs]
    <3>1. CASE named' = named
      BY <3>1 DEF RegistryTyped
    <3>2. CASE EditManifest(d)
      <4>1. PICK S \in References[d] : named' = [named EXCEPT ![d] = S]
        BY <3>2 DEF EditManifest
      <4>2. S \in SUBSET Dirs
        BY <4>1, LinkConstants
      <4>. QED
        BY <4>1, <4>2 DEF RegistryTyped
    <3>. QED
      BY <1>4, <3>1, <3>2 DEF SelectProject, ResolveProject, DirectoryGoes
  <2>4. there' \subseteq Dirs /\ Root \in there'
    BY <1>4 DEF SelectProject, ResolveProject, EditManifest, DirectoryGoes, RegistryTyped
  <2>. QED
    BY <1>2, <2>1, <2>2, <2>3, <2>4, OthersTyped
<1>5. ASSUME NEW d \in Dirs, RemoveProject(d) PROVE RegistryTyped'
  BY <1>2, <1>5, RemovedTyped
<1>6. ASSUME NEW a \in Dirs, NEW b \in Dirs, LinkByHand(a, b) PROVE RegistryTyped'
  <2> DEFINE e == <<project[a], project[b]>>
  <2>1. /\ UNCHANGED <<project, auto, selected, named, there>> /\ a \in Known /\ b \in Known
        /\ link' = [manual |-> link.manual \cup {e}, auto |-> link.auto \ {e},
                    removed |-> link.removed \ {e}]
    BY <1>6 DEF LinkByHand
  <2>2. e = Edge(a, b) /\ e \in Ids \X Ids
    BY <2>1 DEF Edge, RegistryTyped, Known
  <2>. HIDE DEF e
  <2>3. /\ link'.manual = link.manual \cup {e} /\ link'.auto = link.auto \ {e}
        /\ link'.removed = link.removed \ {e}
    BY <2>1
  <2>4. /\ link.manual \in SUBSET (Ids \X Ids) /\ link.auto \in SUBSET (Ids \X Ids)
        /\ link.removed \in SUBSET (Ids \X Ids)
        /\ link.manual \cap link.auto = {} /\ link.removed \cap (link.manual \cup link.auto) = {}
    BY DEF RegistryTyped, Active
  <2>5. link' \in RowsTyped
    BY <2>1, <2>2, <2>4 DEF RowsTyped
  <2>6. \A x \in link'.manual \cup link'.auto \cup link'.removed :
           x \in link.manual \cup link.auto \cup link.removed \/ \E c, d \in Known : x = Edge(c, d)
    BY <2>1, <2>2, <2>3
  <2>7. link'.manual \cap link'.auto = {} /\ link'.removed \cap (link'.manual \cup link'.auto) = {}
    BY <2>3, <2>4
  <2>. QED
    BY <1>2, <2>1, <2>5, <2>6, <2>7, LinkedTyped
<1>7. ASSUME NEW e \in Ids \X Ids, Unlink(e) PROVE RegistryTyped'
  <2>1. UNCHANGED <<project, auto, selected, named, there>>
    BY <1>7 DEF Unlink
  <2>2. /\ link \in RowsTyped
        /\ link.manual \in SUBSET (Ids \X Ids) /\ link.auto \in SUBSET (Ids \X Ids)
        /\ link.removed \in SUBSET (Ids \X Ids)
        /\ link.manual \cap link.auto = {} /\ link.removed \cap (link.manual \cup link.auto) = {}
    BY DEF RegistryTyped, RowsTyped, Active
  <2>3. \/ link' = [link EXCEPT !.manual = @ \ {e}]
        \/ e \in link.auto /\ link' = [link EXCEPT !.auto = @ \ {e}, !.removed = @ \cup {e}]
    BY <1>7 DEF Unlink, Active
  <2>4. CASE link' = [link EXCEPT !.manual = @ \ {e}]
    <3>1. /\ link'.manual = link.manual \ {e} /\ link'.auto = link.auto
          /\ link'.removed = link.removed
      BY <2>2, <2>4 DEF RowsTyped
    <3>2. link' \in RowsTyped
      BY <2>2, <2>4 DEF RowsTyped
    <3>. QED
      BY <1>2, <2>1, <2>2, <3>1, <3>2, LinkedTyped
  <2>5. CASE e \in link.auto /\ link' = [link EXCEPT !.auto = @ \ {e}, !.removed = @ \cup {e}]
    <3>1. /\ link'.manual = link.manual /\ link'.auto = link.auto \ {e}
          /\ link'.removed = link.removed \cup {e}
      BY <2>2, <2>5 DEF RowsTyped
    <3>2. link' \in RowsTyped
      BY <2>2, <2>5 DEF RowsTyped
    <3>3. \A x \in link'.manual \cup link'.auto \cup link'.removed :
             x \in link.manual \cup link.auto \cup link.removed
      BY <2>5, <3>1
    <3>4. /\ link'.manual \cap link'.auto = {}
          /\ link'.removed \cap (link'.manual \cup link'.auto) = {}
      BY <2>2, <2>5, <3>1
    <3>. QED
      BY <1>2, <2>1, <3>2, <3>3, <3>4, LinkedTyped
  <2>. QED
    BY <2>3, <2>4, <2>5
<1>. QED
  BY <1>1, <1>2, <1>3, <1>4, <1>5, <1>6, <1>7 DEF UserActs

LEMMA WalkTyped ==
  ASSUME RegistryTyped, WalksTyped, NEW w \in Walkers, WalkSteps(w)
  PROVE  RegistryTyped' /\ WalksTyped'
<1>1. /\ acts \in 0..MaxActs /\ overlap \in BOOLEAN /\ selected \in Dirs \cup {NoDir}
      /\ named \in [Dirs -> SUBSET Dirs] /\ there \subseteq Dirs /\ Root \in there
      /\ link \in RowsTyped
      /\ link.manual \cap link.auto = {} /\ link.removed \cap (link.manual \cup link.auto) = {}
  BY DEF RegistryTyped, RowsTyped, Active
<1>2. ASSUME NEW g, Typed(g), NEW changes \in BOOLEAN, Walks(w, g, changes)
      PROVE  WalksTyped'
  BY <1>2, WalksGoOn DEF Typed
<1>3. Typed(Resting)
  BY RestingTyped DEF Typed
<1>4. CASE Follow(w) \/ WalkProject(w) \/ WalkLevel(w)
  <2>1. /\ UNCHANGED <<project, auto, link, selected, named, there, acts>> /\ overlap' \in BOOLEAN
        /\ \E g : Typed(g) /\ Walks(w, g, FALSE)
    BY <1>1, <1>4, FollowStep, ProjectStep, LevelStep
  <2>2. RegistryTyped'
    BY <1>1, <2>1, OthersTyped
  <2>. QED
    BY <1>2, <2>1, <2>2
<1>5. CASE WalkTarget(w)
  <2>1. UNCHANGED link /\ FilesStay
    BY <1>5, TargetStep
  <2>2. PICK g, r : /\ Typed(g) /\ r \in Dirs
                    /\ \/ UNCHANGED <<project, auto>> /\ Walks(w, g, FALSE)
                       \/ /\ r \notin Known /\ Walks(w, g, TRUE)
                          /\ project' = [project EXCEPT ![r] = NextId] /\ auto' = auto \cup {r}
    BY <1>5, TargetStep
  <2>3. WalksTyped'
    BY <1>2, <2>2
  <2>4. CASE UNCHANGED <<project, auto>>
    BY <1>1, <2>1, <2>3, <2>4, OthersTyped DEF FilesStay
  <2>5. CASE /\ r \notin Known /\ project' = [project EXCEPT ![r] = NextId] /\ auto' = auto \cup {r}
    BY <1>1, <2>1, <2>2, <2>3, <2>5, AddedTyped DEF FilesStay
  <2>. QED
    BY <2>2, <2>4, <2>5
<1>6. CASE WalkLink(w)
  <2>1. UNCHANGED <<project, auto>> /\ FilesStay
    BY <1>6, LinkStep
  <2>2. CASE link' = link
    <3>1. RegistryTyped'
      BY <1>1, <2>1, <2>2, OthersTyped DEF FilesStay
    <3>2. \E g, changes : Typed(g) /\ changes \in BOOLEAN /\ Walks(w, g, changes)
      BY <1>3, <1>6, LinkStep
    <3>. QED
      BY <1>2, <3>1, <3>2
  <2>3. CASE link' # link
    <3> DEFINE e == <<walk[w].p[2], walk[w].to[2]>>
    <3>1. PICK g : /\ Typed(g) /\ Walks(w, g, TRUE)
                   /\ \E a, b \in Known : e = Edge(a, b)
                   /\ e \notin Active \cup link.removed /\ link' \in RowsTyped
                   /\ link'.manual = link.manual /\ link'.auto = link.auto \cup {e}
                   /\ link'.removed = link.removed
      BY <1>6, <2>3, LinkStep
    <3>. HIDE DEF e
    <3>2. WalksTyped'
      BY <1>2, <3>1
    <3>3. /\ link'.manual \cap link'.auto = {}
          /\ link'.removed \cap (link'.manual \cup link'.auto) = {}
      BY <1>1, <3>1 DEF Active
    <3>4. \A x \in link'.manual \cup link'.auto \cup link'.removed :
             x \in link.manual \cup link.auto \cup link.removed \/ \E c, d \in Known : x = Edge(c, d)
      BY <3>1
    <3>5. RegistryTyped'
      BY <1>1, <2>1, <3>1, <3>3, <3>4, LinkedTyped DEF FilesStay
    <3>. QED
      BY <3>2, <3>5
  <2>. QED
    BY <2>2, <2>3
<1>7. CASE WalkDrops(w)
  <2>1. UNCHANGED <<project, auto>> /\ FilesStay
    BY <1>7, DropsStep
  <2>2. PICK g, drop : /\ Typed(g) /\ Walks(w, g, drop # {})
                       /\ link' \in RowsTyped /\ link'.manual = link.manual
                       /\ link'.removed = link.removed /\ link'.auto = link.auto \ drop
    BY <1>7, DropsStep
  <2>3. (drop # {}) \in BOOLEAN
    OBVIOUS
  <2>4. WalksTyped'
    BY <1>2, <2>2, <2>3
  <2>5. /\ link'.manual \cap link'.auto = {}
        /\ link'.removed \cap (link'.manual \cup link'.auto) = {}
        /\ \A x \in link'.manual \cup link'.auto \cup link'.removed :
              x \in link.manual \cup link.auto \cup link.removed
    BY <1>1, <2>2
  <2>6. RegistryTyped'
    BY <1>1, <2>1, <2>2, <2>5, LinkedTyped DEF FilesStay
  <2>. QED
    BY <2>4, <2>6
<1>. QED
  BY <1>4, <1>5, <1>6, <1>7 DEF WalkSteps

LEMMA LinksStart ==
  ASSUME LinksInit
  PROVE  RegistryTyped /\ WalksTyped
<1>1. /\ project = [d \in Dirs |-> IF d = Root THEN 1 ELSE 0] /\ auto = {} /\ selected = NoDir
      /\ link = [manual |-> {}, auto |-> {}, removed |-> {}] /\ there = Dirs
      /\ walk = [w \in Walkers |-> Resting] /\ acts = 0 /\ overlap = FALSE
  BY DEF LinksInit
<1>2. Known = {Root} /\ Root \in Dirs /\ Cardinality(Known) = 1
  <2>1. Root \in Dirs /\ \A d \in Dirs : project[d] # 0 <=> d = Root
    BY <1>1, LinkConstants
  <2>2. Known = {Root}
    BY <2>1 DEF Known
  <2>. QED
    BY <2>1, <2>2, FS_Singleton
<1>3. named \in [Dirs -> SUBSET Dirs]
  BY DEF LinksInit
<1>4. project \in [Dirs -> Ids \cup {0}] /\ \A d \in Dirs : project[d] <= Cardinality(Known) + acts
  <2>1. \A d \in Dirs : project[d] \in {0, 1}
    BY <1>1
  <2>2. 1 \in Ids
    BY IdRange
  <2>3. project \in [Dirs -> Ids \cup {0}]
    BY <1>1, <2>2
  <2>4. Cardinality(Known) + acts = 1
    BY <1>1, <1>2
  <2>. QED
    BY <2>1, <2>3, <2>4
<1>5. WalksTyped
  BY <1>1, RestingTyped DEF WalksTyped
<1>. QED
  <2>1. link.manual = {} /\ link.auto = {} /\ link.removed = {}
    BY <1>1
  <2>2. link \in [manual : SUBSET (Ids \X Ids), auto : SUBSET (Ids \X Ids),
                  removed : SUBSET (Ids \X Ids)]
    BY <1>1
  <2>3. acts \in 0..MaxActs /\ overlap \in BOOLEAN
    <3>1. acts = 0 /\ MaxActs \in Nat
      BY <1>1, LinkConstants
    <3>2. overlap \in BOOLEAN
      BY <1>1
    <3>. QED
      BY <3>1, <3>2
  <2>4. \A a, b \in Known : project[a] = project[b] => a = b
    BY <1>2
  <2>5. auto \subseteq Known /\ selected \in Dirs \cup {NoDir} /\ there \subseteq Dirs /\ Root \in there
    BY <1>1, <1>2
  <2>6. Active = {}
    BY <2>1 DEF Active
  <2>7. RegistryTyped
    BY <1>3, <1>4, <2>1, <2>2, <2>3, <2>4, <2>5, <2>6 DEF RegistryTyped
  <2>. QED
    BY <1>5, <2>7

LEMMA LinksSteps ==
  ASSUME RegistryTyped, WalksTyped, [LinksNext]_linkVars
  PROVE  RegistryTyped' /\ WalksTyped'
<1>1. CASE UNCHANGED linkVars
  BY <1>1 DEF linkVars, userVars, RegistryTyped, WalksTyped, Known, Active, Edge, Placed
<1>2. CASE UserActs
  BY <1>2, UserTyped
<1>3. ASSUME NEW w \in Walkers, WalkSteps(w)
      PROVE  RegistryTyped' /\ WalksTyped'
  BY <1>3, WalkTyped
<1>. QED
  BY <1>1, <1>2, <1>3 DEF LinksNext, UserActs, WalkSteps

-----------------------------------------------------------------------------
(* What a calm walk knows of the registry.                                   *)

\* The project it is at, and those it will come to.
Entered(h) == IF h.at \in {"target", "link"} THEN {h.p} ELSE {}
Coming(h) == h.level \cup h.next

\* It has followed, or will keep, the active link from b to d: b is one of its projects
\* and not to be read any more, and if b is being read, d is among the targets found.
LeadsTo(h, b, d) ==
    /\ b \in Known /\ project[b] \in h.seen /\ Edge(b, d) \in Active
    /\ \A q \in Coming(h) : q[1] # b
    /\ \A q \in Entered(h) : q[1] = b => project[d] \in h.keep

Closed(h, X) == Root \in X /\ \A b \in X \cap there, d \in Known : LeadsTo(h, b, d) => d \in X

\* Each project of the walk is there, and can be reached from the root over links that
\* the walk will not drop.
Reached(h) ==
    /\ Root \in Known /\ project[Root] \in h.seen
    /\ \A n \in h.seen : \E d \in Known \cap there : project[d] = n
    /\ \A q \in Coming(h) \cup Entered(h) : q[1] \in Known /\ q[2] = project[q[1]] /\ q[2] \in h.seen
    /\ h.level \cap h.next = {} /\ Entered(h) \cap Coming(h) = {}
    /\ \A X \in SUBSET Dirs : Closed(h, X) => \A d \in Known : project[d] \in h.seen => d \in X

\* A reference is done with: its project is a target and has a row, or there is none
\* because references have added enough.
Handled(h, d) == d \in Known => project[d] \in h.keep /\ Edge(h.p[1], d) \in Active \cup link.removed
Declined(h, d) == d \notin Known => h.auto >= MaxAuto

\* The references still to take up and the targets found are of the manifests, and the
\* links it has read are active, or else of a project it is through with.
ReadsTrue(h) ==
    /\ h.at \notin {"target", "link"} => h.keep = {}
    /\ h.at \in {"target", "link"} =>
          LET names == named[h.p[1]] \cap there IN
          /\ h.refs \subseteq names /\ (h.unread => h.refs = {} /\ h.at = "target")
          /\ \A n \in h.keep : \E d \in names \cap Known : project[d] = n
          /\ h.at = "link" => /\ h.to[1] \in names \cap Known /\ h.to[2] = project[h.to[1]]
                              /\ h.to[1] # h.p[1]
          /\ ~h.unread => \A d \in names \ (h.refs \cup {h.p[1]}) :
                (h.at = "link" /\ d = h.to[1]) \/ (Handled(h, d) /\ Declined(h, d))
    /\ \A e \in h.active : e \in Active \/ \A q \in h.level \cup Entered(h) : q[2] # e[1]

\* WalkAgrees of one project.
Agreed(p) == \A d \in Known \ {p} :
    /\ Edge(p, d) \in link.auto => d \in named[p] \cap there
    /\ d \in named[p] \cap there => Edge(p, d) \in Active \cup link.removed

VisitedTrue(h) == \A p \in h.visited :
    /\ p \in Known /\ project[p] \in h.seen /\ Agreed(p)
    /\ \A d \in named[p] \cap there : Declined(h, d)

\* It is in the scope: no set that active links do not lead out of can do without it.
InScope(p) ==
    /\ p \in there
    /\ \A X \in SUBSET Dirs :
          Root \in X /\ (\A b \in X \cap there, d \in Known : Edge(b, d) \in Active => d \in X)
          => p \in X

GoesTrue(h) == Reached(h) /\ ReadsTrue(h) /\ VisitedTrue(h)

Knows(h) ==
    /\ ~h.calm => h.visited = {}
    /\ h.at = "rest" => \A p \in h.visited : Agreed(p) /\ InScope(p)
    /\ h.at # "rest" /\ h.calm => GoesTrue(h)

LEMMA Registry ==
  ASSUME RegistryTyped
  PROVE  /\ Known \subseteq Dirs /\ \A d \in Known : project[d] \in Ids
         /\ \A a, b \in Known : project[a] = project[b] => a = b
         /\ \A a, b \in Known : Edge(a, b)[1] = project[a] /\ Edge(a, b)[2] = project[b]
BY DEF RegistryTyped, Known, Edge

\* The projects of a walk are known, each with its own id, and those it comes to are in
\* no other place of it.
LEMMA OneIdOneProject ==
  ASSUME RegistryTyped, NEW h \in WalkRecords, Reached(h)
  PROVE  /\ \A q, r \in Coming(h) \cup Entered(h) : q[1] = r[1] => q = r
         /\ \A q, r \in Coming(h) \cup Entered(h) : q[2] = r[2] => q = r
         /\ \A d \in Known : project[d] \in h.seen => d \in there
         /\ \A d \in Known, q \in Coming(h) \cup Entered(h) : project[d] = q[2] => d = q[1]
<1>1. \A q \in Coming(h) \cup Entered(h) : q[1] \in Known /\ q[2] = project[q[1]]
  BY DEF Reached
<1>2. \A q \in Coming(h) \cup Entered(h) : q = <<q[1], q[2]>>
  <2>1. h.level \in SUBSET (Dirs \X Ids) /\ h.next \in SUBSET (Dirs \X Ids)
        /\ h.p \in (Dirs \X Ids) \cup {<<NoDir, 0>>}
    BY DEF WalkRecords
  <2>. QED
    BY <2>1 DEF Coming, Entered
<1>3. \A q, r \in Coming(h) \cup Entered(h) : q[1] = r[1] => q = r
  BY <1>1, <1>2
<1>4. \A d \in Known, q \in Coming(h) \cup Entered(h) : project[d] = q[2] => d = q[1]
  BY <1>1, Registry
<1>5. \A q, r \in Coming(h) \cup Entered(h) : q[2] = r[2] => q = r
  BY <1>1, <1>3, Registry
<1>6. \A d \in Known : project[d] \in h.seen => d \in there
  BY Registry DEF Reached
<1>. QED
  BY <1>3, <1>4, <1>5, <1>6

-----------------------------------------------------------------------------
LEMMA BeginsTrue ==
  ASSUME RegistryTyped, NEW g, Begins(g), Root \in Known
  PROVE  Knows(g)
<1>1. /\ g.at = "project" /\ g.level = {<<Root, project[Root]>>} /\ g.next = {}
      /\ g.seen = {project[Root]} /\ g.active = Active /\ g.keep = {}
      /\ g.visited = {} /\ g.calm = TRUE
  BY DEF Begins
<1>2. Entered(g) = {} /\ Coming(g) = {<<Root, project[Root]>>} /\ Root \in there
  BY <1>1 DEF Entered, Coming, RegistryTyped
<1>3. Reached(g)
  <2>1. \A X \in SUBSET Dirs : Closed(g, X) => \A d \in Known : project[d] \in g.seen => d \in X
    BY <1>1, Registry DEF Closed
  <2>. QED
    BY <1>1, <1>2, <2>1 DEF Reached
<1>4. ReadsTrue(g)
  BY <1>1 DEF ReadsTrue
<1>5. VisitedTrue(g)
  BY <1>1 DEF VisitedTrue
<1>. QED
  BY <1>1, <1>3, <1>4, <1>5 DEF Knows, GoesTrue

LEMMA PassesTrue ==
  ASSUME RegistryTyped, NEW h \in WalkRecords, NEW g, NEW p \in h.level, h.at = "project",
         GoesTrue(h), PassesBy(g, h, p)
  PROVE  GoesTrue(g)
<1>1. /\ g.at = "project" /\ g.level = h.level \ {p} /\ g.next = h.next
      /\ g.keep = h.keep /\ g.seen = h.seen /\ g.active = h.active
      /\ g.visited = h.visited /\ g.calm = h.calm /\ g.auto = h.auto
  BY DEF PassesBy, Carries
<1>2. Entered(g) = {} /\ Entered(h) = {} /\ Coming(g) \subseteq Coming(h)
  BY <1>1 DEF Entered, Coming
<1>3. \A b, d : LeadsTo(h, b, d) => LeadsTo(g, b, d)
  BY <1>1, <1>2 DEF LeadsTo
<1>4. Reached(g)
  <2>1. \A X \in SUBSET Dirs : Closed(g, X) => Closed(h, X)
    BY <1>3 DEF Closed
  <2>2. \A X \in SUBSET Dirs : Closed(g, X) => \A d \in Known : project[d] \in g.seen => d \in X
    BY <1>1, <2>1 DEF GoesTrue, Reached
  <2>3. \A q \in Coming(g) \cup Entered(g) : q[1] \in Known /\ q[2] = project[q[1]] /\ q[2] \in g.seen
    BY <1>1, <1>2 DEF GoesTrue, Reached
  <2>4. g.level \cap g.next = {} /\ Entered(g) \cap Coming(g) = {}
    BY <1>1, <1>2 DEF GoesTrue, Reached
  <2>. QED
    BY <1>1, <2>2, <2>3, <2>4 DEF GoesTrue, Reached
<1>5. ReadsTrue(g)
  BY <1>1, <1>2 DEF GoesTrue, ReadsTrue
<1>6. VisitedTrue(g)
  BY <1>1 DEF GoesTrue, VisitedTrue, Declined
<1>. QED
  BY <1>4, <1>5, <1>6 DEF GoesTrue

LEMMA ReadTrue ==
  ASSUME RegistryTyped, NEW h \in WalkRecords, NEW g, NEW p \in h.level, h.at = "project",
         NEW unread \in BOOLEAN, GoesTrue(h), ReadsProject(g, h, p, unread)
  PROVE  GoesTrue(g)
<1>1. /\ g.at = "target" /\ g.level = h.level \ {p} /\ g.next = h.next /\ g.p = p
      /\ g.refs = IF unread THEN {} ELSE IF p[1] \in there THEN named[p[1]] \cap there ELSE {}
      /\ g.unread = unread /\ g.keep = h.keep /\ g.seen = h.seen /\ g.active = h.active
      /\ g.visited = h.visited /\ g.calm = h.calm /\ g.auto = h.auto
  BY DEF ReadsProject, Carries
<1>2. /\ Entered(g) = {p} /\ Entered(h) = {} /\ Coming(g) \subseteq Coming(h) /\ p \in Coming(h)
      /\ p \notin h.next /\ g.level \cup Entered(g) = h.level
  BY <1>1 DEF Entered, Coming, GoesTrue, Reached
<1>3. \A b, d : LeadsTo(h, b, d) => LeadsTo(g, b, d)
  BY <1>1, <1>2 DEF LeadsTo
<1>4. Reached(g)
  <2>1. \A X \in SUBSET Dirs : Closed(g, X) => Closed(h, X)
    BY <1>3 DEF Closed
  <2>2. \A X \in SUBSET Dirs : Closed(g, X) => \A d \in Known : project[d] \in g.seen => d \in X
    BY <1>1, <2>1 DEF GoesTrue, Reached
  <2>3. \A q \in Coming(g) \cup Entered(g) : q[1] \in Known /\ q[2] = project[q[1]] /\ q[2] \in g.seen
    BY <1>1, <1>2 DEF GoesTrue, Reached
  <2>4. g.level \cap g.next = {} /\ Entered(g) \cap Coming(g) = {}
    BY <1>1, <1>2 DEF GoesTrue, Reached, Coming
  <2>. QED
    BY <1>1, <2>2, <2>3, <2>4 DEF GoesTrue, Reached
<1>5. ReadsTrue(g)
  <2>1. p[1] \in Known /\ p[2] = project[p[1]] /\ p[2] \in h.seen /\ p[1] \in there
    BY <1>2, OneIdOneProject DEF GoesTrue, Reached
  <2>2. g.keep = {}
    BY <1>1 DEF GoesTrue, ReadsTrue
  <2>3. \A e \in g.active : e \in Active \/ \A q \in g.level \cup Entered(g) : q[2] # e[1]
    BY <1>1, <1>2 DEF GoesTrue, ReadsTrue
  <2>4. g.refs = IF unread THEN {} ELSE named[p[1]] \cap there
    BY <1>1, <2>1
  <2>. QED
    BY <1>1, <2>2, <2>3, <2>4 DEF ReadsTrue
<1>6. VisitedTrue(g)
  BY <1>1 DEF GoesTrue, VisitedTrue, Declined
<1>. QED
  BY <1>4, <1>5, <1>6 DEF GoesTrue

LEMMA DeeperTrue ==
  ASSUME RegistryTyped, NEW h \in WalkRecords, NEW g, h.at = "project", h.level = {},
         GoesTrue(h), GoesDeeper(g, h)
  PROVE  GoesTrue(g)
<1>1. /\ g.at = "project" /\ g.level = h.next /\ g.next = {} /\ g.active = Active
      /\ g.keep = h.keep /\ g.seen = h.seen
      /\ g.visited = h.visited /\ g.calm = h.calm /\ g.auto = h.auto
  BY DEF GoesDeeper, Carries
<1>2. Entered(g) = {} /\ Entered(h) = {} /\ Coming(g) = Coming(h)
  BY <1>1 DEF Entered, Coming
<1>3. \A b, d : LeadsTo(h, b, d) => LeadsTo(g, b, d)
  BY <1>1, <1>2 DEF LeadsTo
<1>4. Reached(g)
  <2>1. \A X \in SUBSET Dirs : Closed(g, X) => Closed(h, X)
    BY <1>3 DEF Closed
  <2>2. \A X \in SUBSET Dirs : Closed(g, X) => \A d \in Known : project[d] \in g.seen => d \in X
    BY <1>1, <2>1 DEF GoesTrue, Reached
  <2>3. \A q \in Coming(g) \cup Entered(g) : q[1] \in Known /\ q[2] = project[q[1]] /\ q[2] \in g.seen
    BY <1>1, <1>2 DEF GoesTrue, Reached
  <2>. QED
    BY <1>1, <1>2, <2>2, <2>3 DEF GoesTrue, Reached
<1>5. ReadsTrue(g)
  BY <1>1, <1>2 DEF GoesTrue, ReadsTrue
<1>6. VisitedTrue(g)
  BY <1>1 DEF GoesTrue, VisitedTrue, Declined
<1>. QED
  BY <1>4, <1>5, <1>6 DEF GoesTrue

LEMMA StopsTrue ==
  ASSUME RegistryTyped, NEW h \in WalkRecords, NEW g, h.at = "project", h.level = {}, h.next = {},
         h.calm, GoesTrue(h), Stops(g, h)
  PROVE  Knows(g)
<1>1. g.at = "rest" /\ g.visited = h.visited /\ g.calm = h.calm
  BY DEF Stops
<1>2. Entered(h) = {} /\ Coming(h) = {}
  BY DEF Entered, Coming
<1>3. ASSUME NEW p \in h.visited PROVE Agreed(p) /\ InScope(p)
  <2>1. p \in Known /\ project[p] \in h.seen /\ Agreed(p)
    BY <1>3 DEF GoesTrue, VisitedTrue
  <2>2. ASSUME NEW X \in SUBSET Dirs, Root \in X,
               \A b \in X \cap there, d \in Known : Edge(b, d) \in Active => d \in X
        PROVE  p \in X
    <3>1. Closed(h, X)
      BY <2>2 DEF Closed, LeadsTo
    <3>. QED
      BY <2>1, <3>1 DEF GoesTrue, Reached
  <2>3. p \in there
    BY <2>1, OneIdOneProject DEF GoesTrue
  <2>. QED
    BY <2>1, <2>2, <2>3 DEF InScope
<1>. QED
  BY <1>1, <1>3 DEF Knows

-----------------------------------------------------------------------------
\* A reference that has a project, or is refused one.
LEMMA TakesUpTrue ==
  ASSUME RegistryTyped, NEW h \in WalkRecords, NEW g, NEW r \in h.refs, h.at = "target",
         GoesTrue(h), TakesUp(g, h, r), g.auto = h.auto,
         \/ r \in Known /\ project[r] = h.p[2] /\ g.at = "target"
         \/ /\ r \in Known /\ project[r] # h.p[2] /\ g.at = "link" /\ g.to = <<r, project[r]>>
         \/ r \notin Known /\ h.auto >= MaxAuto /\ g.at = "target"
  PROVE  GoesTrue(g)
<1>1. /\ g.refs = h.refs \ {r} /\ g.level = h.level /\ g.next = h.next /\ g.p = h.p
      /\ g.unread = h.unread /\ g.keep = h.keep /\ g.seen = h.seen
      /\ g.active = h.active /\ g.visited = h.visited /\ g.calm = h.calm
      /\ g.at \in {"target", "link"}
  BY DEF TakesUp
<1>2. Entered(g) = {h.p} /\ Entered(h) = {h.p} /\ Coming(g) = Coming(h)
  BY <1>1 DEF Entered, Coming
<1>3. \A b, d : LeadsTo(h, b, d) => LeadsTo(g, b, d)
  BY <1>1, <1>2 DEF LeadsTo
<1>4. Reached(g)
  <2>1. \A X \in SUBSET Dirs : Closed(g, X) => Closed(h, X)
    BY <1>3 DEF Closed
  <2>2. \A X \in SUBSET Dirs : Closed(g, X) => \A d \in Known : project[d] \in g.seen => d \in X
    BY <1>1, <2>1 DEF GoesTrue, Reached
  <2>3. \A q \in Coming(g) \cup Entered(g) : q[1] \in Known /\ q[2] = project[q[1]] /\ q[2] \in g.seen
    BY <1>1, <1>2 DEF GoesTrue, Reached
  <2>4. g.level \cap g.next = {} /\ Entered(g) \cap Coming(g) = {}
    BY <1>1, <1>2 DEF GoesTrue, Reached
  <2>. QED
    BY <1>1, <2>2, <2>3, <2>4 DEF GoesTrue, Reached
<1>5. ReadsTrue(g)
  <2> DEFINE names == named[h.p[1]] \cap there
  <2>1. /\ h.refs \subseteq names /\ (h.unread => h.refs = {})
        /\ \A n \in h.keep : \E d \in names \cap Known : project[d] = n
        /\ ~h.unread => \A d \in names \ (h.refs \cup {h.p[1]}) : Handled(h, d) /\ Declined(h, d)
        /\ h.p[1] \in Known /\ h.p[2] = project[h.p[1]]
    BY <1>2 DEF GoesTrue, ReadsTrue, Reached
  <2>. HIDE DEF names
  <2>2. ~h.unread /\ r \in names
    BY <2>1
  <2>3. \A d : (Handled(h, d) => Handled(g, d)) /\ (Declined(h, d) => Declined(g, d))
    BY <1>1 DEF Handled, Declined
  <2>4. g.at = "link" => /\ g.to[1] \in names \cap Known /\ g.to[2] = project[g.to[1]]
                         /\ g.to[1] # g.p[1]
    BY <1>1, <2>1, <2>2
  <2>5. ASSUME NEW d \in names \ (g.refs \cup {g.p[1]})
        PROVE  (g.at = "link" /\ d = g.to[1]) \/ (Handled(g, d) /\ Declined(g, d))
    <3>1. CASE d # r
      BY <1>1, <2>1, <2>2, <2>3, <2>5, <3>1
    <3>2. CASE d = r
      <4>1. CASE r \in Known /\ project[r] = h.p[2]
        <5>1. r = h.p[1]
          BY <2>1, <4>1, Registry
        <5>. QED
          BY <1>1, <2>5, <3>2, <5>1
      <4>2. CASE g.at = "link" /\ g.to = <<r, project[r]>>
        BY <3>2, <4>2
      <4>3. CASE r \notin Known /\ h.auto >= MaxAuto
        BY <3>2, <4>3 DEF Handled, Declined
      <4>. QED
        BY <4>1, <4>2, <4>3
    <3>. QED
      BY <3>1, <3>2
  <2>6. \A e \in g.active : e \in Active \/ \A q \in g.level \cup Entered(g) : q[2] # e[1]
    BY <1>1, <1>2 DEF GoesTrue, ReadsTrue
  <2>7. g.refs \subseteq names /\ ~g.unread /\ \A n \in g.keep : \E d \in names \cap Known : project[d] = n
    BY <1>1, <2>1, <2>2
  <2>8. names = named[g.p[1]] \cap there
    BY <1>1 DEF names
  <2>. QED
    BY <1>1, <2>4, <2>5, <2>6, <2>7, <2>8 DEF ReadsTrue
<1>6. VisitedTrue(g)
  BY <1>1 DEF GoesTrue, VisitedTrue, Declined
<1>. QED
  BY <1>4, <1>5, <1>6 DEF GoesTrue

-----------------------------------------------------------------------------
\* One reference is linked: its project is a target now, and followed if the link is
\* active and the project was not seen before.
LEMMA LinksOneTrue ==
  ASSUME RegistryTyped, NEW h \in WalkRecords, NEW g, NEW next, NEW e, NEW made \in BOOLEAN,
         h.at = "link", GoesTrue(h), LinksOne(g, h, next), e = <<h.p[2], h.to[2]>>,
         UNCHANGED <<project, named, there>>,
         made => /\ link'.manual = link.manual /\ link'.auto = link.auto \cup {e}
                 /\ link'.removed = link.removed,
         ~made => e \in Active \cup link.removed /\ link' = link,
         next = IF (made \/ e \in h.active) /\ h.to[2] \notin h.seen THEN {h.to} ELSE {}
  PROVE  GoesTrue(g)'
<1> DEFINE names == named[h.p[1]] \cap there
           a == h.p[1]
           t == h.to[1]
<1>1. /\ g.at = "target" /\ g.level = h.level /\ g.next = h.next \cup next /\ g.p = h.p
      /\ g.refs = h.refs /\ g.unread = h.unread /\ g.keep = h.keep \cup {h.to[2]}
      /\ g.seen = h.seen \cup {n[2] : n \in next} /\ g.active = h.active
      /\ g.visited = h.visited /\ g.calm = h.calm /\ g.auto = h.auto
  BY DEF LinksOne, Carries
<1>2. /\ h.refs \subseteq names /\ ~h.unread
      /\ \A n \in h.keep : \E d \in names \cap Known : project[d] = n
      /\ t \in names \cap Known /\ h.to[2] = project[t] /\ t # a
      /\ \A d \in names \ (h.refs \cup {a}) : d = t \/ (Handled(h, d) /\ Declined(h, d))
      /\ \A f \in h.active : f \in Active \/ \A q \in h.level \cup Entered(h) : q[2] # f[1]
  BY DEF GoesTrue, ReadsTrue
<1>3. Entered(h) = {h.p} /\ Entered(g) = {h.p} /\ Coming(g) = Coming(h) \cup next
  BY <1>1 DEF Entered, Coming
<1>4. /\ Root \in Known /\ project[Root] \in h.seen
      /\ \A n \in h.seen : \E d \in Known \cap there : project[d] = n
      /\ \A q \in Coming(h) \cup {h.p} : q[1] \in Known /\ q[2] = project[q[1]] /\ q[2] \in h.seen
      /\ h.level \cap h.next = {} /\ h.p \notin Coming(h)
      /\ \A X \in SUBSET Dirs : Closed(h, X) => \A d \in Known : project[d] \in h.seen => d \in X
  BY <1>3 DEF GoesTrue, Reached
<1>5. a \in Known /\ h.p[2] = project[a] /\ h.p[2] \in h.seen /\ a \in there /\ e = Edge(a, t)
  BY <1>2, <1>3, <1>4, OneIdOneProject DEF Edge, GoesTrue
<1>6. /\ Active \subseteq Active' /\ link'.removed = link.removed /\ e \in Active' \cup link'.removed
      /\ link'.auto \subseteq link.auto \cup {e}
      /\ made => e \in Active'
  <2>1. CASE made
    BY <2>1 DEF Active
  <2>2. CASE ~made
    BY <2>2 DEF Active
  <2>. QED
    BY <2>1, <2>2
<1>7. e \in h.active => e \in Active
  <2>1. e[1] = h.p[2]
    OBVIOUS
  <2>. QED
    BY <1>2, <1>3, <2>1
<1>8. /\ next \subseteq {h.to} /\ (next # {} => e \in Active' /\ h.to[2] \notin h.seen)
      /\ {n[2] : n \in next} \subseteq {h.to[2]}
  BY <1>6, <1>7
<1>9. Known' = Known /\ \A b, d : Edge(b, d)' = Edge(b, d)
  BY DEF Known, Edge
<1>. HIDE DEF names, a, t
<1>10. ASSUME NEW b, NEW d, LeadsTo(h, b, d) PROVE LeadsTo(g, b, d)'
  <2>1. /\ b \in Known /\ project[b] \in h.seen /\ Edge(b, d) \in Active
        /\ \A q \in Coming(h) : q[1] # b
        /\ \A q \in {h.p} : q[1] = b => project[d] \in h.keep
    BY <1>3, <1>10 DEF LeadsTo
  <2>2. \A q \in next : q[1] # b
    BY <1>2, <1>8, <2>1 DEF t
  <2>3. \A q \in Coming(g) : q[1] # b
    BY <1>3, <2>1, <2>2
  <2>4. /\ b \in Known' /\ project'[b] \in g.seen /\ Edge(b, d)' \in Active'
        /\ \A q \in {h.p} : q[1] = b => project'[d] \in g.keep
    BY <1>1, <1>6, <1>9, <2>1
  <2>. QED
    BY <1>3, <2>3, <2>4 DEF LeadsTo
<1>11. next # {} => LeadsTo(g, a, t)'
  <2>. SUFFICES ASSUME next # {} PROVE LeadsTo(g, a, t)'
    OBVIOUS
  <2>1. Edge(a, t)' \in Active'
    BY <1>5, <1>8, <1>9
  <2>2. \A q \in Coming(g) : q[1] # a
    <3>1. \A q \in Coming(h) : q[1] # a
      BY <1>3, <1>4, OneIdOneProject DEF GoesTrue, a
    <3>. QED
      BY <1>2, <1>3, <1>8, <3>1 DEF t
  <2>3. a \in Known' /\ project'[a] \in g.seen /\ project'[t] \in g.keep
    BY <1>1, <1>2, <1>5, <1>9
  <2>. QED
    BY <1>3, <2>1, <2>2, <2>3 DEF LeadsTo
<1>12. ASSUME NEW X \in SUBSET Dirs, Closed(g, X)', NEW d \in Known, project[d] \in g.seen
       PROVE  d \in X
  <2>1. Closed(h, X)
    BY <1>9, <1>10, <1>12 DEF Closed
  <2>2. CASE project[d] \in h.seen
    BY <1>4, <2>1, <2>2
  <2>3. CASE project[d] \notin h.seen
    <3>1. next # {} /\ project[d] = project[t]
      BY <1>1, <1>2, <1>8, <1>12, <2>3
    <3>2. d = t /\ t \in Known
      BY <1>2, <3>1, Registry
    <3>3. a \in X \cap there'
      BY <1>4, <1>5, <2>1
    <3>4. LeadsTo(g, a, t)' /\ t \in Known'
      BY <1>9, <1>11, <3>1, <3>2
    <3>. QED
      BY <1>12, <3>2, <3>3, <3>4 DEF Closed
  <2>. QED
    BY <2>2, <2>3
<1>13. Reached(g)'
  <2>1. Root \in Known' /\ project'[Root] \in g.seen
    BY <1>1, <1>4, <1>9
  <2>2. \A n \in g.seen : \E d \in Known' \cap there' : project'[d] = n
    <3>. SUFFICES ASSUME NEW n \in g.seen PROVE \E d \in Known \cap there : project[d] = n
      BY <1>9
    <3>1. n \in h.seen \/ n = project[t]
      BY <1>1, <1>2, <1>8
    <3>2. t \in Known \cap there
      BY <1>2 DEF names
    <3>. QED
      BY <1>4, <3>1, <3>2
  <2>3. \A q \in Coming(g) \cup Entered(g) :
           q[1] \in Known' /\ q[2] = project'[q[1]] /\ q[2] \in g.seen
    <3>. SUFFICES ASSUME NEW q \in Coming(g) \cup Entered(g)
                  PROVE  q[1] \in Known /\ q[2] = project[q[1]] /\ q[2] \in g.seen
      BY <1>9
    <3>1. CASE q \in next
      <4>1. q = h.to /\ q[2] \in {n[2] : n \in next}
        BY <1>8, <3>1
      <4>. QED
        BY <1>1, <1>2, <4>1 DEF t
    <3>2. CASE q \in Coming(h) \cup {h.p}
      BY <1>1, <1>4, <3>2
    <3>. QED
      BY <1>3, <3>1, <3>2
  <2>4. g.level \cap g.next = {} /\ Entered(g) \cap Coming(g) = {}
    <3>1. \A q \in next : q \notin Coming(h) \cup {h.p}
      BY <1>4, <1>8
    <3>. QED
      BY <1>1, <1>3, <1>4, <3>1 DEF Coming
  <2>5. \A X \in SUBSET Dirs : Closed(g, X)' =>
           \A d \in Known' : project'[d] \in g.seen => d \in X
    BY <1>9, <1>12
  <2>6. Coming(g)' = Coming(g) /\ Entered(g)' = Entered(g)
    BY DEF Coming, Entered
  <2>. QED
    BY <2>1, <2>2, <2>3, <2>4, <2>5, <2>6 DEF Reached
<1>14. ReadsTrue(g)'
  <2>1. \A d : Declined(h, d) => Declined(g, d)'
    BY <1>1, <1>9 DEF Declined
  <2>2. \A d : Handled(h, d) => Handled(g, d)'
    BY <1>1, <1>6, <1>9 DEF Handled
  <2>3. Handled(g, t)' /\ Declined(g, t)'
    <3>1. project'[t] \in g.keep /\ Edge(g.p[1], t)' \in Active' \cup link'.removed
      BY <1>1, <1>2, <1>5, <1>6, <1>9 DEF a
    <3>2. t \in Known'
      BY <1>2, <1>9
    <3>. QED
      BY <3>1, <3>2 DEF Handled, Declined
  <2>4. \A d \in names \ (g.refs \cup {g.p[1]}) : Handled(g, d)' /\ Declined(g, d)'
    BY <1>1, <1>2, <2>1, <2>2, <2>3 DEF a
  <2>5. \A n \in g.keep : \E d \in names \cap Known' : project'[d] = n
    BY <1>1, <1>2, <1>9
  <2>6. \A f \in g.active : f \in Active' \/ \A q \in g.level \cup Entered(g)' : q[2] # f[1]
    <3>1. Entered(g)' = Entered(h)
      BY <1>3 DEF Entered
    <3>. QED
      BY <1>1, <1>2, <1>6, <3>1
  <2>7. names = named'[g.p[1]] \cap there'
    BY <1>1 DEF names
  <2>8. g.at = "target" /\ g.refs \subseteq names /\ ~g.unread
    BY <1>1, <1>2
  <2>. QED
    BY <2>4, <2>5, <2>6, <2>7, <2>8 DEF ReadsTrue
<1>15. VisitedTrue(g)'
  <2>. SUFFICES ASSUME NEW p \in h.visited
                PROVE  /\ p \in Known' /\ project'[p] \in g.seen /\ Agreed(p)'
                       /\ \A d \in named'[p] \cap there' : Declined(g, d)'
    BY <1>1 DEF VisitedTrue
  <2>1. /\ p \in Known /\ project[p] \in h.seen /\ Agreed(p)
        /\ \A d \in named[p] \cap there : Declined(h, d)
    BY DEF GoesTrue, VisitedTrue
  <2>2. p \in Known' /\ project'[p] \in g.seen /\ \A d \in named'[p] \cap there' : Declined(g, d)'
    BY <1>1, <1>9, <2>1 DEF Declined
  <2>3. ASSUME NEW d \in Known \ {p}
        PROVE  /\ Edge(p, d) \in link'.auto => d \in named[p] \cap there
               /\ d \in named[p] \cap there => Edge(p, d) \in Active' \cup link'.removed
    <3>1. CASE Edge(p, d) = e
      <4>1. p = a /\ d = t
        BY <1>2, <1>5, <2>1, <3>1, Registry
      <4>. QED
        BY <1>2, <1>6, <3>1, <4>1 DEF names, a
    <3>2. CASE Edge(p, d) # e
      BY <1>6, <2>1, <3>2 DEF Agreed
    <3>. QED
      BY <3>1, <3>2
  <2>4. Agreed(p)'
    BY <1>9, <2>3 DEF Agreed
  <2>. QED
    BY <2>2, <2>4
<1>. QED
  BY <1>13, <1>14, <1>15 DEF GoesTrue

-----------------------------------------------------------------------------
\* The links to what is no longer named go, and the project is done with.
LEMMA DropsTrue ==
  ASSUME RegistryTyped, NEW h \in WalkRecords, NEW g, NEW drop, h.at = "target", h.refs = {},
         h.calm, GoesTrue(h), DropsRest(g, h), UNCHANGED <<project, named, there>>,
         drop = {e \in link.auto : ~h.unread /\ e[1] = h.p[2] /\ e[2] \notin h.keep},
         link'.manual = link.manual, link'.removed = link.removed, link'.auto = link.auto \ drop
  PROVE  GoesTrue(g)'
<1> DEFINE names == named[h.p[1]] \cap there
           a == h.p[1]
<1>1. /\ g.at = "project" /\ g.level = h.level /\ g.next = h.next /\ g.keep = {}
      /\ g.seen = h.seen /\ g.active = h.active /\ g.calm = h.calm /\ g.auto = h.auto
      /\ g.visited = IF h.unread THEN h.visited ELSE h.visited \cup {a}
  BY DEF DropsRest
<1>2. /\ \A n \in h.keep : \E d \in names \cap Known : project[d] = n
      /\ ~h.unread => \A d \in names \ {a} : Handled(h, d) /\ Declined(h, d)
      /\ \A f \in h.active : f \in Active \/ \A q \in h.level \cup Entered(h) : q[2] # f[1]
  BY DEF GoesTrue, ReadsTrue
<1>3. Entered(h) = {h.p} /\ Entered(g) = {} /\ Coming(g) = Coming(h)
  BY <1>1 DEF Entered, Coming
<1>4. /\ Root \in Known /\ project[Root] \in h.seen
      /\ \A n \in h.seen : \E d \in Known \cap there : project[d] = n
      /\ \A q \in Coming(h) \cup {h.p} : q[1] \in Known /\ q[2] = project[q[1]] /\ q[2] \in h.seen
      /\ h.level \cap h.next = {} /\ h.p \notin Coming(h)
      /\ \A X \in SUBSET Dirs : Closed(h, X) => \A d \in Known : project[d] \in h.seen => d \in X
  BY <1>3 DEF GoesTrue, Reached
<1>5. a \in Known /\ h.p[2] = project[a] /\ project[a] \in h.seen
  BY <1>4
<1>6. Known' = Known /\ \A b, d : Edge(b, d)' = Edge(b, d)
  BY DEF Known, Edge
<1>. HIDE DEF names, a
<1>7. ASSUME NEW b \in Known, NEW d \in Known, Edge(b, d) \in drop
      PROVE  b = a /\ project[d] \notin h.keep /\ ~h.unread
  <2>1. ~h.unread /\ Edge(b, d)[1] = h.p[2] /\ Edge(b, d)[2] \notin h.keep
    BY <1>7
  <2>2. Edge(b, d)[1] = project[b] /\ Edge(b, d)[2] = project[d]
    BY Registry
  <2>3. \A c, f \in Known : project[c] = project[f] => c = f
    BY Registry
  <2>4. project[b] = project[a]
    BY <1>5, <2>1, <2>2
  <2>5. b = a
    BY <1>5, <2>3, <2>4
  <2>6. project[d] \notin h.keep
    BY <2>1, <2>2
  <2>. QED
    BY <2>1, <2>5, <2>6
<1>8. \A b, d : Edge(b, d) \in Active /\ Edge(b, d) \notin drop => Edge(b, d) \in Active'
  BY DEF Active
<1>9. ASSUME NEW b \in Dirs, NEW d \in Known, LeadsTo(h, b, d) PROVE LeadsTo(g, b, d)'
  <2>1. /\ b \in Known /\ project[b] \in h.seen /\ Edge(b, d) \in Active
        /\ \A q \in Coming(h) : q[1] # b
        /\ \A q \in {h.p} : q[1] = b => project[d] \in h.keep
    BY <1>3, <1>9 DEF LeadsTo
  <2>2. Edge(b, d) \notin drop
    BY <1>7, <2>1 DEF a
  <2>3. Edge(b, d)' \in Active'
    BY <1>6, <1>8, <2>1, <2>2
  <2>4. b \in Known' /\ project'[b] \in g.seen
    BY <1>1, <1>6, <2>1
  <2>. QED
    BY <1>3, <2>1, <2>3, <2>4 DEF LeadsTo
<1>10. ASSUME NEW X \in SUBSET Dirs, Closed(g, X)' PROVE Closed(h, X)
  BY <1>6, <1>9, <1>10 DEF Closed
<1>11. Reached(g)'
  <2>1. Root \in Known' /\ project'[Root] \in g.seen
    BY <1>1, <1>4, <1>6
  <2>2. \A n \in g.seen : \E d \in Known' \cap there' : project'[d] = n
    BY <1>1, <1>4, <1>6
  <2>3. \A q \in Coming(g) \cup Entered(g) :
           q[1] \in Known' /\ q[2] = project'[q[1]] /\ q[2] \in g.seen
    BY <1>1, <1>3, <1>4, <1>6
  <2>4. g.level \cap g.next = {} /\ Entered(g) \cap Coming(g) = {}
    BY <1>1, <1>3, <1>4
  <2>5. \A X \in SUBSET Dirs : Closed(g, X)' =>
           \A d \in Known' : project'[d] \in g.seen => d \in X
    BY <1>1, <1>4, <1>6, <1>10
  <2>6. Coming(g)' = Coming(g) /\ Entered(g)' = Entered(g)
    BY DEF Coming, Entered
  <2>. QED
    BY <2>1, <2>2, <2>3, <2>4, <2>5, <2>6 DEF Reached
<1>12. ReadsTrue(g)'
  <2>1. ASSUME NEW f \in g.active
        PROVE  f \in Active' \/ \A q \in g.level : q[2] # f[1]
    <3>1. CASE f \in drop
      <4>1. f[1] = h.p[2]
        BY <3>1
      <4>2. \A q \in h.level : q[2] # h.p[2]
        BY <1>3, <1>4, OneIdOneProject DEF GoesTrue, Coming
      <4>. QED
        BY <1>1, <4>1, <4>2
    <3>2. CASE f \notin drop
      <4>1. f \in Active => f \in Active'
        BY <3>2 DEF Active
      <4>. QED
        BY <1>1, <1>2, <2>1, <4>1
    <3>. QED
      BY <3>1, <3>2
  <2>2. Entered(g)' = {}
    BY <1>1 DEF Entered
  <2>. QED
    BY <1>1, <2>1, <2>2 DEF ReadsTrue
<1>13. ASSUME NEW p \in g.visited
       PROVE  /\ p \in Known /\ project[p] \in h.seen
              /\ \A d \in named[p] \cap there : Declined(h, d)
              /\ \A d \in Known \ {p} :
                    /\ Edge(p, d) \in link'.auto => d \in named[p] \cap there
                    /\ d \in named[p] \cap there => Edge(p, d) \in Active' \cup link'.removed
  <2>1. CASE p \in h.visited
    <3>1. /\ p \in Known /\ project[p] \in h.seen /\ Agreed(p)
          /\ \A d \in named[p] \cap there : Declined(h, d)
      BY <2>1 DEF GoesTrue, VisitedTrue
    <3>2. ASSUME NEW d \in Known \ {p}
          PROVE  /\ Edge(p, d) \in link'.auto => d \in named[p] \cap there
                 /\ d \in named[p] \cap there => Edge(p, d) \in Active' \cup link'.removed
      <4>1. /\ Edge(p, d) \in link.auto => d \in named[p] \cap there
            /\ d \in named[p] \cap there => Edge(p, d) \in Active \cup link.removed
        BY <3>1 DEF Agreed
      <4>2. ASSUME d \in named[p] \cap there, Edge(p, d) \in drop PROVE FALSE
        <5>1. p = a /\ project[d] \notin h.keep /\ ~h.unread
          BY <1>7, <3>1, <4>2
        <5>2. Handled(h, d)
          BY <1>2, <4>2, <5>1 DEF names, a
        <5>. QED
          BY <5>1, <5>2 DEF Handled
      <4>. QED
        BY <1>8, <4>1, <4>2
    <3>. QED
      BY <3>1, <3>2
  <2>2. CASE p \notin h.visited
    <3>1. p = a /\ ~h.unread
      BY <1>1, <2>2
    <3>2. \A d \in named[p] \cap there : Declined(h, d)
      <4>1. Declined(h, a)
        BY <1>5 DEF Declined
      <4>. QED
        BY <1>2, <3>1, <4>1 DEF names, a
    <3>3. ASSUME NEW d \in Known \ {p}, Edge(p, d) \in link'.auto PROVE d \in named[p] \cap there
      <4>1. Edge(p, d) \in link.auto /\ Edge(p, d) \notin drop
        BY <3>3
      <4>2. Edge(p, d)[1] = h.p[2] /\ Edge(p, d)[2] = project[d]
        BY <1>5, <3>1, Registry
      <4>3. project[d] \in h.keep
        BY <3>1, <4>1, <4>2
      <4>4. PICK x \in names \cap Known : project[x] = project[d]
        BY <1>2, <4>3
      <4>5. x = d
        BY <4>4, Registry
      <4>. QED
        BY <3>1, <4>4, <4>5 DEF names, a
    <3>4. ASSUME NEW d \in Known \ {p}, d \in named[p] \cap there
          PROVE  Edge(p, d) \in Active' \cup link'.removed
      <4>1. Handled(h, d)
        BY <1>2, <3>1, <3>4 DEF names, a
      <4>2. project[d] \in h.keep /\ Edge(p, d) \in Active \cup link.removed
        BY <3>1, <4>1 DEF Handled, a
      <4>3. Edge(p, d) \notin drop
        BY <1>5, <1>7, <3>1, <4>2
      <4>. QED
        BY <1>8, <4>2, <4>3
    <3>. QED
      BY <1>5, <3>1, <3>2, <3>3, <3>4
  <2>. QED
    BY <2>1, <2>2
<1>14. VisitedTrue(g)'
  <2>1. \A p \in g.visited : Agreed(p)'
    BY <1>6, <1>13 DEF Agreed
  <2>2. \A d : Declined(h, d) => Declined(g, d)'
    BY <1>1, <1>6 DEF Declined
  <2>. QED
    BY <1>1, <1>6, <1>13, <2>1, <2>2 DEF VisitedTrue
<1>. QED
  BY <1>11, <1>12, <1>14 DEF GoesTrue

-----------------------------------------------------------------------------
\* A reference gets a project, with an id that none had and no row mentions.
LEMMA AddsTrue ==
  ASSUME RegistryTyped, NEW h \in WalkRecords, NEW g, NEW r \in h.refs, r \in Dirs,
         h.at = "target", GoesTrue(h), TakesUp(g, h, r), r \notin Known, h.auto < MaxAuto,
         acts' = acts, UNCHANGED <<link, named, there>>,
         project' = [project EXCEPT ![r] = NextId],
         \/ NextId = h.p[2] /\ g.at = "target"
         \/ NextId # h.p[2] /\ g.at = "link" /\ g.to = <<r, NextId>>
  PROVE  GoesTrue(g)'
<1> DEFINE names == named[h.p[1]] \cap there
           a == h.p[1]
<1>1. /\ g.refs = h.refs \ {r} /\ g.level = h.level /\ g.next = h.next /\ g.p = h.p
      /\ g.unread = h.unread /\ g.keep = h.keep /\ g.seen = h.seen
      /\ g.active = h.active /\ g.visited = h.visited /\ g.calm = h.calm
  BY DEF TakesUp
<1>2. /\ h.refs \subseteq names /\ (h.unread => h.refs = {})
      /\ \A n \in h.keep : \E d \in names \cap Known : project[d] = n
      /\ ~h.unread => \A d \in names \ (h.refs \cup {a}) : Handled(h, d) /\ Declined(h, d)
      /\ \A f \in h.active : f \in Active \/ \A q \in h.level \cup Entered(h) : q[2] # f[1]
  BY DEF GoesTrue, ReadsTrue
<1>3. /\ Known' = Known \cup {r} /\ project'[r] = NextId
      /\ \A d \in Known : project'[d] = project[d]
      /\ \A b, d \in Known : Edge(b, d)' = Edge(b, d)
      /\ \A d \in Dirs : project[d] # NextId
  BY ProjectAdded
<1>4. /\ Root \in Known /\ project[Root] \in h.seen
      /\ \A n \in h.seen : \E d \in Known \cap there : project[d] = n
      /\ \A q \in Coming(h) \cup {h.p} : q[1] \in Known /\ q[2] = project[q[1]] /\ q[2] \in h.seen
      /\ h.level \cap h.next = {} /\ h.p \notin Coming(h)
      /\ \A X \in SUBSET Dirs : Closed(h, X) => \A d \in Known : project[d] \in h.seen => d \in X
      /\ Entered(h) = {h.p}
  BY DEF GoesTrue, Reached, Entered
<1>5. a \in Known /\ h.p[2] = project[a] /\ project[a] \in h.seen /\ Known \subseteq Dirs
  BY <1>4, Registry
<1>6. g.at = "link" /\ g.to = <<r, NextId>> /\ g.to[1] = r /\ g.to[2] = NextId
  BY <1>3, <1>5
<1>7. Entered(g) = {h.p} /\ Coming(g) = Coming(h) /\ Active' = Active
  BY <1>1, <1>6 DEF Entered, Coming, Active
<1>. HIDE DEF names, a
<1>8. NextId \notin h.seen /\ ~h.unread /\ r \in names /\ r # a
  BY <1>2, <1>3, <1>4, <1>5
<1>9. \A d \in Known' : project'[d] \in h.seen => d \in Known /\ project[d] \in h.seen
  BY <1>3, <1>8
<1>10. ASSUME NEW b \in Dirs, NEW d \in Known, LeadsTo(h, b, d) PROVE LeadsTo(g, b, d)'
  <2>1. /\ b \in Known /\ project[b] \in h.seen /\ Edge(b, d) \in Active
        /\ \A q \in Coming(h) : q[1] # b
        /\ \A q \in {h.p} : q[1] = b => project[d] \in h.keep
    BY <1>4, <1>10 DEF LeadsTo
  <2>2. b \in Known' /\ project'[b] \in g.seen /\ Edge(b, d)' \in Active'
    BY <1>1, <1>3, <1>7, <2>1
  <2>3. \A q \in {h.p} : q[1] = b => project'[d] \in g.keep
    BY <1>1, <1>3, <2>1
  <2>. QED
    BY <1>7, <2>1, <2>2, <2>3 DEF LeadsTo
<1>11. ASSUME NEW X \in SUBSET Dirs, Closed(g, X)' PROVE Closed(h, X)
  <2>1. Root \in X /\ \A b \in X \cap there, d \in Known : LeadsTo(g, b, d)' => d \in X
    BY <1>3, <1>11 DEF Closed
  <2>. QED
    BY <1>10, <2>1 DEF Closed
<1>12. Reached(g)'
  <2>1. Root \in Known' /\ project'[Root] \in g.seen
    BY <1>1, <1>3, <1>4
  <2>2. \A n \in g.seen : \E d \in Known' \cap there' : project'[d] = n
    BY <1>1, <1>3, <1>4
  <2>3. \A q \in Coming(g) \cup Entered(g) :
           q[1] \in Known' /\ q[2] = project'[q[1]] /\ q[2] \in g.seen
    BY <1>1, <1>3, <1>4, <1>7
  <2>4. g.level \cap g.next = {} /\ Entered(g) \cap Coming(g) = {}
    BY <1>1, <1>4, <1>7
  <2>5. \A X \in SUBSET Dirs : Closed(g, X)' =>
           \A d \in Known' : project'[d] \in g.seen => d \in X
    BY <1>1, <1>4, <1>9, <1>11
  <2>6. Coming(g)' = Coming(g) /\ Entered(g)' = Entered(g)
    BY DEF Coming, Entered
  <2>. QED
    BY <2>1, <2>2, <2>3, <2>4, <2>5, <2>6 DEF Reached
<1>13. ReadsTrue(g)'
  <2>1. ASSUME NEW d \in names \ (g.refs \cup {g.p[1]})
        PROVE  d = g.to[1] \/ (Handled(g, d)' /\ Declined(g, d)')
    <3>1. CASE d = r
      BY <1>6, <3>1
    <3>2. CASE d # r
      <4>1. Handled(h, d) /\ Declined(h, d)
        BY <1>1, <1>2, <1>8, <2>1, <3>2 DEF a
      <4>2. d \in Known
        <5>1. h.auto \in Nat /\ MaxAuto \in Nat
          BY LinkConstants DEF WalkRecords
        <5>. QED
          BY <4>1, <5>1 DEF Declined
      <4>3. project[d] \in h.keep /\ Edge(h.p[1], d) \in Active \cup link.removed
        BY <4>1, <4>2 DEF Handled
      <4>4. Edge(h.p[1], d)' = Edge(h.p[1], d) /\ project'[d] = project[d]
        BY <1>3, <1>5, <4>2 DEF a
      <4>5. Handled(g, d)'
        BY <1>1, <1>7, <4>3, <4>4 DEF Handled
      <4>6. Declined(g, d)'
        BY <1>3, <4>2 DEF Declined
      <4>. QED
        BY <4>5, <4>6
    <3>. QED
      BY <3>1, <3>2
  <2>2. \A n \in g.keep : \E d \in names \cap Known' : project'[d] = n
    BY <1>1, <1>2, <1>3
  <2>3. \A f \in g.active : f \in Active' \/ \A q \in g.level \cup Entered(g)' : q[2] # f[1]
    <3>1. Entered(g)' = {h.p}
      BY <1>1, <1>6 DEF Entered
    <3>. QED
      BY <1>1, <1>2, <1>4, <1>7, <3>1
  <2>4. names = named'[g.p[1]] \cap there'
    BY <1>1 DEF names
  <2>5. g.to[1] \in names \cap Known' /\ g.to[2] = project'[g.to[1]] /\ g.to[1] # g.p[1]
    BY <1>1, <1>3, <1>6, <1>8 DEF a
  <2>6. g.refs \subseteq names /\ ~g.unread
    BY <1>1, <1>2, <1>8
  <2>. QED
    BY <1>6, <2>1, <2>2, <2>3, <2>4, <2>5, <2>6 DEF ReadsTrue
<1>14. VisitedTrue(g)'
  <2>. SUFFICES ASSUME NEW p \in h.visited
                PROVE  /\ p \in Known' /\ project'[p] \in g.seen /\ Agreed(p)'
                       /\ \A d \in named'[p] \cap there' : Declined(g, d)'
    BY <1>1 DEF VisitedTrue
  <2>1. /\ p \in Known /\ project[p] \in h.seen /\ Agreed(p)
        /\ \A d \in named[p] \cap there : Declined(h, d)
    BY DEF GoesTrue, VisitedTrue
  <2>2. \A d \in named[p] \cap there : d \in Known
    <3>1. h.auto \in Nat /\ MaxAuto \in Nat
      BY LinkConstants DEF WalkRecords
    <3>. QED
      BY <2>1, <3>1 DEF Declined
  <2>3. p \in Known' /\ project'[p] \in g.seen /\ \A d \in named'[p] \cap there' : Declined(g, d)'
    BY <1>1, <1>3, <2>1, <2>2 DEF Declined
  <2>4. ASSUME NEW d \in Known' \ {p}
        PROVE  /\ Edge(p, d)' \in link'.auto => d \in named[p] \cap there
               /\ d \in named[p] \cap there => Edge(p, d)' \in Active' \cup link'.removed
    <3>1. CASE d \in Known
      <4>1. Edge(p, d)' = Edge(p, d)
        BY <1>3, <2>1, <3>1
      <4>. QED
        BY <1>7, <2>1, <2>4, <3>1, <4>1 DEF Agreed
    <3>2. CASE d \notin Known
      <4>1. d = r /\ d \notin named[p] \cap there
        BY <1>3, <2>2, <2>4, <3>2
      <4>2. Edge(p, d)' \notin link.auto
        <5>. SUFFICES ASSUME Edge(p, d)' \in link.auto PROVE FALSE
          OBVIOUS
        <5>1. PICK b \in Known, c \in Known : Edge(p, d)' = Edge(b, c)
          BY DEF RegistryTyped
        <5>2. project'[d] = project[c]
          BY <5>1 DEF Edge
        <5>. QED
          BY <1>3, <1>5, <4>1, <5>2
      <4>. QED
        BY <4>1, <4>2
    <3>. QED
      BY <3>1, <3>2
  <2>5. Agreed(p)'
    BY <2>4 DEF Agreed
  <2>. QED
    BY <2>3, <2>5
<1>. QED
  BY <1>12, <1>13, <1>14 DEF GoesTrue

-----------------------------------------------------------------------------
LEMMA QuietKnows ==
  ASSUME NEW g, g.visited = {}, g.at = "rest" \/ ~g.calm
  PROVE  Knows(g)'
BY DEF Knows

LEMMA StillKnows ==
  ASSUME NEW g, Knows(g), UNCHANGED <<project, link, named, there>>
  PROVE  Knows(g)'
<1>1. Known' = Known /\ Active' = Active /\ \A b, d : Edge(b, d)' = Edge(b, d)
  BY DEF Known, Active, Edge
<1>2. \A p : Agreed(p) => Agreed(p)'
  BY <1>1 DEF Agreed
<1>3. \A p : InScope(p) => InScope(p)'
  BY <1>1 DEF InScope
<1>4. Entered(g)' = Entered(g) /\ Coming(g)' = Coming(g)
  BY DEF Entered, Coming
<1>5. \A b, d : LeadsTo(g, b, d)' <=> LeadsTo(g, b, d)
  BY <1>1, <1>4 DEF LeadsTo
<1>6. \A X : Closed(g, X)' <=> Closed(g, X)
  BY <1>1, <1>5 DEF Closed
<1>7. Reached(g) => Reached(g)'
  BY <1>1, <1>4, <1>6 DEF Reached
<1>8. \A d : (Handled(g, d)' <=> Handled(g, d)) /\ (Declined(g, d)' <=> Declined(g, d))
  BY <1>1 DEF Handled, Declined
<1>9. ReadsTrue(g) => ReadsTrue(g)'
  BY <1>1, <1>4, <1>8 DEF ReadsTrue
<1>10. VisitedTrue(g) => VisitedTrue(g)'
  BY <1>1, <1>2, <1>8 DEF VisitedTrue
<1>. QED
  BY <1>2, <1>3, <1>7, <1>9, <1>10 DEF Knows, GoesTrue

\* What a record knows, a walk whose record it becomes knows.
LEMMA BecomesKnown ==
  ASSUME NEW w \in Walkers, NEW g, walk'[w] = g, Knows(g)'
  PROVE  Knows(walk[w])'
<1> DEFINE h == walk[w]
<1>1. h' = g
  OBVIOUS
<1>2. Entered(h)' = Entered(g)' /\ Coming(h)' = Coming(g)'
  BY <1>1 DEF Entered, Coming
<1>3. \A b, d : LeadsTo(h, b, d)' <=> LeadsTo(g, b, d)'
  BY <1>1, <1>2 DEF LeadsTo
<1>4. \A X : Closed(h, X)' <=> Closed(g, X)'
  BY <1>3 DEF Closed
<1>5. Reached(g)' => Reached(h)'
  BY <1>1, <1>2, <1>4 DEF Reached
<1>6. \A d : (Handled(h, d)' <=> Handled(g, d)') /\ (Declined(h, d)' <=> Declined(g, d)')
  BY <1>1 DEF Handled, Declined
<1>7. ReadsTrue(g)' => ReadsTrue(h)'
  BY <1>1, <1>2, <1>6 DEF ReadsTrue
<1>8. VisitedTrue(g)' => VisitedTrue(h)'
  BY <1>1, <1>6 DEF VisitedTrue
<1>. QED
  BY <1>1, <1>5, <1>7, <1>8 DEF Knows, GoesTrue

LEMMA DisturbedQuiet ==
  ASSUME NEW h \in WalkRecords
  PROVE  Disturbed(h).visited = {} /\ (Disturbed(h).at = "rest" \/ ~Disturbed(h).calm)
<1>1. CASE h.at = "rest"
  BY <1>1 DEF Disturbed, Resting
<1>2. CASE h.at # "rest"
  <2>1. Disturbed(h) = [h EXCEPT !.calm = FALSE, !.visited = {}]
    BY <1>2 DEF Disturbed
  <2>. QED
    BY <2>1 DEF WalkRecords
<1>. QED
  BY <1>1, <1>2

-----------------------------------------------------------------------------
\* The inductive invariant: what the registry holds, what a walk may be, and what a walk that
\* nobody has disturbed knows.
LinksInv == RegistryTyped /\ WalksTyped /\ \A w \in Walkers : Knows(walk[w])

\* The other walks, when w has moved: nothing changed under them, or they are not calm.
LEMMA OthersKnow ==
  ASSUME LinksInv, NEW w \in Walkers, NEW g, NEW changes \in BOOLEAN, Walks(w, g, changes),
         ~changes => UNCHANGED <<project, link>>, UNCHANGED <<named, there>>, Knows(g)'
  PROVE  \A v \in Walkers : Knows(walk[v])'
<1>. SUFFICES ASSUME NEW v \in Walkers PROVE Knows(walk[v])'
  OBVIOUS
<1>1. walk'[v] = IF v = w THEN g ELSE IF changes THEN Disturbed(walk[v]) ELSE walk[v]
  BY DEF Walks
<1>2. walk[v] \in WalkRecords /\ Knows(walk[v])
  BY DEF LinksInv, WalksTyped
<1>3. CASE v = w
  BY <1>1, <1>3, BecomesKnown
<1>4. CASE v # w /\ changes
  <2>1. PICK f : f = Disturbed(walk[v])
    OBVIOUS
  <2>2. f.visited = {} /\ (f.at = "rest" \/ ~f.calm)
    BY <1>2, <2>1, DisturbedQuiet
  <2>3. Knows(f)'
    BY <2>2, QuietKnows
  <2>. QED
    BY <1>1, <1>4, <2>1, <2>3, BecomesKnown
<1>5. CASE v # w /\ ~changes
  <2>1. PICK f : f = walk[v]
    OBVIOUS
  <2>2. Knows(f)
    BY <1>2, <2>1
  <2>3. Knows(f)'
    BY <1>5, <2>2, StillKnows
  <2>. QED
    BY <1>1, <1>5, <2>1, <2>3, BecomesKnown
<1>. QED
  BY <1>3, <1>4, <1>5

LEMMA UserKnows ==
  ASSUME LinksInv, Act
  PROVE  \A v \in Walkers : Knows(walk[v])'
<1>. SUFFICES ASSUME NEW v \in Walkers PROVE Knows(walk[v])'
  OBVIOUS
<1>1. walk'[v] = Disturbed(walk[v]) /\ walk[v] \in WalkRecords
  BY DEF Act, LinksInv, WalksTyped
<1>2. PICK f : f = Disturbed(walk[v])
  OBVIOUS
<1>3. f.visited = {} /\ (f.at = "rest" \/ ~f.calm)
  BY <1>1, <1>2, DisturbedQuiet
<1>4. Knows(f)'
  BY <1>3, QuietKnows
<1>. QED
  BY <1>1, <1>2, <1>4, BecomesKnown

-----------------------------------------------------------------------------
\* A walk under way either is not calm and has nothing to say, or goes by true readings.
LEMMA WalkGoesOn ==
  ASSUME LinksInv, NEW w \in Walkers, walk[w].at # "rest"
  PROVE  /\ walk[w] \in WalkRecords
         /\ ~walk[w].calm => walk[w].visited = {}
         /\ walk[w].calm => GoesTrue(walk[w])
BY DEF LinksInv, WalksTyped, Knows

LEMMA KeepsKnowing ==
  ASSUME NEW g, g.at # "rest", g.calm => GoesTrue(g)', ~g.calm => g.visited = {}
  PROVE  Knows(g)'
BY DEF Knows

LEMMA FollowKnows ==
  ASSUME LinksInv, NEW w \in Walkers, Follow(w)
  PROVE  \A v \in Walkers : Knows(walk[v])'
<1>1. PICK g : /\ Begins(g) /\ Walks(w, g, FALSE) /\ Root \in Known
               /\ UNCHANGED <<project, link, named, there>>
  BY FollowStep DEF LinksInv
<1>2. Knows(g)
  BY <1>1, BeginsTrue DEF LinksInv
<1>3. Knows(g)'
  BY <1>1, <1>2, StillKnows
<1>. QED
  BY <1>1, <1>3, OthersKnow

LEMMA ProjectKnows ==
  ASSUME LinksInv, NEW w \in Walkers, WalkProject(w)
  PROVE  \A v \in Walkers : Knows(walk[v])'
<1>1. RegistryTyped /\ WalksTyped
  BY DEF LinksInv
<1>2. PICK h : h = walk[w]
  OBVIOUS
<1>3. /\ h.at = "project" /\ UNCHANGED <<project, link, named, there>>
      /\ \E g, p, unread : /\ Walks(w, g, FALSE) /\ p \in h.level /\ unread \in BOOLEAN
                           /\ PassesBy(g, h, p) \/ ReadsProject(g, h, p, unread)
  BY <1>1, <1>2, ProjectStep
<1>4. PICK g, p, unread : /\ Walks(w, g, FALSE) /\ p \in h.level /\ unread \in BOOLEAN
                          /\ PassesBy(g, h, p) \/ ReadsProject(g, h, p, unread)
  BY <1>3
<1>5. h \in WalkRecords /\ (~h.calm => h.visited = {}) /\ (h.calm => GoesTrue(h))
  BY <1>2, <1>3, WalkGoesOn
<1>6. g.at # "rest" /\ g.calm = h.calm /\ g.visited = h.visited
  BY <1>4 DEF PassesBy, ReadsProject, Carries
<1>7. ASSUME h.calm PROVE GoesTrue(g)
  BY <1>1, <1>3, <1>4, <1>5, <1>7, PassesTrue, ReadTrue
<1>8. Knows(g)
  BY <1>5, <1>6, <1>7 DEF Knows
<1>9. Knows(g)'
  BY <1>3, <1>8, StillKnows
<1>. QED
  BY <1>3, <1>4, <1>9, OthersKnow

LEMMA LevelKnows ==
  ASSUME LinksInv, NEW w \in Walkers, WalkLevel(w)
  PROVE  \A v \in Walkers : Knows(walk[v])'
<1>1. RegistryTyped /\ WalksTyped
  BY DEF LinksInv
<1>2. PICK h : h = walk[w]
  OBVIOUS
<1>3. /\ h.at = "project" /\ h.level = {} /\ UNCHANGED <<project, link, named, there>>
      /\ \E g : Walks(w, g, FALSE) /\ (GoesDeeper(g, h) \/ (h.next = {} /\ Stops(g, h)))
  BY <1>1, <1>2, LevelStep
<1>4. PICK g : Walks(w, g, FALSE) /\ (GoesDeeper(g, h) \/ (h.next = {} /\ Stops(g, h)))
  BY <1>3
<1>5. h \in WalkRecords /\ (~h.calm => h.visited = {}) /\ (h.calm => GoesTrue(h))
  BY <1>2, <1>3, WalkGoesOn
<1>6. g.calm = h.calm /\ g.visited = h.visited
  BY <1>4 DEF GoesDeeper, Stops, Carries
<1>7. CASE GoesDeeper(g, h)
  <2>1. g.at # "rest"
    BY <1>7 DEF GoesDeeper
  <2>2. h.calm => GoesTrue(g)
    BY <1>1, <1>3, <1>5, <1>7, DeeperTrue
  <2>3. Knows(g)
    BY <1>5, <1>6, <2>1, <2>2 DEF Knows
  <2>4. Knows(g)'
    BY <1>3, <2>3, StillKnows
  <2>. QED
    BY <1>3, <1>4, <2>4, OthersKnow
<1>8. CASE h.next = {} /\ Stops(g, h)
  <2>1. h.calm => Knows(g)
    BY <1>1, <1>3, <1>5, <1>8, StopsTrue
  <2>2. ~h.calm => Knows(g)
    BY <1>5, <1>6 DEF Knows
  <2>3. Knows(g)'
    BY <1>3, <2>1, <2>2, StillKnows
  <2>. QED
    BY <1>3, <1>4, <2>3, OthersKnow
<1>. QED
  BY <1>4, <1>7, <1>8

LEMMA TargetKnows ==
  ASSUME LinksInv, NEW w \in Walkers, WalkTarget(w)
  PROVE  \A v \in Walkers : Knows(walk[v])'
<1>1. RegistryTyped /\ WalksTyped
  BY DEF LinksInv
<1>2. PICK h : h = walk[w]
  OBVIOUS
<1>3. h.at = "target" /\ UNCHANGED <<link, named, there, acts>>
  BY <1>1, <1>2, TargetStep DEF FilesStay
<1>4. PICK g, r :
        /\ TakesUp(g, h, r) /\ r \in h.refs /\ r \in Dirs
        /\ \/ /\ UNCHANGED <<project, auto>> /\ Walks(w, g, FALSE) /\ g.auto = h.auto
              /\ \/ r \in Known /\ project[r] = h.p[2] /\ g.at = "target"
                 \/ r \in Known /\ project[r] # h.p[2] /\ g.at = "link" /\ g.to = <<r, project[r]>>
                 \/ r \notin Known /\ h.auto >= MaxAuto /\ g.at = "target"
           \/ /\ r \notin Known /\ h.auto < MaxAuto /\ Walks(w, g, TRUE)
              /\ project' = [project EXCEPT ![r] = NextId]
              /\ \/ NextId = h.p[2] /\ g.at = "target"
                 \/ NextId # h.p[2] /\ g.at = "link" /\ g.to = <<r, NextId>>
  <2>. DEFINE k == walk[w]
  <2>1. PICK g, r :
          /\ TakesUp(g, k, r) /\ r \in k.refs /\ r \in Dirs
          /\ \/ /\ UNCHANGED <<project, auto>> /\ Walks(w, g, FALSE) /\ g.auto = k.auto
                /\ \/ r \in Known /\ project[r] = k.p[2] /\ g.at = "target"
                   \/ r \in Known /\ project[r] # k.p[2] /\ g.at = "link" /\ g.to = <<r, project[r]>>
                   \/ r \notin Known /\ k.auto >= MaxAuto /\ g.at = "target"
             \/ /\ r \notin Known /\ k.auto < MaxAuto /\ Walks(w, g, TRUE)
                /\ project' = [project EXCEPT ![r] = NextId]
                /\ \/ NextId = k.p[2] /\ g.at = "target"
                   \/ NextId # k.p[2] /\ g.at = "link" /\ g.to = <<r, NextId>>
    BY <1>1, TargetStep
  <2>. QED
    BY <1>2, <2>1
<1>5. h \in WalkRecords /\ (~h.calm => h.visited = {}) /\ (h.calm => GoesTrue(h))
  BY <1>2, <1>3, WalkGoesOn
<1>6. g.calm = h.calm /\ g.visited = h.visited /\ g.at # "rest"
  BY <1>4 DEF TakesUp
<1>7. CASE /\ UNCHANGED <<project, auto>> /\ Walks(w, g, FALSE) /\ g.auto = h.auto
           /\ \/ r \in Known /\ project[r] = h.p[2] /\ g.at = "target"
              \/ r \in Known /\ project[r] # h.p[2] /\ g.at = "link" /\ g.to = <<r, project[r]>>
              \/ r \notin Known /\ h.auto >= MaxAuto /\ g.at = "target"
  <2>2. h.calm => GoesTrue(g)
    BY <1>1, <1>3, <1>4, <1>5, <1>7, TakesUpTrue
  <2>3. Knows(g)
    BY <1>5, <1>6, <2>2 DEF Knows
  <2>4. Knows(g)'
    BY <1>3, <1>7, <2>3, StillKnows
  <2>. QED
    BY <1>3, <1>7, <2>4, OthersKnow
<1>8. CASE /\ r \notin Known /\ h.auto < MaxAuto /\ Walks(w, g, TRUE)
           /\ project' = [project EXCEPT ![r] = NextId]
           /\ \/ NextId = h.p[2] /\ g.at = "target"
              \/ NextId # h.p[2] /\ g.at = "link" /\ g.to = <<r, NextId>>
  <2>1. h.calm => GoesTrue(g)'
    BY <1>1, <1>3, <1>4, <1>5, <1>8, AddsTrue
  <2>2. Knows(g)'
    BY <1>5, <1>6, <2>1, KeepsKnowing
  <2>. QED
    BY <1>3, <1>8, <2>2, OthersKnow
<1>. QED
  BY <1>4, <1>7, <1>8

LEMMA LinkKnows ==
  ASSUME LinksInv, NEW w \in Walkers, WalkLink(w)
  PROVE  \A v \in Walkers : Knows(walk[v])'
<1>1. RegistryTyped /\ WalksTyped
  BY DEF LinksInv
<1>2. PICK h, e : h = walk[w] /\ e = <<h.p[2], h.to[2]>>
  OBVIOUS
<1>3. h.at = "link" /\ UNCHANGED <<project, named, there>>
  BY <1>1, <1>2, LinkStep DEF FilesStay
<1>4. \/ link' = link /\ Walks(w, Resting, FALSE)
      \/ \E g, next, made :
            /\ Walks(w, g, made) /\ LinksOne(g, h, next) /\ made \in BOOLEAN
            /\ made => /\ link'.manual = link.manual /\ link'.auto = link.auto \cup {e}
                       /\ link'.removed = link.removed
            /\ ~made => e \in Active \cup link.removed /\ link' = link
            /\ next = IF (made \/ e \in h.active) /\ h.to[2] \notin h.seen THEN {h.to} ELSE {}
  BY <1>1, <1>2, LinkStep
<1>5. h \in WalkRecords /\ (~h.calm => h.visited = {}) /\ (h.calm => GoesTrue(h))
  BY <1>2, <1>3, WalkGoesOn
<1>6. CASE link' = link /\ Walks(w, Resting, FALSE)
  <2>1. PICK g : g = Resting
    OBVIOUS
  <2>2. Knows(g)'
    BY <2>1, RestingTyped, QuietKnows
  <2>. QED
    BY <1>3, <1>6, <2>1, <2>2, OthersKnow
<1>7. ASSUME NEW g, NEW next, NEW made \in BOOLEAN, Walks(w, g, made), LinksOne(g, h, next),
             made => /\ link'.manual = link.manual /\ link'.auto = link.auto \cup {e}
                     /\ link'.removed = link.removed,
             ~made => e \in Active \cup link.removed /\ link' = link,
             next = IF (made \/ e \in h.active) /\ h.to[2] \notin h.seen THEN {h.to} ELSE {}
      PROVE  \A v \in Walkers : Knows(walk[v])'
  <2>1. g.calm = h.calm /\ g.visited = h.visited /\ g.at # "rest"
    BY <1>7 DEF LinksOne, Carries
  <2>2. h.calm => GoesTrue(g)'
    BY <1>1, <1>2, <1>3, <1>5, <1>7, LinksOneTrue
  <2>3. Knows(g)'
    BY <1>5, <2>1, <2>2, KeepsKnowing
  <2>. QED
    BY <1>3, <1>7, <2>3, OthersKnow
<1>. QED
  BY <1>4, <1>6, <1>7

LEMMA DropsKnow ==
  ASSUME LinksInv, NEW w \in Walkers, WalkDrops(w)
  PROVE  \A v \in Walkers : Knows(walk[v])'
<1>1. RegistryTyped /\ WalksTyped
  BY DEF LinksInv
<1>2. PICK h : h = walk[w]
  OBVIOUS
<1>3. h.at = "target" /\ h.refs = {} /\ UNCHANGED <<project, named, there>>
  BY <1>1, <1>2, DropsStep DEF FilesStay
<1>4. PICK g, drop :
        /\ drop = {e \in link.auto : ~h.unread /\ e[1] = h.p[2] /\ e[2] \notin h.keep}
        /\ DropsRest(g, h) /\ Walks(w, g, drop # {})
        /\ link' \in RowsTyped /\ link'.manual = link.manual
        /\ link'.removed = link.removed /\ link'.auto = link.auto \ drop
  BY <1>1, <1>2, DropsStep
<1>5. h \in WalkRecords /\ (~h.calm => h.visited = {}) /\ (h.calm => GoesTrue(h))
  BY <1>2, <1>3, WalkGoesOn
<1>6. g.at # "rest" /\ g.calm = h.calm /\ (~h.calm => g.visited = h.visited)
  BY <1>4 DEF DropsRest
<1>7. h.calm => GoesTrue(g)'
  BY <1>1, <1>3, <1>4, <1>5, DropsTrue
<1>8. Knows(g)'
  BY <1>5, <1>6, <1>7, KeepsKnowing
<1>9. drop = {} => link' = link
  <2>. SUFFICES ASSUME drop = {} PROVE link' = link
    OBVIOUS
  <2>1. link'.auto = link.auto
    BY <1>4
  <2>2. link \in RowsTyped
    BY <1>1 DEF RegistryTyped, RowsTyped
  <2>. QED
    BY <1>4, <2>1, <2>2 DEF RowsTyped
<1>10. (drop # {}) \in BOOLEAN /\ (~(drop # {}) => UNCHANGED <<project, link>>)
  BY <1>3, <1>9
<1>. QED
  BY <1>3, <1>4, <1>8, <1>10, OthersKnow

-----------------------------------------------------------------------------
(* Every walk goes by true readings of the registry until something changes  *)
(* under it (plugins/graph/follow.rs).                                       *)
THEOREM LinksInvariant == LinksSpec => []LinksInv
<1>1. LinksInit => LinksInv
  <2>. SUFFICES ASSUME LinksInit PROVE LinksInv
    OBVIOUS
  <2>1. \A w \in Walkers : walk[w] = Resting
    BY DEF LinksInit
  <2>2. \A w \in Walkers : Knows(walk[w])
    BY <2>1, RestingTyped DEF Knows
  <2>. QED
    BY <2>2, LinksStart DEF LinksInv
<1>2. LinksInv /\ [LinksNext]_linkVars => LinksInv'
  <2>. SUFFICES ASSUME LinksInv, [LinksNext]_linkVars PROVE LinksInv'
    OBVIOUS
  <2>1. RegistryTyped' /\ WalksTyped'
    BY LinksSteps DEF LinksInv
  <2>2. CASE UNCHANGED linkVars
    <3>1. UNCHANGED <<project, link, named, there, walk>>
      BY <2>2 DEF linkVars, userVars
    <3>2. ASSUME NEW v \in Walkers PROVE Knows(walk[v])'
      <4>1. PICK g : g = walk[v]
        OBVIOUS
      <4>2. Knows(g)'
        BY <3>1, <4>1, StillKnows DEF LinksInv
      <4>. QED
        BY <3>1, <4>1, <4>2, BecomesKnown
    <3>. QED
      BY <2>1, <3>2 DEF LinksInv
  <2>3. CASE UserActs
    BY <2>1, <2>3, UserTyped, UserKnows DEF LinksInv
  <2>4. ASSUME NEW w \in Walkers, WalkSteps(w) PROVE LinksInv'
    <3>1. \A v \in Walkers : Knows(walk[v])'
      BY <2>4, FollowKnows, ProjectKnows, LevelKnows, TargetKnows, LinkKnows, DropsKnow
      DEF WalkSteps
    <3>. QED
      BY <2>1, <3>1 DEF LinksInv
  <2>. QED
    BY <2>2, <2>3, <2>4 DEF LinksNext, UserActs, WalkSteps
<1>. QED
  BY <1>1, <1>2, PTL DEF LinksSpec

(* The projects, rows and walks have their types in every reachable state.   *)
THEOREM LinksTypeCorrect == LinksSpec => []LinksTypeOK
<1>1. LinksInv => LinksTypeOK
  BY LinksTyping DEF LinksInv
<1>. QED
  BY <1>1, LinksInvariant, PTL

LEMMA KnowsAgrees ==
  ASSUME LinksInv
  PROVE  WalkAgrees
<1>. SUFFICES ASSUME NEW w \in Walkers, walk[w].at = "rest"
              PROVE  /\ \A p \in walk[w].visited : \A d \in Known \ {p} :
                          LET e == <<project[p], project[d]>> IN
                          /\ e \in link.auto => d \in named[p] \cap there
                          /\ d \in named[p] \cap there => e \in Active \cup link.removed
                     /\ walk[w].visited \subseteq Scope(Root)
  BY DEF WalkAgrees
<1>1. \A p \in walk[w].visited : Agreed(p) /\ InScope(p)
  BY DEF LinksInv, Knows
<1>2. PICK X \in SUBSET Dirs :
        /\ Root \in X /\ Scope(Root) = X \cap there
        /\ \A b \in X \cap there, d \in Known : Edge(b, d) \in Active => d \in X
  BY ScopeIsClosed
<1>3. \A p : InScope(p) => p \in Scope(Root)
  BY <1>2 DEF InScope
<1>4. \A p \in walk[w].visited : \A d \in Known \ {p} :
        /\ Edge(p, d) \in link.auto => d \in named[p] \cap there
        /\ d \in named[p] \cap there => Edge(p, d) \in Active \cup link.removed
  BY <1>1 DEF Agreed
<1>. QED
  BY <1>1, <1>3, <1>4 DEF Edge

(* The links of the registry are the user's where the user spoke, and the    *)
(* manifests' where they did not: a walk under which nothing changed leaves   *)
(* each project it read with the auto links its manifests name and no         *)
(* others, and what it followed is in the scope the graph's tools answer      *)
(* from, for any directories, manifests and number of walks (follow.rs,       *)
(* project_links.rs, scope_of).                                               *)
THEOREM LinksAlwaysAgree == LinksSpec => []LinksAgree
<1>1. LinksInv => WalkAgrees
  BY KnowsAgrees
<1>2. UserHasTheLastWord /\ WalkAgrees => LinksAgree
  BY DEF LinksAgree
<1>. QED
  BY <1>1, <1>2, LinksInvariant, TheUserDecides, PTL

-----------------------------------------------------------------------------
(* The agents' rows.                                                         *)

Places == {"none", "open", "register", "chain", "record", "endAgent", "endSession"}

\* Only hooks that end a session hold its agent's id or come to its end, and they do so with a
\* sessions row there.
EndsKnown(s) ==
  /\ id[s] \subseteq {"end", "child"}
  /\ \A k \in Kinds : hook[s][k] \in {"endAgent", "endSession"} => k # "event" /\ row[s] # "none"

\* Some hook is still to end a session that is over, or it is ended, or the deferred child of
\* its SessionEnd could not write either.
EndIsDue(s) ==
  phase[s] = "over" => \/ hook[s]["end"] # "none" \/ hook[s]["child"] # "none"
                       \/ row[s] = "ended" \/ s \in dropped

\* The inductive invariant.
AgentInv == AgentTypeOK /\ \A s \in Sessions : EndsKnown(s) /\ EndIsDue(s)

LEMMA AgentInitInv == AgentInit => AgentInv
BY AgentConstants DEF AgentInit, AgentInv, AgentTypeOK, EndsKnown, EndIsDue, Kinds

\* A statement of one hook, and a hook that starts, move that hook alone.
LEMMA Moved1 ==
  ASSUME AgentTypeOK, NEW s \in Sessions, NEW k \in Kinds, NEW l \in Places, To(s, k, l)
  PROVE  /\ hook' \in [Sessions -> [Kinds -> Places]]
         /\ hook'[s][k] = l
         /\ \A t \in Sessions, j \in Kinds : t # s \/ j # k => hook'[t][j] = hook[t][j]
BY DEF AgentTypeOK, Places, To

\* A hook that gives up leaves the end of a session to the child.
LEMMA GaveUp ==
  ASSUME AgentTypeOK, NEW s \in Sessions, NEW k \in Kinds, GiveUp(s, k)
  PROVE  /\ hook' \in [Sessions -> [Kinds -> Places]] /\ dropped' \subseteq Sessions
         /\ \A t \in Sessions, j \in Kinds :
              hook'[t][j] = IF t # s \/ j \notin {k, "child"} THEN hook[t][j]
                            ELSE IF j = "child" /\ k = "end" THEN "open"
                            ELSE IF j = k THEN "none" ELSE hook[t][j]
         /\ dropped \subseteq dropped' /\ (k = "child" => s \in dropped')
<1> DEFINE h == [hook[s] EXCEPT ![k] = "none",
                   !["child"] = IF k = "end" THEN "open" ELSE IF k = "child" THEN "none"
                                ELSE hook[s]["child"]]
<1>1. /\ hook \in [Sessions -> [Kinds -> Places]] /\ "child" \in Kinds /\ dropped \subseteq Sessions
  BY DEF AgentTypeOK, Places, Kinds
<1>2. hook' = [hook EXCEPT ![s] = h]
  BY <1>1 DEF GiveUp
<1>3. h \in [Kinds -> Places]
  BY <1>1 DEF Places
<1>4. \A j \in Kinds : h[j] = IF j = "child"
                              THEN IF k = "end" THEN "open" ELSE IF k = "child" THEN "none"
                                   ELSE hook[s]["child"]
                              ELSE IF j = k THEN "none" ELSE hook[s][j]
  BY <1>1
<1>5. hook' \in [Sessions -> [Kinds -> Places]] /\ hook'[s] = h
      /\ \A t \in Sessions : t # s => hook'[t] = hook[t]
  <2>. HIDE DEF h
  <2>. QED
    BY <1>1, <1>2, <1>3
<1>6. dropped' \subseteq Sessions /\ dropped \subseteq dropped' /\ (k = "child" => s \in dropped')
  BY <1>1 DEF GiveUp
<1>. HIDE DEF h
<1>. QED
  BY <1>4, <1>5, <1>6

LEMMA FaultsTyped ==
  ASSUME AgentTypeOK, Fault \/ NoFault
  PROVE  faults' \in 0..MaxFaults
<1>1. MaxFaults \in Nat
  BY AgentConstants
<1>. QED
  BY <1>1 DEF AgentTypeOK, Fault, NoFault

LEMMA HostKeeps ==
  ASSUME AgentInv, NEW s \in Sessions,
         SessionEvent(s) \/ SessionEnd(s) \/ SessionResumes(s) \/ McpStarts(s)
  PROVE  AgentInv'
<1>1. AgentTypeOK /\ MaxResumes \in Nat
  BY AgentConstants DEF AgentInv
<1>2. UNCHANGED <<id, agent, chained, row, faults>>
  BY DEF SessionEvent, SessionEnd, SessionResumes, McpStarts, RowsUnchanged
<1>3. ASSUME NEW k \in Kinds, Fire(s, k), UNCHANGED seen,
             \/ /\ k = "event" /\ phase' = [phase EXCEPT ![s] = "running"]
                /\ dropped' \in {dropped, dropped \ {s}}
             \/ k = "end" /\ phase' = [phase EXCEPT ![s] = "over"] /\ UNCHANGED dropped,
             resumes' \in 0..MaxResumes
      PROVE  AgentInv'
  <2>1. /\ hook' \in [Sessions -> [Kinds -> Places]]
        /\ hook[s][k] = "none" /\ hook'[s][k] = "open"
        /\ \A t \in Sessions, j \in Kinds : t # s \/ j # k => hook'[t][j] = hook[t][j]
    <3>1. To(s, k, "open") /\ "open" \in Places /\ hook[s][k] = "none"
      BY <1>3 DEF Fire, To, Places
    <3>. QED
      BY <1>1, <3>1, Moved1
  <2>2. /\ phase' \in [Sessions -> {"new", "running", "over"}]
        /\ \A t \in Sessions : t # s => phase'[t] = phase[t]
        /\ phase'[s] = IF k = "end" THEN "over" ELSE "running"
    BY <1>1, <1>3 DEF AgentTypeOK
  <2>3. AgentTypeOK'
    BY <1>1, <1>2, <1>3, <2>1, <2>2 DEF AgentTypeOK, Places
  <2>4. ASSUME NEW t \in Sessions PROVE EndsKnown(t)'
    BY <1>2, <2>1 DEF AgentInv, EndsKnown
  <2>5. ASSUME NEW t \in Sessions PROVE EndIsDue(t)'
    BY <1>2, <1>3, <2>1, <2>2 DEF AgentInv, EndIsDue, Kinds
  <2>. QED
    BY <2>3, <2>4, <2>5 DEF AgentInv
<1>4. CASE SessionEvent(s)
  BY <1>1, <1>3, <1>4 DEF SessionEvent, RowsUnchanged, AgentTypeOK, Kinds
<1>5. CASE SessionEnd(s)
  BY <1>1, <1>3, <1>5 DEF SessionEnd, RowsUnchanged, AgentTypeOK, Kinds
<1>6. CASE SessionResumes(s)
  <2>1. resumes' \in 0..MaxResumes
    BY <1>1, <1>6 DEF SessionResumes, AgentTypeOK
  <2>. QED
    BY <1>3, <1>6, <2>1 DEF SessionResumes, Kinds
<1>7. CASE McpStarts(s)
  <2>1. UNCHANGED <<phase, hook, dropped, resumes>>
    BY <1>7 DEF McpStarts, RowsUnchanged
  <2>2. seen' \in [Sessions -> SUBSET Sessions]
    BY <1>1, <1>7 DEF McpStarts, AgentTypeOK
  <2>. QED
    BY <1>1, <1>2, <2>1, <2>2 DEF AgentInv, AgentTypeOK, EndsKnown, EndIsDue
<1>. QED
  BY <1>4, <1>5, <1>6, <1>7

\* A statement after which the hook of a session that is to end is still at work.
LEMMA GoesOn ==
  ASSUME AgentInv, NEW s \in Sessions, NEW k \in Kinds, NEW l \in Places \ {"none"}, To(s, k, l),
         hook[s][k] # "none", UNCHANGED <<phase, dropped>>,
         \A t \in Sessions : id'[t] \subseteq id[t] \cup ({k} \ {"event"})
                             /\ (row'[t] = "none" => row[t] = "none")
                             /\ (row[t] = "ended" => row'[t] = "ended"),
         l \in {"endAgent", "endSession"} => k # "event" /\ row'[s] # "none"
  PROVE  /\ hook' \in [Sessions -> [Kinds -> Places]]
         /\ \A t \in Sessions : EndsKnown(t)' /\ EndIsDue(t)'
<1>1. /\ hook' \in [Sessions -> [Kinds -> Places]]
      /\ hook'[s][k] = l
      /\ \A t \in Sessions, j \in Kinds : t # s \/ j # k => hook'[t][j] = hook[t][j]
  BY Moved1 DEF AgentInv
<1>2. ASSUME NEW t \in Sessions PROVE EndsKnown(t)'
  BY <1>1 DEF AgentInv, EndsKnown, Kinds
<1>3. ASSUME NEW t \in Sessions PROVE EndIsDue(t)'
  BY <1>1 DEF AgentInv, EndIsDue, Kinds
<1>. QED
  BY <1>1, <1>2, <1>3

\* One that gives up.
LEMMA GivesUp ==
  ASSUME AgentInv, NEW s \in Sessions, NEW k \in Kinds, GiveUp(s, k),
         UNCHANGED <<phase, row>>, \A t \in Sessions : id'[t] \subseteq id[t]
  PROVE  /\ hook' \in [Sessions -> [Kinds -> Places]] /\ dropped' \subseteq Sessions
         /\ \A t \in Sessions : EndsKnown(t)' /\ EndIsDue(t)'
<1>1. /\ hook' \in [Sessions -> [Kinds -> Places]] /\ dropped' \subseteq Sessions
      /\ \A t \in Sessions, j \in Kinds :
           hook'[t][j] = IF t # s \/ j \notin {k, "child"} THEN hook[t][j]
                         ELSE IF j = "child" /\ k = "end" THEN "open"
                         ELSE IF j = k THEN "none" ELSE hook[t][j]
      /\ dropped \subseteq dropped' /\ (k = "child" => s \in dropped')
  BY GaveUp DEF AgentInv
<1>2. ASSUME NEW t \in Sessions PROVE EndsKnown(t)'
  BY <1>1 DEF AgentInv, EndsKnown
<1>3. ASSUME NEW t \in Sessions PROVE EndIsDue(t)'
  <2>1. hook[t]["end"] # "none" => hook'[t]["end"] # "none" \/ hook'[t]["child"] # "none"
    BY <1>1 DEF Kinds
  <2>2. hook[t]["child"] # "none" => hook'[t]["child"] # "none" \/ t \in dropped'
    BY <1>1 DEF Kinds
  <2>. QED
    BY <1>1, <2>1, <2>2 DEF AgentInv, EndIsDue
<1>. QED
  BY <1>1, <1>2, <1>3

LEMMA HookKeeps ==
  ASSUME AgentInv, NEW s \in Sessions, NEW k \in Kinds, HookStep(s, k)
  PROVE  AgentInv'
<1>1. AgentTypeOK
  BY DEF AgentInv
<1>2. faults' \in 0..MaxFaults
  BY <1>1, FaultsTyped
     DEF HookStep, HookOpen, HookRegister, HookChains, HookRecord, HookEndAgent, HookEndSession
<1>3. UNCHANGED <<phase, resumes>>
  BY DEF HookStep, HookOpen, HookRegister, HookChains, HookRecord, HookEndAgent, HookEndSession
<1> DEFINE Ok == /\ hook' \in [Sessions -> [Kinds -> Places]]
                 /\ \A t \in Sessions : EndsKnown(t)' /\ EndIsDue(t)'
<1>4. CASE HookOpen(s, k)
  <2>1. Ok /\ dropped' \subseteq Sessions
    <3>1. CASE To(s, k, "register") /\ UNCHANGED dropped
      BY <1>1, <1>4, <3>1, GoesOn DEF HookOpen, Places, AgentTypeOK
    <3>2. CASE GiveUp(s, k)
      BY <1>4, <3>2, GivesUp DEF HookOpen
    <3>. QED
      BY <1>4, <3>1, <3>2 DEF HookOpen
  <2>. QED
    BY <1>1, <1>2, <1>3, <1>4, <2>1 DEF AgentInv, AgentTypeOK, HookOpen, Places
<1>5. CASE HookRegister(s, k)
  <2>1. /\ id' \in [Sessions -> SUBSET Kinds]
        /\ \A t \in Sessions : id'[t] \subseteq id[t] \cup ({k} \ {"event"})
    <3>1. id \in [Sessions -> SUBSET Kinds]
      BY <1>1 DEF AgentTypeOK
    <3>. QED
      <4>1. id' = id \/ id' = [id EXCEPT ![s] = @ \cup ({k} \ {"event"})]
        BY <1>5 DEF HookRegister
      <4>2. {k} \ {"event"} \subseteq Kinds
        BY <1>1 DEF Kinds
      <4>. QED
        BY <1>1, <3>1, <4>1, <4>2
  <2>2. /\ agent' \in [Sessions -> {"none", "live", "ended"}]
        /\ seen' \in [Sessions -> SUBSET Sessions]
    <3>1. /\ agent \in [Sessions -> {"none", "live", "ended"}]
          /\ seen \in [Sessions -> SUBSET Sessions]
      BY <1>1 DEF AgentTypeOK
    <3>2. agent' \in [Sessions -> {"none", "live", "ended"}]
      BY <1>5, <3>1 DEF HookRegister
    <3>3. seen' \in [Sessions -> SUBSET Sessions]
      BY <1>5, <3>1 DEF HookRegister
    <3>. QED
      BY <3>2, <3>3
  <2>3. hook[s][k] = "register" /\ UNCHANGED <<phase, chained, row, dropped, resumes>>
        /\ \E l \in {"chain", "record"} : To(s, k, l)
    BY <1>5 DEF HookRegister
  <2>4. Ok
    BY <2>1, <2>3, GoesOn DEF Places
  <2>. QED
    BY <1>1, <1>2, <2>1, <2>2, <2>3, <2>4 DEF AgentInv, AgentTypeOK, Places
<1>6. CASE HookChains(s, k)
  <2>1. hook[s][k] = "chain" /\ To(s, k, "record") /\ chained' \subseteq Sessions
        /\ UNCHANGED <<phase, id, agent, row, seen, dropped, resumes>>
    BY <1>1, <1>6 DEF HookChains, AgentTypeOK
  <2>2. Ok
    BY <2>1, GoesOn DEF Places
  <2>. QED
    BY <1>1, <1>2, <2>1, <2>2 DEF AgentInv, AgentTypeOK, Places
<1>7. CASE HookRecord(s, k)
  <2>1. /\ row' \in [Sessions -> {"none", "open", "ended"}]
        /\ \A t \in Sessions : (row'[t] = "none" => row[t] = "none")
                               /\ (row[t] = "ended" => row'[t] = "ended")
    BY <1>1, <1>7 DEF HookRecord, AgentTypeOK
  <2>2. id' \in [Sessions -> SUBSET Kinds] /\ \A t \in Sessions : id'[t] \subseteq id[t]
    <3>1. id \in [Sessions -> SUBSET Kinds]
      BY <1>1 DEF AgentTypeOK
    <3>. QED
      <4>1. id' = id \/ id' = [id EXCEPT ![s] = @ \ {k}]
        BY <1>7 DEF HookRecord
      <4>. QED
        BY <1>1, <3>1, <4>1
  <2>3. UNCHANGED <<phase, agent, chained, seen, resumes>> /\ hook[s][k] = "record"
    BY <1>7 DEF HookRecord
  <2>4. Ok /\ dropped' \subseteq Sessions
    <3>1. CASE GiveUp(s, k) /\ UNCHANGED row
      BY <2>2, <2>3, <3>1, GivesUp
    <3>2. CASE /\ row' = [row EXCEPT ![s] = IF @ = "none" THEN "open" ELSE @]
               /\ To(s, k, IF k = "event" THEN "none" ELSE "endAgent")
               /\ UNCHANGED <<id, dropped>>
      <4>1. CASE k = "event"
        <5>1. /\ hook' \in [Sessions -> [Kinds -> Places]]
              /\ hook'[s][k] = "none"
              /\ \A t \in Sessions, j \in Kinds : t # s \/ j # k => hook'[t][j] = hook[t][j]
          <6>1. To(s, k, "none") /\ "none" \in Places
            BY <3>2, <4>1 DEF Places
          <6>. QED
            BY <1>1, <6>1, Moved1
        <5>2. ASSUME NEW t \in Sessions PROVE EndsKnown(t)' /\ EndIsDue(t)'
          BY <2>1, <2>3, <3>2, <4>1, <5>1 DEF AgentInv, EndsKnown, EndIsDue, Kinds
        <5>. QED
          BY <1>1, <3>2, <5>1, <5>2 DEF AgentTypeOK
      <4>2. CASE k # "event"
        <5>1. row'[s] # "none"
          BY <1>1, <3>2 DEF AgentTypeOK
        <5>2. To(s, k, "endAgent")
          BY <3>2, <4>2
        <5>. QED
          BY <1>1, <2>1, <2>3, <3>2, <4>2, <5>1, <5>2, GoesOn DEF Places, AgentTypeOK
      <4>. QED
        BY <4>1, <4>2
    <3>. QED
      BY <1>7, <3>1, <3>2 DEF HookRecord
  <2>. QED
    BY <1>1, <1>2, <2>1, <2>2, <2>3, <2>4 DEF AgentInv, AgentTypeOK, Places
<1>8. CASE HookEndAgent(s, k)
  <2>1. /\ id' \in [Sessions -> SUBSET Kinds] /\ \A t \in Sessions : id'[t] \subseteq id[t]
        /\ agent' \in [Sessions -> {"none", "live", "ended"}]
    BY <1>1, <1>8 DEF HookEndAgent, AgentTypeOK
  <2>2. hook[s][k] = "endAgent" /\ To(s, k, "endSession")
        /\ UNCHANGED <<phase, chained, row, seen, dropped, resumes>>
    BY <1>8 DEF HookEndAgent
  <2>3. k # "event" /\ row[s] # "none"
    BY <2>2 DEF AgentInv, EndsKnown
  <2>4. Ok
    BY <2>1, <2>2, <2>3, GoesOn DEF Places
  <2>. QED
    BY <1>1, <1>2, <2>1, <2>2, <2>4 DEF AgentInv, AgentTypeOK, Places
<1>9. CASE HookEndSession(s, k)
  <2>1. UNCHANGED <<phase, id, agent, chained, seen, resumes>> /\ hook[s][k] = "endSession"
    BY <1>9 DEF HookEndSession
  <2>2. k # "event" /\ row[s] # "none"
    BY <2>1 DEF AgentInv, EndsKnown
  <2>3. CASE GiveUp(s, k) /\ UNCHANGED row
    <3>1. Ok /\ dropped' \subseteq Sessions
      BY <2>1, <2>3, GivesUp
    <3>. QED
      BY <1>1, <1>2, <2>1, <2>3, <3>1 DEF AgentInv, AgentTypeOK, Places
  <2>4. CASE /\ row' = [row EXCEPT ![s] = IF @ = "none" THEN @ ELSE "ended"]
             /\ To(s, k, "none") /\ UNCHANGED dropped
    <3>1. /\ hook' \in [Sessions -> [Kinds -> Places]]
          /\ \A t \in Sessions, j \in Kinds : hook'[t][j] \in {"none", hook[t][j]}
          /\ \A t \in Sessions, j \in Kinds : t # s => hook'[t][j] = hook[t][j]
      <4>1. "none" \in Places
        BY DEF Places
      <4>2. /\ hook' \in [Sessions -> [Kinds -> Places]]
            /\ hook'[s][k] = "none"
            /\ \A t \in Sessions, j \in Kinds : t # s \/ j # k => hook'[t][j] = hook[t][j]
        BY <1>1, <2>4, <4>1, Moved1
      <4>. QED
        BY <4>2
    <3>2. /\ row' \in [Sessions -> {"none", "open", "ended"}] /\ row'[s] = "ended"
          /\ \A t \in Sessions : t # s => row'[t] = row[t]
      BY <1>1, <2>2, <2>4 DEF AgentTypeOK
    <3>3. ASSUME NEW t \in Sessions PROVE EndsKnown(t)' /\ EndIsDue(t)'
      BY <2>1, <2>4, <3>1, <3>2 DEF AgentInv, EndsKnown, EndIsDue, Kinds
    <3>. QED
      BY <1>1, <1>2, <2>1, <2>4, <3>1, <3>2, <3>3 DEF AgentInv, AgentTypeOK, Places
  <2>. QED
    BY <1>9, <2>3, <2>4 DEF HookEndSession
<1>. QED
  BY <1>4, <1>5, <1>6, <1>7, <1>8, <1>9 DEF HookStep

\* The rows and the hooks of a session are well typed, only a hook that ends a session holds
\* an agent's id, and the end of a session that is over is due to somebody or done, for any
\* number of sessions, resumes and locked statements.
THEOREM AgentInvariant == AgentSpec => []AgentInv
<1>1. AgentInv /\ [AgentNext]_agentVars => AgentInv'
  <2>. SUFFICES ASSUME AgentInv, [AgentNext]_agentVars PROVE AgentInv'
    OBVIOUS
  <2>1. CASE UNCHANGED agentVars
    BY <2>1 DEF agentVars, AgentInv, AgentTypeOK, EndsKnown, EndIsDue
  <2>2. CASE AgentNext
    BY <2>2, HostKeeps, HookKeeps DEF AgentNext
  <2>. QED
    BY <2>1, <2>2
<1>. QED
  BY <1>1, AgentInitInv, PTL DEF AgentSpec

\* The type invariant of the agents and sessions rows.
THEOREM AgentTypeCorrect == AgentSpec => []AgentTypeOK
BY AgentInvariant, PTL DEF AgentInv

\* At no time is the end of a session that is over in nobody's hands: its SessionEnd or the
\* child it handed over to is still at it, or sessions.ended_at is set, or the child as well
\* could not write (hooks/mod.rs defer_session_end). What SessionsEnd needs beside fairness.
THEOREM NoEndIsLost == AgentSpec => [](\A s \in Sessions : EndIsDue(s))
<1>1. AgentInv => \A s \in Sessions : EndIsDue(s)
  BY DEF AgentInv
<1>. QED
  BY <1>1, AgentInvariant, PTL

\* An `rtok mcp` is never linked past its own session's agent to another's, whatever agents
\* are live beside it, end and come back (agents/link.rs resolve): the nearest shared ancestor
\* is one its own session has.
THEOREM LinkedToItsOwn == AgentSpec => []LinkIsOwn
<1>1. LinkIsOwn
  <2>. SUFFICES ASSUME NEW s \in Sessions, agent[s] = "live", s \in seen[s],
                       s \in chained, Nearest(s) # {}
                PROVE  s \in Nearest(s)
    BY DEF LinkIsOwn, Resolved, Candidates
  <2>0. PICK t \in Candidates(s) : \E i \in Shared(s, t) :
          \A u \in Candidates(s) : \A j \in Shared(s, u) : i <= j
    BY DEF Nearest
  <2>1. PICK i \in Shared(s, t) : \A u \in Candidates(s) : \A j \in Shared(s, u) : i <= j
    BY <2>0
  <2>2. s \in Candidates(s) /\ t \in Sessions /\ i \in DOMAIN McpChain[s]
    BY <2>0, <2>1 DEF Candidates, Shared
  <2>3. PICK n \in DOMAIN McpChain[s] : n <= i /\ McpChain[s][n] \in Pids(HookChain[s])
    BY <2>1, <2>2, OwnIsNearest DEF Shared
  <2>4. n \in Shared(s, s)
    BY <2>3 DEF Shared
  <2>5. DOMAIN McpChain[s] \subseteq Nat
    BY AgentConstants
  <2>6. n = i
    BY <2>1, <2>2, <2>3, <2>4, <2>5
  <2>. QED
    BY <2>1, <2>2, <2>4, <2>6 DEF Nearest
<1>. QED
  BY <1>1, PTL
-----------------------------------------------------------------------------
(* The parts side by side.                                                   *)

\* Each of them begins in one of its initial states, and a step of the whole is one of its
\* steps or leaves it alone.
LEMMA PartsBegin ==
  PartsInit => /\ GraphInit /\ LogInit /\ AgentInit /\ ProxyInit /\ LinksInit
               /\ NotesInit /\ GuardInit
BY DEF PartsInit

LEMMA PartsStep ==
  [PartsNext]_partVars => /\ [GraphNext]_graphVars /\ [LogNext]_logVars
                          /\ [AgentNext]_agentVars /\ [ProxyNext]_proxyVars
                          /\ [LinksNext]_linkVars /\ [NotesNext]_noteVars
                          /\ [GuardNext]_guardVars
BY DEF PartsNext, partVars

LEMMA PartsAreSpecs ==
  PartsSpec => /\ GraphSpec /\ LogSpec /\ AgentSpec /\ ProxySpec /\ LinksSpec
               /\ NotesSpec /\ GuardSpec
BY PartsBegin, PartsStep, PTL
   DEF PartsSpec, GraphSpec, LogSpec, AgentSpec, ProxySpec, LinksSpec, NotesSpec, GuardSpec

\* Whichever part moves, and whatever it does, each variable of all seven keeps its type.
THEOREM PartsTypeCorrect == PartsSpec => []PartsTypeOK
<1>1. /\ (GraphInv => GraphTypeOK) /\ (ProxyInv => ProxyTypeOK)
      /\ (NotesIInv => NotesTypeOK) /\ (GuardIInv => GuardTypeOK)
  BY DEF GraphInv, ProxyInv, NotesIInv, GuardIInv
<1>2. GraphTypeOK /\ LogTypeOK /\ AgentTypeOK /\ ProxyTypeOK /\ LinksTypeOK /\ NotesTypeOK
      /\ GuardTypeOK => PartsTypeOK
  BY DEF PartsTypeOK
<1>. QED
  BY <1>1, <1>2, PartsAreSpecs, GraphInvariant, LogTypeCorrect, AgentTypeCorrect, ProxyInvariant,
     LinksTypeCorrect, NotesInvariant, GuardInvariant, PTL

=============================================================================
