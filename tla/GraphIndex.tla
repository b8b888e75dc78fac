----------------------------- MODULE GraphIndex -----------------------------
(* The symbol index of one root (src/plugins/graph, src/store/symbols.rs).   *)
(* A run walks the files, skips those whose stat is the stored one, reads    *)
(* the others, and writes their rows; the whole tree ("full": a tool call,   *)
(* `graph index`, a rescan) or the paths the watcher collected ("changed").  *)
(* Around it the files change, the PostToolUse hook of another process marks *)
(* edited files stale, the watcher's channel fills, rtok is upgraded, the    *)
(* process dies and statements fail. Runs do not overlap (watch.rs:5, "One   *)
(* writer"), and every write of a file gives it a stat it never had.         *)
EXTENDS Integers, FiniteSets

CONSTANTS Files, Contents,    \* what a file may hold; equal contents have equal hashes
          Tagless,            \* the contents without a single tag
          Opaque,             \* the contents that are no text, or no grammar takes
          None, Unread, Rescan,
          PendingCap,         \* paths the watcher keeps before it walks everything
          Bound               \* on the edits, the upgrades and the mishaps together

ASSUME GraphConstants ==
    /\ Tagless \subseteq Contents /\ Opaque \subseteq Contents
    /\ None \notin Contents /\ Unread \notin Contents \cup {None} /\ Rescan \notin Files
    /\ PendingCap \in Nat /\ Bound \in Nat

\* None is not one of the records it stands for the lack of.
ASSUME NoneIsNoRecord ==
    /\ None \notin [sha : Contents \cup {Unread}, stat : Nat, by : Nat]
    /\ None \notin [stat : Nat, known : Contents \cup {None, Unread},
                    got : Contents \cup {None, Unread}]

VARIABLES
    disk,       \* file -> None or [sha, stat]
    clock,      \* the stat the latest write of a file gave
    rows,       \* file -> None or [sha, stat, by]: the rows and the version that extracted them
    marks,      \* symbol_stale: files a hook or a run marked
    fp, version,    \* the stored extractor fingerprint; the one of the running program
    owed,       \* edits of the agent whose PostToolUse hook has not run yet
    events,     \* what the OS has queued for the watcher
    pending,    \* what the watcher has taken and not settled
    run,        \* the run under way
    jobs,       \* file -> None or the Job the stat gate left
    undropped,  \* a cold run could not drop the rows of the old extractor
    lost,       \* files whose rows only another edit or full run brings back: a run
                \* failed or died, their hook came after the watcher's run, or a
                \* changed run could not read them
    mishaps

diskVars == <<disk, clock, owed>>
storeVars == <<rows, marks, fp>>
watchVars == <<events, pending>>
graphVars == <<diskVars, storeVars, watchVars, version, run, jobs, undropped, lost, mishaps>>

NoRows == [f \in Files |-> None]
NoJobs == NoRows
Begun(kind, todo, cold, known) ==
    [kind |-> kind, pruned |-> FALSE, todo |-> todo, keep |-> {}, cold |-> cold, known |-> known]
Idle == Begun("idle", {}, FALSE, NoRows)

Bounded == clock + version + mishaps <= Bound

GraphTypeOK ==
    /\ disk \in [Files -> {None} \cup [sha : Contents, stat : 0..clock]]
    /\ clock \in Nat /\ version \in Nat /\ fp \in 0..version /\ mishaps \in Nat
    /\ rows \in [Files -> {None} \cup [sha : Contents \cup {Unread}, stat : 0..clock, by : Nat]]
    /\ marks \subseteq Files /\ owed \subseteq Files
    /\ events \subseteq Files \cup {Rescan} /\ pending \subseteq Files \cup {Rescan}
    /\ run \in [kind : {"idle", "full", "changed"}, pruned : BOOLEAN, todo : SUBSET Files, keep : SUBSET Files, cold : BOOLEAN,
                known : [Files -> {None} \cup [sha : Contents \cup {Unread}, stat : 0..clock, by : Nat]]]
    /\ jobs \in [Files -> {None} \cup [stat : 0..clock, known : Contents \cup {None, Unread},
                                       got : Contents \cup {None, Unread}]]
    /\ undropped \in BOOLEAN /\ lost \subseteq Files

GraphInit ==
    /\ disk \in [Files -> {None} \cup [sha : Contents, stat : {0}]]
    /\ rows = [f \in Files |-> None]
    /\ clock = 0 /\ version = 1 /\ fp = 0 /\ mishaps = 0
    /\ marks = {} /\ owed = {} /\ events = {} /\ pending = {}
    /\ run = Idle /\ jobs = NoJobs /\ undropped = FALSE
    /\ lost = Files     \* no full run has begun yet

-----------------------------------------------------------------------------
(* The files and the hook.                                                   *)

\* A file is written, with the content it has or another, or removed. The OS
\* queues an event; an agent's edit also owes its PostToolUse hook.
Edit(f, new, byAgent) ==
    /\ Bounded
    /\ clock' = clock + 1
    /\ disk' = [disk EXCEPT ![f] = new]
    /\ owed' = IF byAgent THEN owed \cup {f} ELSE owed
    /\ events' = events \cup {f}
    /\ UNCHANGED <<storeVars, pending, version, run, jobs, undropped, lost, mishaps>>

AnEdit == \E f \in Files, a \in BOOLEAN, c \in Contents \cup {None} :
            Edit(f, IF c = None THEN None ELSE [sha |-> c, stat |-> clock + 1], a)

\* mark_symbols_stale: a file that has rows loses them and is marked.
Marked(f, has, ms) == IF has[f] = None THEN ms ELSE ms \cup {f}

\* The hook's process marks the edited file, or cannot (its error is ignored).
\* No event is left to bring back the rows of a file marked too late.
PostTool(f) ==
    /\ f \in owed
    /\ owed' = owed \ {f}
    /\ \/ /\ rows' = [rows EXCEPT ![f] = None]
          /\ marks' = Marked(f, rows, marks)
          /\ lost' = IF {f, Rescan} \cap (events \cup pending) = {} THEN lost \cup {f} ELSE lost
       \/ UNCHANGED <<rows, marks, lost>>
    /\ UNCHANGED <<disk, clock, fp, watchVars, version, run, jobs, undropped, mishaps>>

-----------------------------------------------------------------------------
(* The watcher's loop between two runs.                                      *)

\* The OS drops single events and asks for a rescan.
Overflow ==
    /\ events # {} /\ Rescan \notin events
    /\ events' = {Rescan}
    /\ UNCHANGED <<diskVars, storeVars, pending, version, run, jobs, undropped, lost, mishaps>>

\* Broken variant: a full list drops what comes.
AbsorbedCut(e) ==
    IF e = Rescan THEN {Rescan}
    ELSE IF Cardinality(pending \cup {e}) > PendingCap THEN pending ELSE pending \cup {e}

\* The paths after one event; too many of them, or a rescan, stand for the tree.
Absorbed(e) ==
    IF e = Rescan \/ Cardinality((pending \cup {e}) \ {Rescan}) > PendingCap
    THEN {Rescan} ELSE pending \cup {e}

Absorb ==
    /\ run.kind = "idle"
    /\ \E e \in events : /\ events' = events \ {e}
                         /\ pending' = Absorbed(e)
    /\ UNCHANGED <<diskVars, storeVars, version, run, jobs, undropped, lost, mishaps>>

-----------------------------------------------------------------------------
(* A run.                                                                    *)

FullRun(dropped) ==
    LET cold == fp # version
        drop == cold /\ dropped
    IN  /\ ~dropped => cold /\ Bounded
        /\ rows' = IF drop THEN NoRows ELSE rows
        /\ run' = Begun("full", Files, cold, rows')
        /\ lost' = {}
        /\ undropped' = IF drop THEN FALSE ELSE undropped \/ ~dropped
        /\ mishaps' = IF dropped THEN mishaps ELSE mishaps + 1

\* A tool call with auto_index, or `graph index`. The drop of a cold run may
\* fail, and its error is ignored.
ToolRun ==
    /\ run.kind = "idle"
    /\ \E dropped \in BOOLEAN : FullRun(dropped)
    /\ UNCHANGED <<diskVars, marks, fp, watchVars, version, jobs>>

\* 250 ms without an event: what the watcher has collected is indexed.
Settle ==
    /\ run.kind = "idle" /\ pending # {}
    /\ pending' = {}
    /\ \/ /\ Rescan \in pending
          /\ \E dropped \in BOOLEAN : FullRun(dropped)
       \/ /\ Rescan \notin pending
          /\ run' = Begun("changed", pending, FALSE, NoRows)
          /\ UNCHANGED <<rows, undropped, lost, mishaps>>
    /\ UNCHANGED <<diskVars, marks, fp, events, version, jobs>>

\* The walk takes a file's stat; the gate lets only another stat through. The
\* changed run marks a file that is gone, or cannot and ignores it; the full run
\* leaves it out of `keep`.
Visit(f) ==
    LET known == IF run.kind = "full" THEN run.known[f] ELSE rows[f]
        gone == disk[f] = None
    IN  /\ f \in run.todo
        /\ run' = [kind |-> run.kind, pruned |-> run.pruned, cold |-> run.cold,
                   todo |-> run.todo \ {f}, known |-> [run.known EXCEPT ![f] = None],
                   keep |-> IF gone THEN run.keep ELSE run.keep \cup {f}]
        /\ jobs' = IF gone \/ (known # None /\ known.stat = disk[f].stat)
                   THEN jobs
                   ELSE [jobs EXCEPT ![f] = [stat |-> disk[f].stat, got |-> None,
                                             known |-> IF known = None THEN None ELSE known.sha]]
        /\ \/ /\ IF gone /\ run.kind = "changed"
                 THEN rows' = [rows EXCEPT ![f] = None] /\ marks' = Marked(f, rows, marks)
                 ELSE UNCHANGED <<rows, marks>>
              /\ lost' = IF run.kind = "changed" THEN lost \ {f} ELSE lost
              /\ UNCHANGED mishaps
           \/ /\ gone /\ run.kind = "changed" /\ Bounded
              /\ mishaps' = mishaps + 1 /\ lost' = lost \cup {f}
              /\ UNCHANGED <<rows, marks>>
        /\ UNCHANGED <<diskVars, fp, watchVars, version, undropped>>

\* What a file's rows say of it: its hash, or that nothing could be read.
Extract(f) == IF disk[f] = None \/ disk[f].sha \in Opaque THEN Unread ELSE disk[f].sha

\* A worker reads a file of the jobs, some time after its stat was taken.
Read(f) ==
    /\ run.todo = {} /\ jobs[f] # None /\ jobs[f].got = None
    /\ jobs' = [jobs EXCEPT ![f].got = Extract(f)]
    /\ UNCHANGED <<diskVars, storeVars, watchVars, version, run, undropped, lost, mishaps>>

Same(f) == jobs[f].got = jobs[f].known /\ jobs[f].got # Unread
\* Broken variant: the stat is taken when the rows are written.
WrittenLate(f) ==
    [sha |-> jobs[f].got, by |-> version,
     stat |-> IF disk[f] = None THEN jobs[f].stat ELSE disk[f].stat]
Written(f) == [sha |-> jobs[f].got, stat |-> jobs[f].stat, by |-> version]

\* The store takes what a worker made of a file. Rows without a tag leave the
\* mark (replace_one returns before clear_stale); a changed run stores nothing
\* of a file it could not read; a full run touches after its last write.
Put(f) ==
    /\ run.todo = {} /\ jobs[f] # None /\ jobs[f].got # None
    /\ jobs' = [jobs EXCEPT ![f] = None]
    /\ \/ /\ Same(f)
          /\ run.kind = "full" =>
                \A g \in Files : jobs[g] # None => jobs[g].got # None /\ Same(g)
          /\ rows' = IF rows[f] = None THEN rows ELSE [rows EXCEPT ![f].stat = jobs[f].stat]
          /\ UNCHANGED <<marks, lost>>
       \/ /\ ~Same(f) /\ jobs[f].got = Unread /\ run.kind = "changed"
          /\ lost' = lost \cup {f}
          /\ UNCHANGED <<rows, marks>>
       \/ /\ ~Same(f) /\ (jobs[f].got # Unread \/ run.kind = "full")
          /\ rows' = [rows EXCEPT ![f] = Written(f)]
          /\ marks' = IF jobs[f].got \in Tagless \cup {Unread} THEN marks ELSE marks \ {f}
          /\ UNCHANGED lost
    /\ UNCHANGED <<diskVars, fp, watchVars, version, run, undropped, mishaps>>

\* After the writes: a changed run is over; a full run deletes the rows of the
\* files it did not see (ignoring the error) ...
AllWritten == run.todo = {} /\ jobs = NoJobs /\ ~run.pruned
ChangedEnd ==
    /\ AllWritten /\ run.kind = "changed"
    /\ run' = Idle
    /\ UNCHANGED <<diskVars, storeVars, watchVars, version, jobs, undropped, lost, mishaps>>
Prune ==
    /\ AllWritten /\ run.kind = "full"
    /\ run' = [run EXCEPT !.pruned = TRUE]
    /\ \/ /\ rows' = [f \in Files |-> IF f \in run.keep THEN rows[f] ELSE None]
          /\ UNCHANGED <<lost, mishaps>>
       \/ /\ Bounded /\ mishaps' = mishaps + 1
          /\ lost' = lost \cup (Files \ run.keep) /\ UNCHANGED rows
    /\ UNCHANGED <<diskVars, marks, fp, watchVars, version, jobs, undropped>>
\* ... and a cold run stores the fingerprint last.
Seal ==
    /\ run.kind = "full" /\ run.pruned
    /\ fp' = IF run.cold THEN version ELSE fp
    /\ run' = Idle
    /\ UNCHANGED <<diskVars, rows, marks, watchVars, version, jobs, undropped, lost, mishaps>>

\* A statement fails and the run returns its error, which `settle` ignores; or
\* the process dies, and the watcher's queues with it.
Abort ==
    /\ run.kind # "idle" /\ Bounded
    /\ mishaps' = mishaps + 1
    /\ run' = Idle /\ jobs' = NoJobs /\ lost' = Files
    /\ \/ UNCHANGED watchVars
       \/ events' = {} /\ pending' = {}
    /\ UNCHANGED <<diskVars, storeVars, version, undropped>>

\* Another rtok is installed between two runs; its watcher starts empty.
Upgrade ==
    /\ run.kind = "idle" /\ Bounded
    /\ version' = version + 1
    /\ events' = {} /\ pending' = {} /\ lost' = Files
    /\ UNCHANGED <<diskVars, storeVars, run, jobs, undropped, mishaps>>

-----------------------------------------------------------------------------
RunStep == (\E f \in Files : Visit(f) \/ Read(f) \/ Put(f))
           \/ ChangedEnd \/ Prune \/ Seal
GraphNext == \/ AnEdit \/ (\E f \in Files : PostTool(f))
             \/ Overflow \/ Absorb \/ ToolRun \/ Settle \/ RunStep \/ Abort \/ Upgrade

GraphSpec == GraphInit /\ [][GraphNext]_graphVars

\* The watcher's loop and the hook's process go on, and so does a run. Nobody has to
\* call a tool.
GraphFairness ==
    /\ WF_graphVars(Absorb) /\ WF_graphVars(Settle) /\ WF_graphVars(RunStep)
    /\ WF_graphVars(\E f \in Files : PostTool(f))

-----------------------------------------------------------------------------
\* What the stat gate and the fingerprint let the next full run skip.
Fresh(f) == /\ fp = version /\ rows[f] # None /\ disk[f] # None
            /\ rows[f].stat = disk[f].stat

\* A file the next run would skip has the rows a cold index of it would write:
\* whatever the order of edits, hook marks, reads, writes, deaths and upgrades,
\* a row is never wrong and taken for fresh (run_with's gate, index.rs:149).
\* The drop of the old extractor's rows must have worked when it was due.
FreshIsTrue ==
    ~undropped => \A f \in Files :
        Fresh(f) => rows[f].sha = Extract(f) /\ rows[f].by = version

\* The index shows the files as they are.
Agrees(f) == IF disk[f] = None THEN rows[f] = None
             ELSE /\ rows[f] # None
                  /\ rows[f].sha = Extract(f) /\ rows[f].stat = disk[f].stat
\* Once the files rest, the watcher brings the index level with them, but for the
\* files of `lost` (watch.rs, pump and settle).
IndexSettles == <>[](\A f \in Files \ lost : Agrees(f))

\* The comment of symbol_stale_paths: a mark is "not yet re-indexed".
MarksArePending == \A f \in marks : ~(Fresh(f) /\ Agrees(f))
=============================================================================
