---------------------------- MODULE ArchiveStore ----------------------------
(***************************************************************************)
(* The archive behind `rtok expand <id>` (src/store/mod.rs): a body is     *)
(* one file named by its sha256 in archive_dir plus one row of the         *)
(* archive table, written by processes that share nothing but the SQLite   *)
(* file and the directory: hooks, the MCP server, the proxy, the CLI, and  *)
(* the retention thread each of the long-running ones starts.  A SQLite    *)
(* transaction is one atomic step here; a file operation is another, and   *)
(* every interleaving of the two is allowed.                               *)
(***************************************************************************)
EXTENDS Naturals, Sequences, FiniteSets

CONSTANTS
  Proc,      \* processes, or threads with a Store of their own
  Body,      \* payloads; content addressing makes a body and its sha256 one
  Key,       \* (session, tool_use_id) pairs of the live zone
  Content,   \* Content[k]: the body of the tool result k
  Turn,      \* the shapes a pointer for one body can take (archive.tiers)
  Slot,      \* (session, path) pairs of read_cache
  Call,      \* ids of the calls table
  None,
  Plans      \* what may run together: role[p], the operations of process p,
             \* and faults, the failures the environment injects

Operations == {"put", "rewrite", "remember", "call", "expand", "purge"}
FaultKinds == {"insert", "spill", "count", "crash"}

ASSUME ConstantsAssumption ==
  /\ Content \in [Key -> Body]
  /\ IsFiniteSet(Key)
  /\ None \notin Body \cup Key \cup Turn \cup Slot \cup Call
  /\ None \notin [turn: Turn, expanded: BOOLEAN]
  /\ Plans \subseteq [role: [Proc -> SUBSET Operations], faults: SUBSET FaultKinds]

VARIABLES
  file,        \* bodies with a file in archive_dir
  row,         \* bodies with a row in the archive table
  decision,    \* archive_decisions: None, or turn (the pointer) and expanded
  cache,       \* read_cache.archive_id, None without one
  age,         \* the call row: "none", "new", "old" (before the cutoff), "purged"
  io,          \* archives the call's call_io row references
  expandRows,  \* expand Measurements in the ledger, per archive id
  sent,        \* pointers put in a forwarded request, per key
  pc,          \* where each process is in its operation
  job,         \* what that operation is about
  stage,       \* bodies write_archive_file has still to write
  made,        \* files this operation created
  doomed,      \* files this operation is about to remove
  plan         \* the plan of this behaviour, which no step changes

tables == <<row, decision, cache, age, io, expandRows>>
locals == <<pc, job, stage, made, doomed>>
vars   == <<file, row, decision, cache, age, io, expandRows, sent, locals, plan>>

NoJob == [op |-> "none", body |-> None, key |-> None, turn |-> None,
          slot |-> None, call |-> None, refs |-> {}]
Jobs  == [op: Operations \cup {"none"}, body: Body \cup {None},
          key: Key \cup {None}, turn: Turn \cup {None},
          slot: Slot \cup {None}, call: Call \cup {None}, refs: SUBSET Body]
Points == {"idle", "probe", "rename", "insert", "decide", "cache",
           "cleanup", "unlink", "read", "freeze"}

Decisions == [turn: Turn, expanded: BOOLEAN]

TypeOK ==
  /\ file \in SUBSET Body
  /\ row \in SUBSET Body
  /\ decision \in [Key -> Decisions \cup {None}]
  /\ cache \in [Slot -> Body \cup {None}]
  /\ age \in [Call -> {"none", "new", "old", "purged"}]
  /\ io \in [Call -> SUBSET Body]
  /\ expandRows \in [Body -> Nat]
  /\ sent \in [Key -> SUBSET Turn]
  /\ pc \in [Proc -> Points]
  /\ job \in [Proc -> Jobs]
  /\ stage \in [Proc -> Seq(Body)]
  /\ made \in [Proc -> SUBSET Body]
  /\ doomed \in [Proc -> SUBSET Body]

Init ==
  /\ file = {} /\ row = {}
  /\ decision = [k \in Key |-> None]
  /\ cache = [s \in Slot |-> None]
  /\ age = [c \in Call |-> "none"]
  /\ io = [c \in Call |-> {}]
  /\ expandRows = [b \in Body |-> 0]
  /\ sent = [k \in Key |-> {}]
  /\ pc = [p \in Proc |-> "idle"]
  /\ job = [p \in Proc |-> NoJob]
  /\ stage = [p \in Proc |-> << >>]
  /\ made = [p \in Proc |-> {}]
  /\ doomed = [p \in Proc |-> {}]
  /\ plan \in Plans

-----------------------------------------------------------------------------
(* Starting and leaving an operation.                                       *)

CanStart(p, op) ==
  /\ op \in plan.role[p]
  /\ pc[p] = "idle"

Begin(p, at, j, bodies) ==
  /\ pc' = [pc EXCEPT ![p] = at]
  /\ job' = [job EXCEPT ![p] = j]
  /\ stage' = [stage EXCEPT ![p] = bodies]
  /\ UNCHANGED <<made, doomed>>

Finish(p) ==
  /\ pc' = [pc EXCEPT ![p] = "idle"]
  /\ job' = [job EXCEPT ![p] = NoJob]
  /\ stage' = [stage EXCEPT ![p] = << >>]
  /\ made' = [made EXCEPT ![p] = {}]
  /\ doomed' = [doomed EXCEPT ![p] = {}]

Goto(p, at) ==
  /\ pc' = [pc EXCEPT ![p] = at]
  /\ UNCHANGED <<job, stage, made, doomed>>

(* A process killed mid-operation: its SQLite transaction is rolled back (a *)
(* transaction is one step), its files stay.                                *)
Crash(p) ==
  /\ "crash" \in plan.faults
  /\ pc[p] # "idle"
  /\ Finish(p)
  /\ UNCHANGED <<file, tables, sent>>

-----------------------------------------------------------------------------
(* Operations that archive a body.                                          *)

StartPut(p) ==
  /\ CanStart(p, "put")
  /\ \E b \in Body :
       Begin(p, "probe", [NoJob EXCEPT !.op = "put", !.body = b, !.refs = {b}],
             <<b>>)
  /\ UNCHANGED <<file, tables, sent>>

(* read cache `remember`: the body a Read returned, which changes with the file. *)
StartRemember(p) ==
  /\ CanStart(p, "remember")
  /\ \E s \in Slot, b \in Body :
       Begin(p, "probe", [NoJob EXCEPT !.op = "remember", !.slot = s, !.body = b,
                                       !.refs = {b}], <<b>>)
  /\ UNCHANGED <<file, tables, sent>>

(* Broken variant: every request archives and composes anew.                *)
StartRewriteAnew(p) ==
  /\ CanStart(p, "rewrite")
  /\ \E k \in Key, t \in Turn :
       Begin(p, "probe",
             [NoJob EXCEPT !.op = "rewrite", !.key = k, !.turn = t,
                           !.body = Content[k], !.refs = {Content[k]}],
             <<Content[k]>>)
  /\ UNCHANGED <<file, tables, sent>>

(* rewrite_block looks the decision up first: an expanded block is left     *)
(* alone, a persisted pointer is replayed, anything else is archived now.   *)
StartRewrite(p) ==
  /\ CanStart(p, "rewrite")
  /\ \E k \in Key, t \in Turn :
       \/ /\ decision[k] # None
          /\ ~decision[k].expanded
          /\ sent' = [sent EXCEPT ![k] = @ \cup {decision[k].turn}]
          /\ UNCHANGED locals
       \/ /\ decision[k] = None
          /\ Begin(p, "probe",
                   [NoJob EXCEPT !.op = "rewrite", !.key = k, !.turn = t,
                                 !.body = Content[k], !.refs = {Content[k]}],
                   <<Content[k]>>)
          /\ UNCHANGED sent
  /\ UNCHANGED <<file, tables>>

(* insert_call_io for a call just recorded: None stands for a body small    *)
(* enough to stay inline, or absent.                                        *)
StartCall(p) ==
  /\ CanStart(p, "call")
  /\ \E c \in Call, req \in Body \cup {None}, res \in Body \cup {None} :
       /\ age[c] = "none"
       /\ age' = [age EXCEPT ![c] = "new"]
       /\ Begin(p, IF {req, res} = {None} THEN "insert" ELSE "probe",
                [NoJob EXCEPT !.op = "call", !.call = c,
                              !.refs = {req, res} \ {None}],
                IF req = None THEN IF res = None THEN << >> ELSE <<res>>
                ELSE IF res = None THEN <<req>> ELSE <<req, res>>)
  /\ UNCHANGED <<file, row, decision, cache, io, expandRows, sent>>

(* Broken variant: `created` whatever the directory holds.                  *)
ProbeFileAlwaysCreated(p) ==
  /\ pc[p] = "probe"
  /\ pc' = [pc EXCEPT ![p] = "rename"]
  /\ made' = [made EXCEPT ![p] = @ \cup {Head(stage[p])}]
  /\ UNCHANGED <<job, stage, doomed, file, tables, sent>>

(* write_archive_file, first half: `created = !path.exists()`.              *)
ProbeFile(p) ==
  /\ pc[p] = "probe"
  /\ pc' = [pc EXCEPT ![p] = "rename"]
  /\ made' = [made EXCEPT ![p] =
                IF Head(stage[p]) \in file THEN @ ELSE @ \cup {Head(stage[p])}]
  /\ UNCHANGED <<job, stage, doomed, file, tables, sent>>

(* Second half: the temp file renamed over the target, even when it exists. *)
RenameFile(p) ==
  /\ pc[p] = "rename"
  /\ file' = file \cup {Head(stage[p])}
  /\ stage' = [stage EXCEPT ![p] = Tail(@)]
  /\ pc' = [pc EXCEPT ![p] = IF Len(stage[p]) = 1 THEN "insert" ELSE "probe"]
  /\ UNCHANGED <<job, made, doomed, tables, sent>>

(* The write or the rename fails: `?` leaves insert_call_io and put_archive *)
(* at once, so a request file spilled before a failing response stays.      *)
WriteFails(p) ==
  /\ "spill" \in plan.faults
  /\ pc[p] = "rename"
  /\ Finish(p)
  /\ UNCHANGED <<file, tables, sent>>

Rows(p) == row \cup job[p].refs

(* insert_archive_row_conn: one row per body, ON CONFLICT DO NOTHING; the   *)
(* caller goes on to its decision or its cache row.                         *)
InsertRow(p) ==
  /\ pc[p] = "insert"
  /\ job[p].op \in {"put", "remember", "rewrite"}
  /\ row' = Rows(p)
  /\ \/ job[p].op = "put"      /\ Finish(p)
     \/ job[p].op = "remember" /\ Goto(p, "cache")
     \/ job[p].op = "rewrite"  /\ Goto(p, "decide")
  /\ UNCHANGED <<file, decision, cache, age, io, expandRows, sent>>

(* write_archive on an insert error: the file this call created is removed, *)
(* with no look at the table.                                               *)
InsertRowFails(p) ==
  /\ "insert" \in plan.faults
  /\ pc[p] = "insert"
  /\ job[p].op \in {"put", "remember", "rewrite"}
  /\ IF made[p] = {}
     THEN Finish(p)
     ELSE /\ pc' = [pc EXCEPT ![p] = "unlink"]
          /\ doomed' = [doomed EXCEPT ![p] = made[p]]
          /\ UNCHANGED <<job, stage, made>>
  /\ UNCHANGED <<file, tables, sent>>

(* Broken variant: the reference column left NULL.                          *)
InsertCallIoNoReference(p) ==
  /\ pc[p] = "insert"
  /\ job[p].op = "call"
  /\ row' = Rows(p)
  /\ io' = [io EXCEPT ![job[p].call] = {None}]
  /\ Finish(p)
  /\ UNCHANGED <<file, decision, cache, age, expandRows, sent>>

(* insert_call_io: the archive rows and the call_io row in one transaction. *)
InsertCallIo(p) ==
  /\ pc[p] = "insert"
  /\ job[p].op = "call"
  /\ row' = Rows(p)
  /\ io' = [io EXCEPT ![job[p].call] = job[p].refs]
  /\ Finish(p)
  /\ UNCHANGED <<file, decision, cache, age, expandRows, sent>>

InsertCallIoFails(p) ==
  /\ "insert" \in plan.faults
  /\ pc[p] = "insert"
  /\ job[p].op = "call"
  /\ IF made[p] = {} THEN Finish(p) ELSE Goto(p, "cleanup")
  /\ UNCHANGED <<file, tables, sent>>

(* The clean-up of a failed insert_call_io, one created file at a time: a   *)
(* row for the sha, or a count that fails too, spares the file.             *)
CleanupCheck(p) ==
  /\ pc[p] = "cleanup"
  /\ \E b \in made[p] :
       LET left == made[p] \ {b} IN
       \/ /\ b \in row \/ "count" \in plan.faults
          /\ IF left = {} THEN Finish(p)
             ELSE /\ made' = [made EXCEPT ![p] = left]
                  /\ UNCHANGED <<pc, job, stage, doomed>>
       \/ /\ b \notin row
          /\ made' = [made EXCEPT ![p] = left]
          /\ doomed' = [doomed EXCEPT ![p] = {b}]
          /\ pc' = [pc EXCEPT ![p] = "unlink"]
          /\ UNCHANGED <<job, stage>>
  /\ UNCHANGED <<file, tables, sent>>

(* remove_file, its error ignored: of a created file, or of a purged row.   *)
Unlink(p) ==
  /\ pc[p] = "unlink"
  /\ \E b \in doomed[p] :
       /\ file' = file \ {b}
       /\ IF doomed[p] # {b}
          THEN /\ doomed' = [doomed EXCEPT ![p] = @ \ {b}]
               /\ UNCHANGED <<pc, job, stage, made>>
          ELSE IF job[p].op = "call" /\ made[p] # {}
          THEN /\ doomed' = [doomed EXCEPT ![p] = {}]
               /\ pc' = [pc EXCEPT ![p] = "cleanup"]
               /\ UNCHANGED <<job, stage, made>>
          ELSE Finish(p)
  /\ UNCHANGED <<tables, sent>>

(* Broken variant: INSERT OR REPLACE, the last writer wins.                 *)
PutArchiveDecisionReplaces(p) ==
  LET k == job[p].key IN
  /\ pc[p] = "decide"
  /\ IF job[p].body \in row
     THEN /\ decision' = [decision EXCEPT ![k] =
                            [turn |-> job[p].turn, expanded |-> FALSE]]
          /\ sent' = [sent EXCEPT ![k] = @ \cup {job[p].turn}]
     ELSE UNCHANGED <<decision, sent>>
  /\ Finish(p)
  /\ UNCHANGED <<file, row, cache, age, io, expandRows>>

(* put_archive_decision: INSERT OR IGNORE, refused by the foreign key when  *)
(* the archive row is gone.  Whatever it stored, the block then carries the *)
(* pointer this call composed; on an error it stays as it was (fail open).  *)
PutArchiveDecision(p) ==
  LET k == job[p].key IN
  /\ pc[p] = "decide"
  /\ IF job[p].body \in row
     THEN /\ decision' = [decision EXCEPT ![k] =
                            IF @ # None THEN @
                            ELSE [turn |-> job[p].turn, expanded |-> FALSE]]
          /\ sent' = [sent EXCEPT ![k] = @ \cup {job[p].turn}]
     ELSE UNCHANGED <<decision, sent>>
  /\ Finish(p)
  /\ UNCHANGED <<file, row, cache, age, io, expandRows>>

(* The store is busy: put_archive_decision or put_read_cache returns the    *)
(* error, and the archive row already committed stays.                      *)
PutFails(p) ==
  /\ "insert" \in plan.faults
  /\ pc[p] \in {"decide", "cache"}
  /\ Finish(p)
  /\ UNCHANGED <<file, tables, sent>>

(* put_read_cache: an upsert; read_cache has no foreign key.                *)
PutReadCache(p) ==
  /\ pc[p] = "cache"
  /\ cache' = [cache EXCEPT ![job[p].slot] = job[p].body]
  /\ Finish(p)
  /\ UNCHANGED <<file, row, decision, age, io, expandRows, sent>>

(* clear_read_cache, after an Edit or a Write of the path.                  *)
ClearReadCache(s) ==
  /\ cache[s] # None
  /\ cache' = [cache EXCEPT ![s] = None]
  /\ UNCHANGED <<file, row, decision, age, io, expandRows, sent, locals>>

-----------------------------------------------------------------------------
(* expand::fetch: the row, then the file (the lock is dropped in between),  *)
(* then the freeze of every decision on that id with its Measurement.       *)

StartExpand(p) ==
  /\ CanStart(p, "expand")
  /\ \E b \in row :
       Begin(p, "read", [NoJob EXCEPT !.op = "expand", !.body = b], << >>)
  /\ UNCHANGED <<file, tables, sent>>

ReadArchiveFile(p) ==
  /\ pc[p] = "read"
  /\ IF job[p].body \in file THEN Goto(p, "freeze") ELSE Finish(p)
  /\ UNCHANGED <<file, tables, sent>>

(* Broken variant: the update forgets `expanded_ts IS NULL`.                *)
LiveOrExpanded(b) == {k \in Key : Content[k] = b /\ decision[k] # None}

(* The decisions an expand of b freezes.                                    *)
Live(b) == {k \in Key : Content[k] = b /\ decision[k] # None /\ ~decision[k].expanded}

MarkExpandedRecorded(p) ==
  LET b == job[p].body IN
  /\ pc[p] = "freeze"
  /\ decision' = [k \in Key |-> IF k \in Live(b)
                                THEN [decision[k] EXCEPT !.expanded = TRUE]
                                ELSE decision[k]]
  /\ expandRows' = [expandRows EXCEPT ![b] = IF Live(b) = {} THEN @ ELSE @ + 1]
  /\ Finish(p)
  /\ UNCHANGED <<file, row, cache, age, io, sent>>

(* The transaction fails and rolls back; fetch returns the error.           *)
MarkExpandedFails(p) ==
  /\ "insert" \in plan.faults
  /\ pc[p] = "freeze"
  /\ Finish(p)
  /\ UNCHANGED <<file, tables, sent>>

-----------------------------------------------------------------------------
(* Retention.                                                               *)

(* A call falls behind the cutoff, days after it was recorded: no operation *)
(* runs that long.                                                          *)
AgeCall(c) ==
  /\ age[c] = "new"
  /\ \A p \in Proc : pc[p] = "idle"
  /\ age' = [age EXCEPT ![c] = "old"]
  /\ UNCHANGED <<file, row, decision, cache, io, expandRows, sent, locals>>

(* Broken variants of the doomed set: each forgets one of the three holders *)
(* of an archive id besides the old calls.                                  *)
DoomedIgnoringDecisions ==
  {b \in row :
     /\ \E c \in Call : age[c] = "old" /\ b \in io[c]
     /\ \A c \in Call : age[c] # "old" => b \notin io[c]
     /\ \A s \in Slot : cache[s] # b}

DoomedIgnoringCache ==
  {b \in row :
     /\ \E c \in Call : age[c] = "old" /\ b \in io[c]
     /\ \A c \in Call : age[c] # "old" => b \notin io[c]
     /\ \A k \in Key : decision[k] # None => Content[k] # b}

(* Referenced by a call that goes, and by nothing that stays.               *)
DoomedArchives ==
  {b \in row :
     /\ \E c \in Call : age[c] = "old" /\ b \in io[c]
     /\ \A c \in Call : age[c] # "old" => b \notin io[c]
     /\ \A k \in Key : decision[k] # None => Content[k] # b
     /\ \A s \in Slot : cache[s] # b}

(* purge_calls_older_than: one exclusive transaction deletes the old calls, *)
(* their call_io rows and the doomed archive rows; the files go after it.   *)
PurgeCallsOlderThan(p) ==
  /\ CanStart(p, "purge")
  /\ \E c \in Call : age[c] = "old"
  /\ row' = row \ DoomedArchives
  /\ io' = [c \in Call |-> IF age[c] = "old" THEN {} ELSE io[c]]
  /\ age' = [c \in Call |-> IF age[c] = "old" THEN "purged" ELSE age[c]]
  /\ IF DoomedArchives = {}
     THEN UNCHANGED locals
     ELSE /\ pc' = [pc EXCEPT ![p] = "unlink"]
          /\ job' = [job EXCEPT ![p] = [NoJob EXCEPT !.op = "purge"]]
          /\ doomed' = [doomed EXCEPT ![p] = DoomedArchives]
          /\ UNCHANGED <<stage, made>>
  /\ UNCHANGED <<file, decision, cache, expandRows, sent>>

-----------------------------------------------------------------------------
Step(p) ==
  \/ StartPut(p) \/ StartRemember(p) \/ StartRewrite(p) \/ StartCall(p)
  \/ ProbeFile(p) \/ RenameFile(p) \/ WriteFails(p)
  \/ InsertRow(p) \/ InsertRowFails(p)
  \/ InsertCallIo(p) \/ InsertCallIoFails(p) \/ CleanupCheck(p) \/ Unlink(p)
  \/ PutArchiveDecision(p) \/ PutReadCache(p) \/ PutFails(p)
  \/ StartExpand(p) \/ ReadArchiveFile(p)
  \/ MarkExpandedRecorded(p) \/ MarkExpandedFails(p)
  \/ PurgeCallsOlderThan(p) \/ Crash(p)

Next ==
  /\ \/ \E p \in Proc : Step(p)
     \/ \E s \in Slot : ClearReadCache(s)
     \/ \E c \in Call : AgeCall(c)
  /\ UNCHANGED plan

Spec == Init /\ [][Next]_vars

-----------------------------------------------------------------------------
(* Every archive id the database still hands out -- a call_io reference or  *)
(* a live-zone decision -- has its archive row, in every interleaving of    *)
(* writers with the purge: the doomed set respects newer calls and          *)
(* decisions, insert_call_io commits rows and references together, and the  *)
(* foreign key stops a decision that lost its row.                          *)
RefsHaveRows ==
  /\ \A c \in Call : io[c] \subseteq row
  /\ \A k \in Key : decision[k] # None => Content[k] \in row

(* The freeze and its expand Measurement commit together: an expanded       *)
(* decision has one in the ledger, and there are never more of them than    *)
(* decisions they froze (mark_expanded_recorded, T208).                     *)
Frozen(b) == {k \in Key : Content[k] = b /\ decision[k] # None /\ decision[k].expanded}
LedgerMatchesFreeze ==
  \A b \in Body : /\ Frozen(b) # {} => expandRows[b] >= 1
                  /\ expandRows[b] <= Cardinality(Frozen(b))

(* The store implements the live zone as LiveZone promises it: once a       *)
(* decision is persisted its pointer never changes and it never goes away,  *)
(* an expanded one is never shortened again, and the freeze of all the      *)
(* decisions on one archive id is a single step with its Measurement.       *)
Zone == INSTANCE LiveZone WITH zone <- decision, ledger <- expandRows
ZoneRefined == Zone!Spec

(* One process runs everything: its operations do not overlap.              *)
Alone == \E p \in Proc : \A q \in Proc \ {p} : plan.role[q] = {}

(* While operations do not overlap, every archive row has its file after    *)
(* any sequence of calls, failures, crashes and purges, and no read_cache   *)
(* row survives the archive row it names, although no foreign key says so:  *)
(* what `expand` is asked for is there (decision D4).                       *)
RowsHaveFiles ==
  Alone => /\ row \subseteq file
           /\ \A s \in Slot : cache[s] # None => cache[s] \in row

(* What a pointer stands for can be expanded: the file behind a live-zone   *)
(* decision exists (D4: every compression keeps the original retrievable).  *)
PointersExpand == \A k \in Key : decision[k] # None => Content[k] \in file

(* While requests do not overlap, a tool result is replaced by one and the  *)
(* same pointer in every request that replaces it, whatever turn it has got *)
(* to (archive/mod.rs:14-16: byte-identical on every later request).        *)
PointerNeverChanges == Alone => \A k \in Key : Cardinality(sent[k]) <= 1

=============================================================================
