# rtok: models, checks and proofs

rtok sits between coding agents and their models. It runs as short processes that agent hosts
start (hooks), as servers (an MCP server, an HTTP proxy, a supervisor with its services) and as
commands a person types. These processes share one SQLite file, a directory of archived bodies,
a handful of lock and state files, and the git worktrees of the repositories the agents work in;
they share no memory. What is hard about rtok is what happens between them: every process may be
interleaved with every other, be killed between two steps, or find that the store is locked.

This directory holds TLA+ models of the parts where that matters, the TLC configurations that
check them on small instances, and proofs, checked by TLAPS, of what holds for every instance.
Paths below are relative to the repository's root.

    tlc -workers 2 -config <run>.cfg <MC module>.tla
    tlapm ArchiveStore_proofs.tla
    tlapm Demon_proofs.tla
    tlapm Worktree_proofs.tla
    tlapm OtelExport_proofs.tla
    tlapm HookCalls_proofs.tla
    tlapm Parts_proofs.tla
    tlapm Notes_proofs.tla
    tlapm GuardCache_proofs.tla

## 1. Inventory

### Archive store and retention (`src/store/mod.rs`, `src/expand.rs`, `src/plugins/archive`, `src/plugins/read/cache.rs`)

State: a file per body, named by its sha256, in `archive_dir`; rows of `archive`; and three kinds
of row that refer to them: `call_io` (bodies of recorded calls), `archive_decisions` (which tool
results of a conversation are replaced by a pointer) and `read_cache`.
Operations: `put_archive`, `insert_call_io` with its spills and clean-up, the live-zone rewrite
(`rewrite_block`, `put_archive_decision`), `remember` / `clear_read_cache`, `expand::fetch` with
`mark_expanded_recorded`, and `purge_calls_older_than`.
Hard: a body is a file step and a transaction, in this order, by processes that do not lock each
other out; the purge does the reverse; INSERT OR IGNORE decides between concurrent rewrites;
every step may fail or be the last of its process.
Correct means: what was replaced by a pointer can be expanded; the pointer is the same bytes in
every request; an expanded result is never shortened again; a purge takes nothing that is still
referred to; the ledger counts the expands that had an effect.

### Demon (`src/demon.rs`, `crates/rtok-sys`)

State: per service `<service>.lock` (a flock), `<service>.json` (pids, restarts, since) and
`<service>.stop` (a marker), and the processes themselves.
Operations: `supervise` (claim, spawn, write the state, poll, count a restart, back off, leave),
`start`, `stop`, `kill`, `restart`, `upgrade` with `quiesce`, and `rows` (the status page).
Hard: commands reach the supervisor through files and signals only; pids outlive processes and
are handed out again; the lock is taken as a probe by whoever wants to know whether it is free.
Correct means: one supervisor and one child per service; stop ends both; a service that exits
comes back; an upgrade starts what it stopped; no process of another program is signalled.

### Worktree claims (`src/worktree/*.rs`, `src/mcp/worktrees.rs`, `src/agents/link.rs`)

State: git's record, directory, lock and branch of a worktree, the `worktree_claims` row, and the
registry of agents.
Operations: `add`, `claim`, `adopt`, `remove`, `gc`, each a sequence of git commands.
Hard: unlock and lock are two commands; gc decides on a list that is older than its removal; a
host may delete its pool; agents work and end at any time.
Correct means: two agents never both believe a worktree is theirs; a live agent's lock is opened
by nobody else; no commit is lost.

### Messages and hook calls (`src/store/messages.rs`, `src/hooks`, `src/bin/rtok-hook.rs`, `crates/rtok-hook`)

State: `messages` with `delivered_at` and `read_at`; a resident process that runs hooks for
clients; its working directory.
Operations: send, inbox, the push of a hook event (`pending`, `fit`, the output budget, `settle`);
a client that asks the resident, falls back to `rtok hook`, or gives up after 50 ms.
Hard: a call may run twice (refusal, stop) or be seen by nobody (timeout); the read of what is
pending and the mark of what was shown are two accesses; a budget cuts the output in between.
Correct means: what is marked as delivered was shown; messages come once and in order; every
message comes; a call runs in its client's directory.

### OpenTelemetry export (`src/otel/export.rs`, `src/store/otel.rs`, `src/store/sql_ext.rs`)

State: watermarks per stream (`calls`, `sessions`, `sessions_tail`, `logs`), two lock files, the
`calls` and `sessions` tables.
Operations: `flush`, `flush_coalesced`, `spawn_child` with its probe, the ticker, and the writers:
`record_call`, `set_call_ms`, `end_session`.
Hard: the watermark of sessions is a second and a count within it; rows in flight must hold it
back; flushes of three kinds of process coalesce; a batch may have been taken although the answer
was lost.
Correct means: every ended session and every call is sent, once when nothing goes wrong, and no
watermark passes a row that was not.

### Code graph (`src/plugins/graph`, `src/store/symbols.rs`)

State: the `symbols` rows of a root with the hash and the stat of each file, `symbol_stale` (files that
a hook marked), the extractor's fingerprint, and the watcher's queue of changed paths.
Operations: a full run, a run over changed paths, the stat gate, `replace_one`, the prune, the
fingerprint, `absorb_event` and `settle` of the watcher, the PostToolUse mark.
Hard: files change between a stat, a read and the write of the rows; events overflow; a hook marks
what a run is about to write; a new extractor makes all rows old.
Correct means: rows that look fresh (same stat, this extractor, no mark) are what the file says; once
edits end, the index is.

### Log files (`crates/rtok-log`, `src/log.rs`)

State: a live file, its numbered copies, a lock file; the watch's place in the live file.
Operations: `write_line` (look, lock, look again, rotate, open, append), and `Follow` (prime, poll).
Hard: several processes find the file full at once; one dies between two renames; the watch sees
nothing but names, first lines and lengths.
Correct means: only a full file is rotated, and it stays for `files` rotations; a watch shows each line
once.

### Proxy (`src/proxy`)

State: a `calls` row and a usage row per request; a semantic cache shared by all of them.
Operations: record, shape, look-up, send, stream through a tee, store the answer, finish.
Hard: clients hang up, upstream refuses or breaks off, the proxy is stopped; requests of several
callers miss and store at once.
Correct means: an answer from the cache is a whole one to this caller's question; a request owes one
usage row.

### Agents registry (`src/store/agents.rs`, `src/agents/link.rs`, `src/hooks/mod.rs`)

State: `agents` and `sessions` rows, the ancestors of each agent's processes.
Operations: registration by any hook event, the end of a session and its deferral to a child, the
link of an MCP server to its agent by nearest common ancestor and directory.
Hard: the store is locked at any statement; a session is resumed while its end is pending; sessions
of one host share processes.
Correct means: a session that ended is recorded as ended; an MCP server speaks for its own agent.

### Projects and links (`src/store/projects.rs`, `src/store/project_links.rs`, `src/plugins/graph/follow.rs`)

State: `projects` (one of them selected) and `project_links` (manual, auto, or auto and unlinked).
Operations: add, select, resolve, remove, link, unlink, and `follow`, the walk over the references
of manifests that `rtok mcp` and `rtok graph index` make.
Hard: a walk is many statements; the user and other walks act between them; ids are reused.
Correct means: the user has the last word; where the user said nothing the links are the manifests'.

### Memory (`src/plugins/memory`, `src/store/mod.rs`, `src/store/embed.rs`)

State: `notes`, one row per project, kind and title; `note_embeddings`, a vector per note; export files.
Operations: `mem_save` and the hook's "remember:" (row, then vector), `mem_revise` (row, vector, then the
old note is retired), `mem_update`, search, which embeds what has no vector, export and import.
Hard: MCP servers, hooks and commands do this at once in processes of their own, and each is several
statements; an import decides from what it read at its start.
Correct means: an import never replaces or revives what was said on this machine; a vector is of its
note's text; a dry run tells what a real run does.

### Guard (`src/plugins/guard/mod.rs`)

State: rows of `read_cache` by session, tool input and agent: what a Read or a read-only command returned.
Operations: a PreToolUse hook denies a repeat of a recent row; a PostToolUse hook stores the result of a
look, or clears what a change may have made old, in two statements.
Hard: hosts run tools of one session side by side, and each hook is a process: a change may run between
a look and its hook, and a repeat between a change and its hook; a hook may be lost; files change with no
tool at all.
Correct means: a denial points a window to a result it was given and that the tool would return again.

### The rest

| Component | State and operations | Hard behaviour | Here |
|---|---|---|---|
| Hook dispatcher `src/hooks/mod.rs` | one event, one process: register the agent, plugins, push, SessionEnd | deferred SessionEnd runs later than a resume | the push (HookCalls), registration and ends (AgentRows), the hooks around a tool (GuardCache) |
| Store: connection, migrations | one SQLite file, waits, a version | waiting on locks | taken as given: a transaction is atomic |
| Plugins on tool output | functions of one string | none | not modelled: unit tests fit them |
| Read plugin and cache | `read_cache` | the archive under it | its rows, in ArchiveStore and GuardCache |
| Handoff, checkpoint, sync block | session rows, a block in a file | hand edits of the file | not modelled |
| MCP server `src/mcp*` | one request at a time over stdio | none of its own | its messages and claims |
| Installers `src/agents` | configuration files of hosts | none: run by hand, one at a time | not modelled |
| CLI, TUI, pages, reports | presentation | none | not modelled |

Interactions: hooks, proxy, MCP and CLI all write archives, calls and sessions (ArchiveStore and
OtelExport look at the same `calls` table from its two ends: retention and export); a hook's
SessionEnd spawns a flush; `upgrade` stops the services under which tickers and purges run;
worktree commands ask the registry that hooks fill. Each of these meets the other through a
table or a signal that its own model contains as environment, so the models are separate; where
two components are really one protocol (messages and the hook calls that carry them) one module
extends the other.

## 2. Modules

| Module | Models | Extends, uses |
|---|---|---|
| `LiveZone` | abstract: what the archive plugin promises about tool results, without files, rows or processes | |
| `ArchiveStore` | files and rows of bodies, their references, expand and retention | refines `LiveZone` (`ZoneRefined`) |
| `ArchiveStore_proofs` | its theorems | `ArchiveStore` |
| `Demon` | the supervisor and the commands, for one service | |
| `Demon_proofs` | its theorems | `Demon` |
| `Worktree` | agents and gc on one worktree | |
| `Worktree_proofs` | its theorems | `Worktree` |
| `Messages` | the messages of one agent: inbox, choice of a push, marks | |
| `HookCalls` | clients, the resident and the executions of a hook event | `Messages` |
| `HookCalls_proofs` | its theorems | `HookCalls` |
| `Outbox` | abstract: rows delivered at least once, in order, and a mark that passes none that was not | |
| `OtelExport` | hooks, timers and flushes on the marks and the two locks | refines `Outbox` (`CallsDelivered`) |
| `OtelExport_proofs` | theorems on its locks, on the mark of the calls and on the two of the sessions | `OtelExport` |
| `GraphIndex` | the index of one root, its watcher and the hook's marks | |
| `LogFiles` | appends and rotations of several processes, and the watch | |
| `AgentRows` | the agents and sessions rows under the hooks of sessions, and links | |
| `ProxyCalls` | requests from the calls row to the usage row, and the semantic cache | |
| `ProjectLinks` | the registry of projects, its links and the walks over references | |
| `Parts_proofs` | theorems on five of the parts, and the types of all seven | `MCParts`, `Notes_proofs`, `GuardCache_proofs` |
| `Notes` | the notes and their vectors under saves, revises, searches, exports and imports | |
| `Notes_proofs` | its theorems | `Notes` |
| `GuardCache` | the guard's rows under tools of one session that look and change side by side | |
| `GuardCache_proofs` | its theorems | `GuardCache` |
| `MCParts` | one instance of each of `GraphIndex`, `LogFiles`, `AgentRows`, `ProxyCalls`, `ProjectLinks`, `Notes` and `GuardCache`; which one moves is chosen at the start | all seven |
| other `MC*` | the instances for TLC | the module they are named after |

### How state and actions correspond to the code

A SQLite statement or transaction is one step: every access takes the store's connection and
SQLite's lock. A file operation, a git command, a signal, an attempt at a lock is a step of its
own. A process is a control point (`pc`, `spc`, `at`, `hook`) and what it has read; between two
steps anything else may happen. A mapped definition carries the name of the code it models where
TLA+ allows it. Operators whose comment starts with "Broken variant" belong to no behaviour: each
is a definition with a plausible bug, kept to see that a property notices it.

**ArchiveStore.** A body is its sha256. `file` is the directory; `row`, `decision`, `cache`, `io`
and `expandRows` are the tables; `sent` remembers which pointers went into requests. `ProbeFile`
and `RenameFile` are the halves of `write_archive_file`; `InsertRow`, `PutArchiveDecision` and
`PutReadCache` are what the callers of `put_archive` do with it; `InsertCallIo` is a transaction,
its failure goes through `CleanupCheck` and `Unlink`. `PurgeCallsOlderThan` is the transaction,
`Unlink` again what follows it. `AgeCall` moves a call behind the cutoff. `Turn` stands for the
shapes that a pointer takes as its turn ages (`archive.tiers`).

**Demon.** `kind` is the process table, in which a pid is free for reuse once nothing remembers it;
`json`, `marker` and `lock` are the three files. `fresh` in a state file is the comparison with the
boot time. The polls of `stop` and `start` (forty times 50 ms) end in their last resort: the
exits that they wait for are steps of the environment that may come before. `Patient` restricts
when commands are given, not what they do.

**Worktree.** One path and branch; `lock` is the reason text that `agent_of` and `owner_of` parse,
`claim` the store's row. git's refusals are the guards `CanLock`, `CanUnlock`, `CanRemove` and
`CanDelete`. A process carries in `snap` what it read (`list_worktrees`, merged, the registry).
`Works`, `Merges`, `Evicts`, `AgentEnds` and `AgentRevives` are what agents, upstreams and hosts do.

**Messages, HookCalls.** A message is its id and the length of its frame. `Push` is `fit`: what
fits the cap, the ones too large, and the "more" line; `Emits` is what the output budget of
`inject::apply` or `cap_budget` leaves of it. Every call has up to two executions, one in the
resident and one of `rtok hook`, which is how a timeout or a stop can leave one of them without a
reader. `shown` and `listed` are what reached the agent.

**OtelExport.** `ended`, `rows`, `finished` and `aged` are the tables' columns that matter;
`cmark`, `smark`, `stail` the marks; `sent` and `sentCalls` what the collector has. `Place` is the
ROW_NUMBER of `SessionsPending`. A hook goes through `Stamp` (the time is taken), `EndSession` (it is
written), `Probe`, `Unprobe` and `SpawnChild`; a flush through its two locks, `Load`, `Post`,
`AdvanceCalls`, `AdvanceMark`, `AdvanceTail` and `Unlock`.

**GraphIndex.** A file is what it holds and a stat; `Contents` with equal hashes are equal, some hold no
tag (`Tagless`) or are no text (`Opaque`). `rows` is the table by file with the version that
extracted it, `marks` is `symbol_stale`, `fp` the stored fingerprint. A run (`run`) has what it knew of
each file when it began (`known`) and jobs that were read but not yet written; `Visit`, `Read`, `Put`
(through `Written`), `Prune` and `Seal` are the steps of `run_with`, `Abort` an error in any of them.
`Absorb` and `Settle` are the watcher's. `lost` has the files that no event and no run will look at
again until they change: edits that raced a run behind its stat.

**LogFiles.** A file is a record of the lines in it, of those with a newline, of what was rotated away
and of what the watch has shown; `path` maps names to files, so a rename is a change of `path`. A
writer looks, locks, looks again, shifts the copies one rename at a time, opens and appends; a line is
text and newline (`Text`, `Newline`), two writes when it is long. The watch reads one file per step. Its
first screen is the read of the live file (`WatchStarts`) and then of each copy (`ScreenSibling`, which is
`tail_with`). `PollLive` is the part of a poll on the live file, `PollSibling` the walk over the copies,
newest first, until one begins with the line that the watch remembers. Writers and rotations come between
any two of these reads.

**AgentRows.** A session is new, running or over; each of its hooks is at a statement of `dispatch`.
`HookOpen` may meet a locked store, then the end of a session is handed to a child (`GiveUp`). `Shared`,
`Nearest` and `Resolved` are the look-up of `link::resolve` over the pids above the MCP process.

**ProxyCalls.** A request is `[scope, text, eligible]`: the caller and the key of the cache, the last
message, and whether the request may be cached at all; `Similar` says which texts are within the
threshold. `stage` follows `handle` and its tee task. `Restart` ends every request under way.

**ProjectLinks.** A project is its id by directory; the id of a new one is one above the highest, so
the highest one comes back after a removal (`NextId`). The rows are three sets of pairs of ids. A walk
is at a project of its level, at a reference, or about to link what it resolved, and holds `active`, the
links as they were when the level began. `WalkProject` is `discover`: what the manifests name and is
there, or less of it with a warning. `calm` is whether anything changed under the walk.

**Notes.** A topic is a note's project, kind and title, and a vector is the body it was made from. `job`
is what a client has before it: the vectors of a save or of a search that found them missing (`todo`), the
note a revise retires then (`old`), or an import's lines with the bodies and topics it takes for known.
`told` and `since` are histories: how this machine's own commands left a topic, and which topics were
written since an import looked. A dry run is an import that inserts nothing.

**GuardCache.** A slot is a tool call under way: a PreToolUse hook lets it begin (`PreLook`, which a row may
deny, or `PreChange`), the host runs it (`Looks`, `Changes`), a PostToolUse hook follows (`PostLook`; the two
clears of a change, `PostChange` and `PostChangeFiles`). A key is a file or the one read-only command, which
shows them all. A row is a result and whether it is still `recent`: in its window, with its archive
(`Lapses`). `got` has what each window was given; `blind` has the rows that the guard cannot know to be old.

**Plans.** `archive_store` and `demon_commands` each check several plans in one run: a plan is chosen
in the initial state and bounds the processes, commands and faults that occur.

## 3. Runs

Passing runs check deadlock unless the system may really stop: an archive whose calls are all
used up, no command left to give, no agent left.

| Run | Shows | Bounds |
|---|---|---|
| `archive_store` | without overlap, no sequence of operations, failures, crashes and purges separates a row from its file, and a result keeps one pointer; with overlap, references keep their rows, the ledger matches the freezes, decisions refine `LiveZone` | two plans: 1 process, 2 bodies, 1 key, 2 pointer shapes, 1 slot, 2 calls, all faults; 2 processes with different duties, 2 keys of one body, 2 shapes, 1 call |
| `archive_purge_race` | counterexample, see section 5 | 2 processes, 1 body |
| `demon_commands` | however start and status overlap, with exits and reboots: one service process, no stranger signalled; stop, kill, restart and upgrade under every failure end with both pids dead; supervisors hold the lock | two plans, each of 2 commands and 4 pids |
| `demon_liveness` | a marker ends every supervisor; an exited service comes back; upgrade starts what it stopped | 1 command at a time, 5 pids |
| `demon_stale_stop` | counterexample, see section 5 | 1 command, 4 pids |
| `worktree_agents` | claims exclude each other, live locks stay shut, commits survive | 3 agents of one owner name, gc, crashes, rows not written |
| `worktree_evicting` | counterexample, see section 5 | 2 agents that adopt, gc |
| `hook_messages` | marks imply that somebody saw it, order, the working directory, delivery | 2 clients, up to 3 messages in three mixes of lengths, 1 mishap |
| `otel_export` | the flushes are one `Outbox` of calls, the mark of the sessions passes none that was not sent, nothing is sent twice without a mishap, coalescing loses nothing | up to 4 sessions in 2 seconds, 3 calls, 2 spawned flushes, 1 timer, 1 mishap, batches of 1 and 2 |
| `otel_tie` | counterexample, see section 5 | 2 sessions |
| `parts` | the seven smaller components, see below | see below |
| `graph_marks` | counterexample, see section 5 | 2 files |

The parts of `parts`. They share no state: one of them moves, the others rest in an initial state.

| Part | Property | Bounds |
|---|---|---|
| `graph` | `FreshIsTrue`: rows that look fresh are the file's. `IndexSettles`: when edits end, the index is the files', but for `lost` | 2 files, 2 contents of which one is no text, a queue of 1, `Bound` 2 on edits, upgrades and mishaps together |
| `log` | `LogKeeps` of `LinesAreKept`: only full files are rotated, and a file goes only when `files` later ones have taken its place | 2 writers, 7 lines, files of 2 lines, 0 to 2 copies, 1 death |
| `watch` | `ShownOnce` of `LinesAreKept`: from the first screen on nothing twice, nothing left out, but for `torn` (as by a rotation between two reads of one screen or poll) | the same with 1 or 2 copies, 5 lines, no deaths |
| `session`, `sessions` | `LinkIsOwn`: a process that shares a session's host is linked to it. `SessionsEnd`: a session that ends gets its end | 1 session resumed twice with 2 faults; 2 sessions under one host |
| `proxy` | `HitIsOwn`: the cache answers a caller with whole answers to their own question. `UsageOnce`: one usage row, last | 2 requests of every kind, lifetime 2, 1 restart |
| `links`, `walks` | `LinksAgree`: a manual link stays, a removed auto link stays away, the cap holds when walks do not overlap, and a walk that was left alone leaves the manifests' links | 3 directories in a chain or a fan, depth 2, cap 1; 1 walk and 2 acts of the user, 2 walks and 1 act |
| `notes` | `NotesAgree`: one row per topic, and what this machine said stands; vectors follow their saves; a refused line has its reason | 2 clients, 2 topics, 2 bodies, 2 ids, a foreign file of 3 lines (retired, malformed, with an id), 4 calls, or 3 and 1 death |
| `guard` | `DenialsAreTrue`: a repeat is denied with what the window has and would get again, but for `blind` | 2 windows, 2 tools at once, 2 files, 2 texts of which one is too large to archive; 3 tools, or 2 and 1 upset |

Why these are enough. *Archive*: a race needs one writer and one purger, or two writers; content
addressing makes two results of one body the smallest case in which an expand freezes several
decisions, and a second body the smallest in which a clean-up must tell a created file from one that
was there. *Demon*: the races are between two commands, or one and the supervisor; 4 pids are an
old and a new pair, or the pairs of two starts that overlap; `MarkerStops` and the others say "as
long as there are pids" where the bound would otherwise end a behaviour. *Worktree*: a claim
concerns one path, and exclusion two agents and whoever left a lock behind: three agents, and gc. *Messages*: the three mixes are
a message that waits before one that would fit, one that is larger than the cap, and two that the
output budget cuts; both budgets occur. *Export*: a batch that is cut inside a second, a second
that goes on after a flush, a second after it, and calls that run, finish or age. `MaxMishaps`
bounds how many faults one behaviour has, not which; the histories that count them end the properties
that a mishap legitimately ends. *Graph*: the races are between an edit, a mark and a run; a second
file fills the queue of one and makes it overflow. *Log*: a second rotation in a row is what a slow
second writer would cause; two copies have an oldest that is removed and one that is shifted; five lines
are two rotations between two polls. *Agents*: two sessions under one host are the smallest case of a
wrong link. *Proxy*: one request fills, one hits. *Links*: a chain has a project at the depth limit, a
fan two references for a cap of one; the user's two acts are an unlink and a take-over, or a removal
and an addition that gets the same id. *Notes*: two clients are a save and the import or save that it
overlaps; four calls are an export of what one client saved, its import, and two writes in between.
*Guard*: two tools at once are a look and the change that passes it, a third is the repeat; a second window is
a sub-agent, a second file tells an Edit from a command that may write any.

Exclusions that a property states itself: `WorkKept` is about commands that do not overlap;
`InSendOrder` about calls that do not overlap, marks that are written and a budget that is ample (`Ample`); `MarksAreTrue`, of its part
on deliveries, ends where the output of a call was lost; `SessionsNotSkipped` where a failure came between the two
statements that move the session mark, and the run lets sessions end in the order of
`(ended_at, id)` (`InOrder`; without it see `otel_tie`); with `Alone`, gc and whatever meets a lock
without an agent in its reason overlap with nothing (without it the counterexamples of section 5
to `LiveLockKept` and `HoldersAreBound` appear); `ShownOnce` where `torn`: a poll, or the start, met a
live file that is missing or has no whole line, a rotation was under way or came between two reads of a poll
or of the first screen, a writer died, a walk stopped at a copy without a whole line, or a copy fell out of the
history unseen (none can be left out: without it TLC finds a repeated or a skipped line);
`DenialsAreTrue` about rows that are not `blind` (their look was passed by a
change, their change's hook was lost, or the file changed from outside) and not about to be cleared;
`VectorsCurrent` about notes whose last save was neither cut nor overlapped (`unsure`; without it TLC
finds a vector of an old text);
`FreshIsTrue` about a drop of an old extractor's rows that works; `IndexSettles` except for the files
of `lost`; `UsageOnce` except for requests that never went out, were cut by a restart, or whose
insert failed.

### Fairness

* `Demon`: weak fairness of every supervisor and every command that has begun. None of their steps
  waits for another process: the polls have bounds, the lock is only ever tried. No fairness for
  giving a command, for a service to heed TERM, or for anything in the environment.
* `HookCalls`: weak fairness of "some call begins or takes a step". The host goes on calling hooks,
  which is what the delivery of messages hangs on by design: nothing else pushes. It is not fair to
  any one client.
* `GraphIndex`: weak fairness of the watcher's thread, which is one loop that absorbs and settles, and
  of a run that has begun; and of the PostToolUse hooks, which the host starts after each of an agent's
  edits. Not of edits, full runs or tools.
* `AgentRows`: weak fairness of a session's hooks and of the child of a deferred end: processes that
  were started.
* `OtelExport`: weak fairness of each hook that has ended its session, and of each flush that has
  begun. They are processes the operating system schedules; the flush lock is blocking and its
  holder's post has a timeout. Timers need never fire: what `spawn_child` claims, that the queued
  flush posts what the hook wrote, must hold without them. A crash is a mishap, never fair.

## 4. Proofs

The theorems hold for all values of the constants that satisfy the modules' assumptions
(`ConstantsAssumption`, `OtelAssumption`, `GraphConstants`, `NoneIsNoRecord`, `LogConstants`, `ProxyConstants`,
`LinkConstants`, `NoteConstants`, `GuardConstants`, `MessagesAssumption`, `HookCallsAssumption`, `AgentConstants`: well-typed parameters, `None` apart from everything,
finitely many keys, sessions and directories, and a clock of the export that begins at 1): any number of processes, bodies, keys, calls, pids, command
lines, sessions, flushes and batch sizes, and any set of faults.

`ArchiveStore_proofs`

* `TypeCorrect`: `Spec => []TypeOK`. `TypeOK` is not inductive: a step at "decide" uses the key and
  the pointer of its job, a step at "probe" the head of `stage`. `TypeInv` adds `JobOK`, what every
  control point knows about the operation it belongs to. Lemmas for beginning, leaving and moving
  within an operation carry most of the cases.
* `ReferencesHaveRows`: `Spec => []RefsHaveRows`. Inductive on top of `TypeInv`. The steps that
  matter are the purge (the doomed set contains nothing that a call which stays or a decision
  refers to), `InsertCallIo` (rows and references commit together) and `PutArchiveDecision` (the
  foreign key).
* `ImplementsLiveZone`: `Spec => ZoneRefined`, the refinement of `LiveZone` under
  `zone <- decision, ledger <- expandRows`: the decision and the freeze are its two steps, all
  others stutter.
* `LedgerInStep`: `Spec => []LedgerMatchesFreeze`, with the library's facts about finite sets: a
  freeze of a non-empty set adds at least one element to the frozen set and one to the ledger.
* `RowsAreThere` (`RowsHaveFiles`) and `PointerStays` (`PointerNeverChanges`), from `SoleInv`. Both speak
  of operations that do not overlap, so the invariant says who may be at work at all (`RolesOK`: a
  process without a role rests) and what that one process has in hand (`SoleOK`): what it is about to
  insert has its file, what it is about to remove has no row, what it is about to decide is undecided.
  A crash or a failure at any point leaves at most files without rows, never the converse.

`Demon_proofs`

* `TypeCorrect`, `OneSupervisor` (`SupervisorHoldsLock`) and `StoppedIsDead` (`StopKillsBoth`) from
  one inductive invariant `IInv`: processes (a supervisor is at a point, its child handle names a
  service or a dead process), files, commands (who works with a state file has read one), the lock
  (whoever supervises has it, whoever probes has it), and that between the last kill and the
  removal of the state file neither pid comes back, because a pid that somebody remembers is not
  handed out.
* `StartSparesStrangers`: if only start and status run, no stranger is ever signalled, with the
  invariant that a state file of this boot, and what start has read of it, names no stranger. Its
  hypothesis on `Ops` is needed: `demon_stale_stop` refutes it for stop.
* `LeavesNoOrphan`, the safety half of `MarkerStops`, from `AllChildless`: a supervisor has one child at a time,
  and none that runs when it leaves of its own accord. The pid that it remembers of a dead child is not handed
  out meanwhile (`Births`, `DeadStayDead`). One that fails or is signalled leaves its child: section 5.
* `OneOwnerAtATime` (`OneOwner`), from `OwnInv`: every service that runs is the child of a supervisor that
  holds the lock (`Owned`), so there is one; and what start signals on the word of a state file is a
  service or gone, because a remembered pid is not handed out. It is proved for supervisors that
  neither fail at writing their state nor are killed: one that is leaves its child without an owner, and a
  start in between has only the state file to know of it, if it was written at all.

`OtelExport_proofs`

* `FlushesCoalesce` (`Coalesced`), from `LocksOK`: who is past the flush lock holds it, a
  spawned flush that waits for it holds the queue lock, and so does a hook that probes.
* `NoCallSkipped` (`CallsNotSkipped`), from `CallsOK`: what a flush has loaded are the calls right after
  the mark, without a gap and none in flight, and the mark stays there while the flush runs, because
  only the holder of the flush lock moves it. A call that has its ms, or is too old, is never in flight
  again, which is why none is sent early (`CallsComplete`).
* `ImplementsOutbox`: `Spec => CallsDelivered`, the refinement of `Outbox` under `made <- rows`, `due <- finished
  \cup aged`, `got <- sentCalls`, `mark <- cmark`. The four steps of `Outbox` are a new row, a row that gets
  its ms or is too old, a post that the collector takes, with or without an answer, and `AdvanceCalls`; all
  others stutter. Beyond `NoCallSkipped` it says that each post begins right after the mark of that moment
  and that the mark never goes back. From `CallsOK` with `LoadedCalls`: a load is the interval from the mark to its last.
* `TypeCorrect`: `TypeInv` is what the other proofs need of the types, and that a posted load is not empty; `BoundsOK`
  is the rest of `TypeOK`. That the tail of the session mark never counts more sessions than there are needs
  what a flush adds to it: the part of its load that ended in the mark's second is what came after as many
  sessions as the tail had counted.

* `NoSessionSkipped`: `InOrder` implies `Spec => []SessionsNotSkipped`. The marks are a second and a
  count, so the invariant `EndsOK` says what they stand for: a set `L` of sessions, the first `stail`
  by id of those that ended in `smark` (`Prefix`), all sent, and all of the earlier seconds sent. A
  flush that has loaded holds a `Chunk`: sessions that come right after `L`, with none left out in
  between (`OldestFirst`). That `NewTail` is then again the size of a prefix is by counting
  (`AtLastCounts`, a bijection, and `NewPrefix`), and that places agree with prefixes is
  `PrefixPlaces`. `InOrder` is needed where a session ends: it must come after all that ended
  (`EndsLast`); `otel_tie` is what happens without it. The invariant ends, as the property does, when
  a failure comes between the statements that move the two marks (`torn`).
* `NothingPostedTwice`: `InOrder` implies `Spec => []PostedOnce`, with `OnceOK`, the converse of the above
  as long as nothing has gone wrong. What was sent is behind the marks (`Covers`), or in the batch of
  the one flush that has posted and not yet moved them; what is loaded is not behind them
  (`LoadIsFresh`), because a `Chunk` begins after `L`. A session that ends comes after all that were
  sent and so shifts none of their places (`EndKeepsOnce`), and the new tail reaches as far into the last
  second as the batch did (`TailOnce`).
* `NoEndWaitsForATimer`: `InOrder` implies `Spec => []EndsInHand`, the safety half of `EventuallySent`. As long
  as nothing has gone wrong and a batch takes all ends, an end that is not sent is with a hook that is
  still to probe or to spawn, with a flush that is still to read, or in what one is about to post. A hook
  spawns nothing when a flush is queued, and a spawned flush leaves when another is: both are safe because
  whoever holds the queue lock has yet to read (`QueueHeld`) and what it reads is all there is (`LoadTakesAll`).

`Worktree_proofs`, from the premise `Alone` and a registry that can be read

* `TypeCorrect`, `ClaimsExclude` (`HoldersAreBound`), `LiveLocksStay` (`LiveLockKept`) and `WorkIsKept`
  (`WorkKept`), from `IInv`. `detach` and `claim` unlock whatever lock is there, so the core is
  `UnlockOK`: the lock that is about to be opened is still the one that was read. It holds since
  nobody else is about to open it (`OneUnlocks`): an agent unlocks its own lock or one without an
  agent, whoever has read one of the latter is the only command at work (`AloneOK`), and so is gc. Hence
  holders stay in the lock (`HoldsOK`), what gc has read of the live agents is not out of date (`GcOK`),
  and what a command is about to remove was merged and nobody who could unmerge it is bound to it
  (`WorkOK`, which is about commands that do not overlap). That a command also
  counts as meeting a plain lock when it has read one, and not only while the lock is there, is needed: with
  three agents TLC finds a lock that was put back and opened twice otherwise.

`HookCalls_proofs`

* `CallsInvariant`, `MarksAlwaysTrue` (`MarksAreTrue`) and `DirectoryIsOwn` (`OwnDirectory`), from
  `CallsIInv`. A mark is made by an execution that has yet to answer, so the invariant says who waits for
  it: a client that asked the resident has not begun `rtok hook` (`OneExecution`), and while no output was
  lost every execution of the resident, waiting or running, has its client (`SomebodyWaits`): a refusal and a
  stop therefore drop only what has not begun. What is marked is in the output (`SettledIsPrinted`).
  `CallsTypeInv` is `TypeOK` without the bounds of some histories (`last` is the maximum of a set).

* `SeenInSendOrder` (`InSendOrder`, so for an ample budget), from `OrderOK`: while no calls overlapped and every
  mark was written (`~rough`), and the budget is ample (`Ample`), one execution is under way at most and no inbox call beside it (`OneAtWork`); what
  waits is newer than all that was shown; and frames on their way are newer than what was shown, older than
  what will wait once they have settled (`Waiting`), and none that the agent read by itself (`InTurn`). That a
  frame which the output budget cuts takes all later ones with it is by counting lengths (`Total`).
* `TypeCorrect`: `TypeOK` with the bounds of the histories (`Tidy`).
* `EveryPushSettles`, the safety half of `EventuallyDelivered`, from `PushAdvances`: with an ample budget no push
  comes to its settle with nothing in it, for a first message that does not fit is listed or announced by the
  line about more (`PushWhole`); and without overlap what it settles has not been marked since it was read.

`Parts_proofs`

* `GraphInvariant` and `FreshIsAlwaysTrue` (`FreshIsTrue`), from `GraphInv`: a row, and a job of a run, that
  carries the stat a file has also carries its text; a walk knows of every file that it has passed; and
  while the stored fingerprint is this version's, so are the rows.
* `NothingIsForgotten`, the safety half of `IndexSettles`, from `KeepsAll`: a file whose rows are not those of the
  disk is flagged (an event, a collected path, a rescan, or `lost`) or still to be visited, written or deleted
  by the run under way; so when the loop has nothing left to do, the index agrees. What a run goes by is
  read earlier: the rows it loaded at its start (`GateFair`), the stat and hash in a job (`JobFair`) and the
  set of files it saw (`PruneFair`); where one of these is of the past, the write or the hook that made it
  so has flagged the file, and a flag stays until a run begins with it.
* `LogInvariant` and `HistoryIsKept` (`LogKeeps`), from `LogInv`: whoever renames holds the lock, found the
  file full and renames into a place that its own shift has made free; the history is full up to where the
  shift stands; and each place of a line that is gone stands for younger files that pushed it out.
* `WatchInvariant`, `LogTypeCorrect` and `LinesKept` (`LinesAreKept`: `LogKeeps` and `ShownOnce`), from
  `LogWatchInv`. The places of the history hold ever older files (`FilesInOrder`) without a hole but the
  one a rotation is moving (`NoGap`). Unless `torn`, the file the watch stands in has been shown up to where
  it stands and everything older in full (`KnowsItsFile`), and a first screen or a walk over the copies has
  collected, newest first, exactly what came since (`KnowsItsWay`), so that what it
  shows at its end continues what it has shown; a rotation between its reads makes it `torn`. The proof found a case that the model had not counted among `torn`: `StopsShort`, see section 5.
* `AgentInvariant`, `AgentTypeCorrect`, `NoEndIsLost` and `LinkedToItsOwn` (`LinkIsOwn`). `EndIsDue` is the safety
  half of `SessionsEnd`: the end of a session that is over is always with a hook that is still at it, unless
  the deferred child was dropped too. `LinkIsOwn` needs `OwnIsNearest`, about the process tree: what an `rtok
  mcp` has above it and another session's hooks have too lies no nearer than what it has in common with its
  own. A host that starts another host below itself and the `rtok mcp` in between would break it.
* `ProxyInvariant`, `AnswersAreOwn` (`HitIsOwn`) and `OneUsageRow` (`UsageOnce`), from `ProxyInv`: an entry
  of the cache is the whole 2xx answer of a request that was eligible, there is one entry per prompt
  (`OneEach`), a usage row exists exactly where the stage says so, and what was answered well is in
  the cache by the time its usage row is written (`Warm`), unless it expired or the proxy restarted.
* `TheUserDecides` (`UserHasTheLastWord`), from `WordInv`, in which a pair of projects has one kind of row at
  most and every word of the user its row, and `CapInv`: a walk that is alone has counted at least the
  projects that references have added, also when the user removes some of them under it.
* `LinksInvariant`, `LinksTypeCorrect` and `LinksAlwaysAgree` (`LinksAgree`), from `LinksInv`. Ids are handed out
  again, so the registry's part says that a link joins two projects there are and has one kind
  (`RegistryTyped`). A walk that nobody has disturbed (`calm`) knows three things of itself (`Knows`): what it
  has read or is about to visit is reached from the root by links that are there (`Reached`), what it
  has read of a manifest is still what the manifest says (`ReadsTrue`), and the projects it
  is done with have the links their manifests name, and no others (`VisitedTrue`). That `Scope`, which is
  a breadth-first search over as many levels as there are directories, is closed under the links
  (`ScopeIsClosed`) is a counting argument: levels only grow, so one of them equals the next.

`Notes_proofs`

* `NotesInvariant` and `NotesAlwaysAgree` (`NotesAgree`), from `NotesIInv`. Three facts make it inductive.
  What is under way fits the rows (`JobsFit`, `UnderWay`): a note that two clients are about to embed is
  `unsure`, so of the others the last vector to be written is the right one. What an import does not know
  of was written since (`LooksCover`): every topic there is is among those it read, those it added, or
  those in `since`, which is why a refusal has a reason. And what
  was last said of a topic is a row of it (`ToldTopics`), which `INSERT OR IGNORE` leaves alone. `Adds` says what a line of an import may do.

`GuardCache_proofs`

* `GuardInvariant` and `DenialsAlwaysTrue` (`DenialsAreTrue`), from `GuardIInv`: the property must hold of
  every row, recent or not (`RowsTold`), and of every result that waits for its hook (`LooksTold`): it was
  given to its window, and is what the tool would return unless a change has passed it. `OutputRests`
  says what a change leaves alone, `ClearKeeps` what the two clears may drop in either order.

Every invariant and action property of the runs is a theorem (`PartsTypeCorrect` joins the types of the seven
parts: a step of the instance is a step of each or leaves it alone). Out of the prover's
reach are liveness under fairness (`MarkerStops`, `KeptUp`, `UpgradeRestarts`, `EventuallyDelivered`,
`EventuallySent`, `IndexSettles`, `SessionsEnd`) and `ENABLED`; of the first and the last four the safety half is proved
(`LeavesNoOrphan`, `EveryPushSettles`, `NoEndWaitsForATimer`, `NothingIsForgotten`, `NoEndIsLost`). No module declares a recursive operator. The
induction rules of the library take an operator and cannot be instantiated here; where a proof needs
induction over numbers it takes the set of counterexamples and its least element (`NatLessThanWellFounded`
and `WFMin`), as in `Levels` and in the lemmas on sums and prefixes.

## 5. Where code and documents disagree

Shown by a run:

* `archive_purge_race`. The purge removes files after its transaction (`src/store/mod.rs:2279`). A
  rewrite that saw the file before and inserts the row after has a pointer without a file.
  plan.md: "Every compression keeps the original retrievable".
* `demon_stale_stop`. `stop` signals the pids of the state file without the boot-time check of
  `start` and `quiesce` (`src/demon.rs:217`, against the comments at 153-155 and 597).
* `worktree_evicting`. gc looks for a live agent in the git lock (`src/worktree/gc.rs:47`); in a pool
  that its host evicts there is none, and gc removes what a live agent works in (gc.rs:32).
* `otel_tie`. Of two sessions that end in one second, the one with the smaller id, if it ends after a
  flush, is counted as sent (`src/store/otel.rs:276`, against 263-265).
* `graph_marks`. `replace_one` returns before it clears the mark when a file has no tag left
  (`src/store/symbols.rs:152`), so the file counts as pending for good and the graph tools' banner about a
  stale index stays; the comment at 222 says the marked paths are those "not yet re-indexed".

Met while modelling, without a run of their own:

* Archive. `write_archive` (`src/store/mod.rs:773`) removes the file it created when its insert
  fails, with no look at the table: another process may have committed a row for it. A response that
  fails to spill leaves the file of the request without a row. With `archive.tiers` the loser of two
  concurrent rewrites sends its own pointer once (`src/plugins/archive/mod.rs:212`).
* Demon. `start` drops its probe lock (`src/demon.rs:148-152`) before its supervisor claims it, so a
  start that probed before another start's supervisor came up can terminate that supervisor's
  child; a status page or a probe that holds the lock makes start report the service as running; a
  child spawned between the supervisor's look at the marker and the signal of stop survives it.
* Worktree. `detach` opens whatever lock is there by now (`src/worktree/remove.rs:20`, against
  16-17); between the unlock and the lock of a re-claim another agent may take the worktree; the
  merge check is older than `branch -D`; gc releases no row; an unreadable registry counts as no
  live agents.
* Hooks. Two hooks of one agent at once push a message twice; a timeout or a stop after the mark
  loses it; a budget below one frame keeps it waiting for ever; a deferred SessionEnd may end a
  session that was resumed.
* Export. A failure between the session mark and its tail lets the old tail count against the new
  second, and a session of it may be skipped; a SessionEnd that is written late may be behind the
  mark; docs/otel.md still lists racing flushes as known debt, while `flush_lock` excludes them.
* Graph. Two processes that index one root at once may leave rows that look fresh and are not. A run of
  the watcher over changed paths ignores the fingerprint; an error of a cold run's drop is ignored and
  the new fingerprint stored (`src/plugins/graph/index.rs:107`); `settle` ignores a run's error; a file
  that cannot be read keeps its old rows; a late mark of a hook deletes rows that were just written.
* Log watch. "never shown twice, never skipped" (`src/log.rs:313-316`): after a start that finds no live
  file, and after a start or a poll that finds it without a whole line, the next poll shows all of the
  history again. A start or a poll that overlaps a rotation repeats or leaves out lines: one between the
  read of the live file (317) and of the first copy (`tail_with`, 319) puts the same lines into the
  first screen twice. A long line is two writes, between which others may write; a writer that opened a
  file before its rename appends to the copy after the watch passed it; two files that begin with the
  same line are taken for one. A watch that has seen no whole line yet takes the first copy without one
  for the file it was reading and stops there (`src/log.rs:415`), so that older copies it never showed
  are left out (`StopsShort`; found by the proof of `ShownOnce`).
* Agents. The child of a deferred SessionEnd runs without `--host` and registers under the default one
  (`src/hooks/mod.rs:622-624`); an event that comes late revives an ended agent; a failure of
  `end_agent` is ignored; `sessions.ended_at` stays when a session is resumed.
* Proxy. A client that hangs up before upstream's headers, and a target that does not parse, leave a
  calls row without a usage row ("Every request owes one usage row (T5.1)"). The read plugin remembers a
  file before the step that may fail (`src/plugins/read/mod.rs:167-173`).
* Projects. Unlinking a manual link that took over an auto one deletes the row, so the next walk makes the
  auto link again. A directory that is away when a walk reads the manifests loses its auto links, although
  "its links stay in the registry for when the directory returns" (`src/store/project_links.rs:172-174`).
  The cap is counted once per walk (`src/plugins/graph/follow.rs:67`): two walks at once exceed it. A
  walk that holds the id of a removed project may link, or drop the links of, the project that got the id.

* Memory. `dry_run` "counts exactly what a real run would insert and skip" (`src/plugins/memory/import.rs:58`):
  a line with an `id` that another note has is ignored by the real run, so of another machine's export
  notes are lost as "skipped"; the comment at 116 knows of a race only. A line that is passed over for its
  topic leaves its body in `seen` (88-97), so a later line with that body is skipped although no note has
  it. `embed_stale` "has just brought every row up to date" (`src/store/embed.rs:161`): it looks for
  missing vectors and other models and never compares `text_hash`, so after a crash between row and
  vector, or two saves that cross, the vector stays that of another text. Two revises that cross may
  retire both notes, and one retires a topic that was saved since (`src/plugins/memory/mod.rs:390`). The
  sync guard's key is the file's name (`src/plugins/memory/sync.rs:28`): the block of a second project is
  refused as edited by hand. `latest_session_note` says newest and takes the highest id
  (`src/store/mod.rs:1284`), which a resumed session's row need not have.

* Guard. A look whose hook runs after the hook of a change that passed it stores what is old, and the repeat
  is denied with it (`src/plugins/guard/mod.rs:88`). Only Bash, Edit and Write clear rows (98): not other tools
  that write, nor a failed tool without a PostToolUse event. An Edit clears the key of the name it was given;
  a Read under another name of that file keeps its row. Errors of the clears and of `put_archive` leave old
  rows. The read plugin advises a native `Read(limit=1)` before an Edit (`src/plugins/read/hook.rs:11`),
  which the guard denies when it is a repeat. `norm_cmd` folds blanks inside quotes too
  (`src/plugins/guard/mod.rs:422`), so two commands that print different things can share a key and the row
  of one deny the other: the model has one command, and says nothing of that. That plugin's own hook looks for rows of the
  hook's session, while MCP reads are stored under `mcp-<pid>` (`src/mcp.rs:346`), so it finds none.

## 6. What is left out, and the plan

Left out of the modelled components: head and tail layout of pointers, diff answers of cached
reads, the clearing of hook bodies; the log pump and page rendering of the demon, several services
in one command; host hooks, list, clean and the choice of paths of worktrees; the cleaning and
framing of message text, the resolution of names; the wire format and fingerprint of the resident;
the logs stream (as calls, without rows in flight) and metrics (no watermark) of the export; runs of
two processes over one root, the language servers and the queries of the graph; sub-agents and idle
times of the registry; wire formats and the rewriting of bodies of the proxy; pins, ranking, the sync
block and changes of the embedding model of the memory.

Not modelled. Text functions (filters, formatters, TOON, outlines, the rules by which the guard tells a
read-only command, skills), installers and
presentation keep no state between calls that another process changes; the handoff brief
and checkpoints are rows of one session that its own hooks write. SQLite's locking and the migrations under it are taken as given.

Next:

1. An abstract specification of an agent's messages (sent, shown in order, at most once by pushes),
   implemented by `HookCalls`, as `Outbox` is by `OtelExport`.
2. The opening of the store: `migrate`, the copy it takes first, and `vacuum` beside other processes.
3. The graph with two processes that index one root.
