-------------------------------- MODULE Demon --------------------------------
(***************************************************************************)
(* `rtok demon` (src/demon.rs) for one service: the supervisor process     *)
(* that respawns it, and the commands start, stop, restart, kill, upgrade  *)
(* and status, which reach the supervisor only through three files of      *)
(* state_dir -- <service>.lock (a flock that dies with its holder),        *)
(* <service>.json (the pids, written by the supervisor) and <service>.stop *)
(* (the marker) -- and through signals.  Services share nothing but the    *)
(* directory, so one of them stands for all.                               *)
(***************************************************************************)
EXTENDS Naturals, FiniteSets

CONSTANTS
  Pid,     \* process ids; one is handed out again once nothing remembers it
  Cmd,     \* `rtok demon` command lines that may run at the same time
  None,
  Plans,   \* what may run together: ops[c], the commands that line c gives,
           \* and faults, what the environment may do to the processes
  Patient  \* commands are only given while supervisors, if any, poll

Operations == {"start", "stop", "kill", "restart", "upgrade", "status"}
FaultKinds == {"exit", "killed", "io", "interrupt", "reboot"}

ASSUME ConstantsAssumption ==
  /\ None \notin Pid \cup Cmd
  /\ Pid \cap Cmd = {}
  /\ Plans \subseteq [ops: [Cmd -> SUBSET Operations], faults: SUBSET FaultKinds]
  /\ Patient \in BOOLEAN

VARIABLES
  kind,     \* what runs under a pid: "none", "sup", "svc", "other"
  termed,   \* services that were sent TERM and have not gone yet
  lock,     \* holder of <service>.lock
  json,     \* <service>.json, or None
  marker,   \* <service>.stop exists
  spc,      \* where each supervisor is
  mine,     \* the child handle of each supervisor
  pc,       \* where each command is
  op,       \* the command it is, or how the last one ended
  st,       \* the state file as that command read it
  plan      \* the plan of this behaviour, which no step changes

procs == <<kind, termed, spc, mine>>
cmds  == <<pc, op, st>>
vars  == <<procs, lock, json, marker, cmds, plan>>

(* The state file; `fresh` is `since >= boot_time()`.                       *)
States == [sup: Pid, child: Pid, fresh: BOOLEAN]

SupPoints == {"none", "claim", "head", "fork", "write", "poll", "backoff", "leave"}
CmdPoints == {"idle",
              "probe", "unprobe", "read", "term", "reap", "clear", "unmark", "spawn",
              "sread", "mark", "signal", "await", "sclear",
              "qread", "qkill", "qclear", "replace", "look", "rowprobe", "release"}

TypeOK ==
  /\ kind \in [Pid -> {"none", "sup", "svc", "other"}]
  /\ termed \in SUBSET Pid
  /\ lock \in Pid \cup Cmd \cup {None}
  /\ json \in States \cup {None}
  /\ marker \in BOOLEAN
  /\ spc \in [Pid -> SupPoints]
  /\ mine \in [Pid -> Pid \cup {None}]
  /\ pc \in [Cmd -> CmdPoints]
  /\ op \in [Cmd -> Operations \cup {"none", "interrupted"}]
  /\ st \in [Cmd -> States \cup {None}]

Init ==
  /\ kind = [p \in Pid |-> "none"]
  /\ termed = {}
  /\ lock = None /\ json = None /\ marker = FALSE
  /\ spc = [p \in Pid |-> "none"]
  /\ mine = [p \in Pid |-> None]
  /\ pc = [c \in Cmd |-> "idle"]
  /\ op = [c \in Cmd |-> "none"]
  /\ st = [c \in Cmd |-> None]
  /\ plan \in Plans

-----------------------------------------------------------------------------
(* Processes.                                                               *)

Alive(p) == kind[p] # "none"

Remembered(p) ==
  \/ Alive(p)
  \/ \E s \in {json} \cup {st[c] : c \in Cmd} : s # None /\ p \in {s.sup, s.child}
  \/ \E q \in Pid : mine[q] = p

Free == {p \in Pid : ~Remembered(p)}

(* The end of the processes S: their flock goes with them.                  *)
Die(S) ==
  /\ kind' = [p \in Pid |-> IF p \in S THEN "none" ELSE kind[p]]
  /\ spc' = [p \in Pid |-> IF p \in S THEN "none" ELSE spc[p]]
  /\ mine' = [p \in Pid |-> IF p \in S THEN None ELSE mine[p]]
  /\ lock' = IF lock \in S THEN None ELSE lock

Kill(S) == Die(S) /\ termed' = termed \ S

(* TERM ends a supervisor, which has no handler, and any other program; a   *)
(* service shuts down in its own time.                                      *)
Term(S) ==
  LET svcs == {p \in S : kind[p] = "svc"} IN
  /\ Die(S \ svcs)
  /\ termed' = termed \cup svcs

-----------------------------------------------------------------------------
(* supervise.                                                               *)

SupStep(p, at, next) ==
  /\ kind[p] = "sup" /\ spc[p] = at
  /\ spc' = [spc EXCEPT ![p] = next]

Leaves(p) ==
  /\ Kill({p})
  /\ UNCHANGED cmds

(* Broken variant: no lock.                                                 *)
SuperviseUnlocked(p) ==
  /\ SupStep(p, "claim", "head")
  /\ UNCHANGED <<kind, termed, mine, lock, json, marker, cmds>>

(* One supervisor per service: the second one leaves without touching the   *)
(* state file.                                                              *)
Supervise(p) ==
  /\ \/ /\ lock = None
        /\ SupStep(p, "claim", "head")
        /\ lock' = p
        /\ UNCHANGED <<kind, termed, mine, cmds>>
     \/ /\ lock # None
        /\ kind[p] = "sup" /\ spc[p] = "claim"
        /\ Leaves(p)
  /\ UNCHANGED <<json, marker>>

(* `while !stop.exists()`.                                                  *)
CheckMarker(p) ==
  /\ SupStep(p, "head", IF marker THEN "leave" ELSE "fork")
  /\ UNCHANGED <<kind, termed, mine, lock, json, marker, cmds>>

SpawnChild(p) ==
  /\ SupStep(p, "fork", "write")
  /\ \E q \in Free :
       /\ kind' = [kind EXCEPT ![q] = "svc"]
       /\ mine' = [mine EXCEPT ![p] = q]
  /\ UNCHANGED <<termed, lock, json, marker, cmds>>

(* Broken variant: the state file is written with no child in it.           *)
WriteStateNoChild(p) ==
  /\ SupStep(p, "write", "poll")
  /\ json' = [sup |-> p, child |-> None, fresh |-> TRUE]
  /\ UNCHANGED <<kind, termed, mine, lock, marker, cmds>>

WriteState(p) ==
  /\ SupStep(p, "write", "poll")
  /\ json' = [sup |-> p, child |-> mine[p], fresh |-> TRUE]
  /\ UNCHANGED <<kind, termed, mine, lock, marker, cmds>>

(* A claim, a spawn, a wait or a write of the state file that fails ends    *)
(* the supervisor with `?`; a child it already has runs on.                 *)
SuperviseFails(p) ==
  /\ "io" \in plan.faults
  /\ kind[p] = "sup" /\ spc[p] \in {"claim", "fork", "write", "poll", "backoff"}
  /\ Leaves(p)
  /\ UNCHANGED <<json, marker>>

(* Broken variant: the marker is looked for between two children only.      *)
PollExitOnly(p) ==
  /\ SupStep(p, "poll", "backoff")
  /\ ~Alive(mine[p])
  /\ UNCHANGED <<kind, termed, mine, lock, json, marker, cmds>>

(* One turn of the poll loop that sees something: the marker (the child is  *)
(* killed and reaped), or the child's exit.                                 *)
Poll(p) ==
  \/ /\ marker
     /\ SupStep(p, "poll", "leave")
     /\ kind' = [kind EXCEPT ![mine[p]] = "none"]
     /\ termed' = termed \ {mine[p]}
     /\ UNCHANGED <<mine, lock, json, marker, cmds>>
  \/ /\ ~marker
     /\ SupStep(p, "poll", "backoff")
     /\ ~Alive(mine[p])
     /\ UNCHANGED <<kind, termed, mine, lock, json, marker, cmds>>

(* Broken variant: the restart is counted, nothing is spawned.              *)
CountRestartOnly(p) ==
  /\ SupStep(p, "backoff", "poll")
  /\ json' = [sup |-> p, child |-> mine[p], fresh |-> TRUE]
  /\ UNCHANGED <<kind, termed, mine, lock, marker, cmds>>

(* The restart is counted in the state file, then the backoff is slept.     *)
CountRestart(p) ==
  /\ SupStep(p, "backoff", "head")
  /\ json' = [sup |-> p, child |-> mine[p], fresh |-> TRUE]
  /\ UNCHANGED <<kind, termed, mine, lock, marker, cmds>>

Leave(p) ==
  /\ kind[p] = "sup" /\ spc[p] = "leave"
  /\ json' = None
  /\ Leaves(p)
  /\ UNCHANGED marker

Supervisor(p) ==
  \/ Supervise(p) \/ CheckMarker(p) \/ SpawnChild(p) \/ WriteState(p)
  \/ Poll(p) \/ CountRestart(p) \/ Leave(p)

-----------------------------------------------------------------------------
(* Commands.                                                                *)

(* A command moves on; at its end it forgets what it read.                  *)
Goto(c, at) ==
  /\ pc' = [pc EXCEPT ![c] = at]
  /\ op' = IF at = "idle" THEN [op EXCEPT ![c] = "none"] ELSE op
  /\ st' = IF at = "idle" THEN [st EXCEPT ![c] = None] ELSE st

(* The state file is read; without one the command goes to `absent`.        *)
Read(c, at, found, absent) ==
  /\ pc[c] = at
  /\ \/ /\ json = None
        /\ Goto(c, absent)
     \/ /\ json # None
        /\ pc' = [pc EXCEPT ![c] = found]
        /\ st' = [st EXCEPT ![c] = json]
        /\ UNCHANGED op
  /\ UNCHANGED <<procs, lock, json, marker>>

Pids(c) == {st[c].sup, st[c].child}

First(o) == CASE o = "start" -> "probe"
              [] o \in {"stop", "kill", "restart"} -> "sread"
              [] o \in {"upgrade", "status"} -> "look"

(* A new command line.  start returns once the supervisor is spawned: its   *)
(* first steps may come after the next command, unless the user is patient. *)
Run(c) ==
  /\ pc[c] = "idle"
  /\ Patient => \A p \in Pid : kind[p] = "sup" => spc[p] = "poll"
  /\ \E o \in plan.ops[c] : /\ op' = [op EXCEPT ![c] = o]
                       /\ pc' = [pc EXCEPT ![c] = First(o)]
  /\ UNCHANGED <<st, procs, lock, json, marker>>

(* start: claim() as a probe.  A lock that is held means "already running"; *)
(* a lock taken is dropped at once.                                         *)
StartProbe(c) ==
  /\ pc[c] = "probe"
  /\ IF lock # None
     THEN Goto(c, "idle") /\ UNCHANGED lock
     ELSE Goto(c, "unprobe") /\ lock' = c
  /\ UNCHANGED <<procs, json, marker>>

StartUnprobe(c) ==
  /\ pc[c] = "unprobe"
  /\ lock' = None
  /\ Goto(c, "read")
  /\ UNCHANGED <<procs, json, marker>>

StartRead(c) == Read(c, "read", "term", "unmark")

(* Broken variant: no look at the boot time.                                *)
StartTermAnyBoot(c) ==
  /\ pc[c] = "term"
  /\ IF Alive(st[c].child)
     THEN Term({st[c].child}) /\ Goto(c, "reap")
     ELSE Goto(c, "clear") /\ UNCHANGED <<procs, lock>>
  /\ UNCHANGED <<json, marker>>

(* The orphan of a supervisor that died from outside is retired, if its pid *)
(* dates from this boot.                                                    *)
StartTerm(c) ==
  /\ pc[c] = "term"
  /\ IF st[c].fresh /\ Alive(st[c].child)
     THEN Term({st[c].child}) /\ Goto(c, "reap")
     ELSE Goto(c, "clear") /\ UNCHANGED <<procs, lock>>
  /\ UNCHANGED <<json, marker>>

(* Forty polls, then KILL.                                                  *)
StartReap(c) ==
  /\ pc[c] = "reap"
  /\ IF Alive(st[c].child) THEN Kill({st[c].child}) ELSE UNCHANGED <<procs, lock>>
  /\ Goto(c, "clear")
  /\ UNCHANGED <<json, marker>>

StartClear(c) ==
  /\ pc[c] = "clear"
  /\ json' = None
  /\ Goto(c, "unmark")
  /\ UNCHANGED <<procs, lock, marker>>

StartUnmark(c) ==
  /\ pc[c] = "unmark"
  /\ marker' = FALSE
  /\ Goto(c, "spawn")
  /\ UNCHANGED <<procs, lock, json>>

StartSpawn(c) ==
  /\ pc[c] = "spawn"
  /\ \E p \in Free :
       /\ kind' = [kind EXCEPT ![p] = "sup"]
       /\ spc' = [spc EXCEPT ![p] = "claim"]
  /\ Goto(c, "idle")
  /\ UNCHANGED <<termed, mine, lock, json, marker>>

(* stop, and the first half of restart and upgrade.                         *)
AfterStop(c) == CASE op[c] = "restart" -> "probe"
                  [] op[c] = "upgrade" -> "qread"
                  [] OTHER -> "idle"

StopRead(c) == Read(c, "sread", "mark", AfterStop(c))

(* A marker that cannot be written ends stop; upgrade starts all the same.  *)
StopMark(c) ==
  /\ pc[c] = "mark"
  /\ \/ marker' = TRUE /\ Goto(c, "signal")
     \/ /\ "io" \in plan.faults
        /\ Goto(c, IF op[c] = "upgrade" THEN "probe" ELSE "idle")
        /\ UNCHANGED marker
  /\ UNCHANGED <<procs, lock, json>>

(* kill is stop with force.  Neither looks at the boot time.                *)
StopSignal(c) ==
  /\ pc[c] = "signal"
  /\ IF op[c] = "kill" THEN Kill(Pids(c)) ELSE Term(Pids(c))
  /\ Goto(c, "await")
  /\ UNCHANGED <<json, marker>>

(* Broken variant: no last resort.                                          *)
StopAwaitGivesUp(c) ==
  /\ pc[c] = "await"
  /\ Goto(c, "sclear")
  /\ UNCHANGED <<procs, lock, json, marker>>

(* Forty polls; what is still up then is killed.                            *)
StopAwait(c) ==
  /\ pc[c] = "await"
  /\ Kill(Pids(c))
  /\ Goto(c, "sclear")
  /\ UNCHANGED <<json, marker>>

StopClear(c) ==
  /\ pc[c] = "sclear"
  /\ json' = None
  /\ Goto(c, AfterStop(c))
  /\ UNCHANGED <<procs, lock, marker>>

(* quiesce: a state file that is back is killed and dropped, until none is  *)
(* there or the deadline passes; either way the surfaces are started again. *)
QuiesceRead(c) == Read(c, "qread", "qkill", "replace")

QuiesceKill(c) ==
  /\ pc[c] = "qkill"
  /\ IF st[c].fresh THEN Kill(Pids(c)) ELSE UNCHANGED <<procs, lock>>
  /\ Goto(c, "qclear")
  /\ UNCHANGED <<json, marker>>

QuiesceClear(c) ==
  /\ pc[c] = "qclear"
  /\ json' = None
  /\ Goto(c, "qread") \/ Goto(c, "probe")
  /\ UNCHANGED <<procs, lock, marker>>

(* Broken variant: a failed replace returns.                                *)
ReplaceReturns(c) ==
  /\ pc[c] = "replace"
  /\ Goto(c, "probe") \/ Goto(c, "idle")
  /\ UNCHANGED <<procs, lock, json, marker>>

(* replace_binary, done or failed.                                          *)
ReplaceBinary(c) ==
  /\ pc[c] = "replace"
  /\ Goto(c, "probe")
  /\ UNCHANGED <<procs, lock, json, marker>>

(* rows: running is a state file and a lock held by somebody.  upgrade      *)
(* stops and starts what it found running, and only replaces otherwise.     *)
RowsRead(c) == Read(c, "look", "rowprobe", "idle")

RowsProbe(c) ==
  /\ pc[c] = "rowprobe"
  /\ IF lock = None
     THEN Goto(c, "release") /\ lock' = c
     ELSE Goto(c, IF op[c] = "upgrade" THEN "sread" ELSE "idle") /\ UNCHANGED lock
  /\ UNCHANGED <<procs, json, marker>>

RowsRelease(c) ==
  /\ pc[c] = "release"
  /\ lock' = None
  /\ Goto(c, "idle")
  /\ UNCHANGED <<procs, json, marker>>

Command(c) ==
  \/ StartProbe(c) \/ StartUnprobe(c) \/ StartRead(c) \/ StartTerm(c) \/ StartReap(c)
  \/ StartClear(c) \/ StartUnmark(c) \/ StartSpawn(c)
  \/ StopRead(c) \/ StopMark(c) \/ StopSignal(c) \/ StopAwait(c) \/ StopClear(c)
  \/ QuiesceRead(c) \/ QuiesceKill(c) \/ QuiesceClear(c) \/ ReplaceBinary(c)
  \/ RowsRead(c) \/ RowsProbe(c) \/ RowsRelease(c)

-----------------------------------------------------------------------------
(* The environment.                                                         *)

(* A service asked to go does, and one may exit on its own.                 *)
ServiceExits(p) ==
  /\ kind[p] = "svc"
  /\ p \in termed \/ "exit" \in plan.faults
  /\ Kill({p})
  /\ UNCHANGED <<json, marker, cmds>>

(* A supervisor killed from outside.                                        *)
SupervisorKilled(p) ==
  /\ "killed" \in plan.faults
  /\ kind[p] = "sup"
  /\ Kill({p})
  /\ UNCHANGED <<json, marker, cmds>>

(* A command interrupted by its user.                                       *)
Interrupted(c) ==
  /\ "interrupt" \in plan.faults
  /\ pc[c] # "idle"
  /\ pc' = [pc EXCEPT ![c] = "idle"]
  /\ op' = [op EXCEPT ![c] = "interrupted"]
  /\ st' = [st EXCEPT ![c] = None]
  /\ lock' = IF lock = c THEN None ELSE lock
  /\ UNCHANGED <<procs, json, marker>>

(* After a reboot the files are still there, nothing of rtok runs, and the  *)
(* pids in the state file may belong to other programs.                     *)
Reboot ==
  /\ "reboot" \in plan.faults
  /\ \E S \in SUBSET (IF json = None THEN {} ELSE {json.sup, json.child}) :
       kind' = [p \in Pid |-> IF p \in S THEN "other" ELSE "none"]
  /\ termed' = {}
  /\ spc' = [p \in Pid |-> "none"]
  /\ mine' = [p \in Pid |-> None]
  /\ lock' = None
  /\ json' = IF json = None THEN None ELSE [json EXCEPT !.fresh = FALSE]
  /\ pc' = [c \in Cmd |-> "idle"]
  /\ op' = [c \in Cmd |-> "none"]
  /\ st' = [c \in Cmd |-> None]
  /\ UNCHANGED marker

Next ==
  /\ \/ \E p \in Pid : \/ Supervisor(p) \/ SuperviseFails(p)
                       \/ ServiceExits(p) \/ SupervisorKilled(p)
     \/ \E c \in Cmd : Run(c) \/ Command(c) \/ Interrupted(c)
     \/ Reboot
  /\ UNCHANGED plan

Spec == Init /\ [][Next]_vars

(* Processes are scheduled and a command that runs gets on: no step of a    *)
(* supervisor or a command waits for another one.  A service that was sent  *)
(* TERM may ignore it, and nobody need start a command.                     *)
Fairness ==
  /\ \A p \in Pid : WF_vars(Supervisor(p) /\ UNCHANGED plan)
  /\ \A c \in Cmd : WF_vars(Command(c) /\ UNCHANGED plan)

FairSpec == Spec /\ Fairness
-----------------------------------------------------------------------------
Services == {p \in Pid : kind[p] = "svc"}
Supervising == {p \in Pid : kind[p] = "sup" /\ spc[p] # "claim"}

(* Plans in which nothing is stopped.                                      *)
OnlyStarts == \A c \in Cmd : plan.ops[c] \subseteq {"start", "status"}

(* A service has one owner of its port at a time, however many start and    *)
(* status commands overlap and however often the service exits.             *)
OneOwner == OnlyStarts => Cardinality(Services) <= 1

(* Who supervises holds the lock, and no probe ever takes it away.          *)
SupervisorHoldsLock == \A p \in Supervising : lock = p

(* When stop or kill drops the state file, neither of the pids it read      *)
(* there is alive, unless another start took the place meanwhile.           *)
StopKillsBoth ==
  [][\A c \in Cmd : pc[c] = "sclear" => \A p \in Pids(c) : ~Alive(p)]_vars

(* No command signals a process that is not rtok's: after a reboot the pids *)
(* of an old state file belong to unrelated programs.                       *)
Spares == Reboot \/ \A p \in Pid : kind[p] = "other" => kind'[p] = "other"
StrangersSpared == [][Spares]_vars

(* That holds of start and status: the look at the boot time is enough,     *)
(* however often the machine goes down and however the commands overlap.    *)
StartsSpareStrangers == [][OnlyStarts => Spares]_vars

(* The marker reaches every supervisor, also one whose state file is gone   *)
(* or whose stop was interrupted after it (as long as there are pids).      *)
MarkerStops == marker ~> (~marker \/ Supervising = {} \/ Free = {})

(* A supervised service that exits is spawned again, until it is stopped    *)
(* (as long as there are pids).                                             *)
KeptUp ==
  \A p \in Pid : spc[p] = "backoff" ~>
    (spc[p] = "write" \/ marker \/ kind[p] # "sup" \/ Free = {})

(* What upgrade stopped is up again, whether or not the binary was replaced *)
(* and the surfaces stayed down for it, unless the upgrade is interrupted   *)
(* or another command comes first.                                          *)
UpgradeRestarts ==
  \A c \in Cmd : pc[c] \in {"qread", "replace"} ~>
    \/ \E p \in Pid : spc[p] = "poll"
    \/ op[c] \notin {"upgrade", "none"}
    \/ pc[c] = "look"
    \/ Free = {}
=============================================================================
