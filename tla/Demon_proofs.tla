----------------------------- MODULE Demon_proofs -----------------------------
(***************************************************************************)
(* What Demon guarantees whatever the pids, the number of command lines,   *)
(* what they run and whichever failures happen.                            *)
(***************************************************************************)
EXTENDS Demon, FiniteSetTheorems, TLAPS

ProcsOK ==
  /\ kind \in [Pid -> {"none", "sup", "svc", "other"}]
  /\ termed \in SUBSET Pid
  /\ spc \in [Pid -> SupPoints]
  /\ mine \in [Pid -> Pid \cup {None}]
  /\ \A p \in Pid : kind[p] = "sup" <=> spc[p] # "none"
  /\ \A p \in Pid : spc[p] \in {"write", "poll", "backoff"} => mine[p] \in Pid
  /\ \A p, q \in Pid : mine[p] = q => kind[q] \in {"none", "svc"}

FilesOK == json \in States \cup {None} /\ marker \in BOOLEAN

(* Where a command works with the state file it has read.                   *)
Working == {"term", "reap", "mark", "signal", "await", "sclear", "qkill"}

CmdsOK ==
  /\ pc \in [Cmd -> CmdPoints]
  /\ op \in [Cmd -> Operations \cup {"none", "interrupted"}]
  /\ st \in [Cmd -> States \cup {None}]
  /\ \A c \in Cmd : pc[c] \in Working => st[c] \in States \ {None}

(* The lock is a supervisor's, from the claim to its death, or a probe's.   *)
LockOK ==
  /\ lock \in Pid \cup Cmd \cup {None}
  /\ SupervisorHoldsLock
  /\ \A c \in Cmd : pc[c] \in {"unprobe", "release"} => lock = c

(* Once the kill of the last resort is done, no pid that stop read comes    *)
(* back to life.                                                            *)
KilledOK ==
  \A c \in Cmd : pc[c] = "sclear" => \A p \in Pids(c) : ~Alive(p)

IInv == ProcsOK /\ FilesOK /\ CmdsOK /\ LockOK /\ KilledOK

LEMMA InitIInv == Init => IInv
<1>. SUFFICES ASSUME Init PROVE IInv
  OBVIOUS
<1>1. ProcsOK
  BY ConstantsAssumption DEF Init, ProcsOK, SupPoints
<1>2. FilesOK /\ CmdsOK
  BY DEF Init, FilesOK, CmdsOK, Working, CmdPoints
<1>3. LockOK /\ KilledOK
  BY DEF Init, LockOK, KilledOK, SupervisorHoldsLock, Supervising
<1>. QED
  BY <1>1, <1>2, <1>3 DEF IInv

LEMMA IInvTypeOK == IInv => TypeOK
  BY DEF IInv, TypeOK, ProcsOK, FilesOK, CmdsOK, LockOK

-----------------------------------------------------------------------------
(* Deaths.                                                                  *)

(* A death keeps the processes well formed, revives nobody and takes the    *)
(* lock from nobody who survives it.                                        *)
LEMMA DieFacts ==
  ASSUME ProcsOK, NEW S \in SUBSET Pid, Die(S), termed' \in SUBSET Pid
  PROVE  /\ ProcsOK'
         /\ \A p \in Pid : kind'[p] = IF p \in S THEN "none" ELSE kind[p]
         /\ \A p \in Supervising' : p \in Supervising /\ p \notin S
  BY ConstantsAssumption DEF Die, ProcsOK, Supervising, SupPoints

LEMMA DieLock ==
  ASSUME ProcsOK, LockOK, NEW S \in SUBSET Pid, Die(S), termed' \in SUBSET Pid
  PROVE  /\ lock' \in Pid \cup Cmd \cup {None}
         /\ SupervisorHoldsLock'
         /\ lock \in Cmd => lock' = lock
<1>1. \A p \in Supervising' : p \in Supervising /\ p \notin S
  BY DieFacts
<1>2. lock' = IF lock \in S THEN None ELSE lock
  BY DEF Die
<1>. QED
  BY <1>1, <1>2, ConstantsAssumption DEF LockOK, SupervisorHoldsLock

LEMMA KillDies ==
  ASSUME ProcsOK, NEW S \in SUBSET Pid, Kill(S)
  PROVE  Die(S) /\ termed' \in SUBSET Pid
  BY DEF Kill, ProcsOK

LEMMA TermDies ==
  ASSUME ProcsOK, NEW S \in SUBSET Pid, Term(S)
  PROVE  /\ \E T \in SUBSET S : Die(T)
         /\ termed' \in SUBSET Pid
  BY DEF Term, ProcsOK

(* KilledOK while commands stand still and nobody is born.                  *)
LEMMA DieKilled ==
  ASSUME ProcsOK, CmdsOK, KilledOK, NEW S \in SUBSET Pid, Die(S),
         termed' \in SUBSET Pid, UNCHANGED cmds
  PROVE  KilledOK'
<1>1. \A p \in Pid : kind'[p] = IF p \in S THEN "none" ELSE kind[p]
  BY DieFacts
<1>2. \A c \in Cmd : pc[c] = "sclear" => Pids(c) \subseteq Pid
  BY DEF CmdsOK, Working, Pids, States
<1>. QED
  BY <1>1, <1>2 DEF KilledOK, Alive, cmds, Pids

-----------------------------------------------------------------------------
(* Steps of one command.                                                    *)

LEMMA GotoFacts ==
  ASSUME CmdsOK, NEW c \in Cmd, NEW at \in CmdPoints, Goto(c, at),
         at \in Working => st[c] \in States \ {None}
  PROVE  /\ CmdsOK'
         /\ pc' = [pc EXCEPT ![c] = at]
         /\ at # "idle" => st' = st
         /\ \A d \in Cmd \ {c} : st'[d] = st[d]
<1>1. CASE at = "idle"
  BY <1>1 DEF CmdsOK, Goto, Working, CmdPoints
<1>2. CASE at # "idle"
  BY <1>2 DEF CmdsOK, Goto, CmdPoints
<1>. QED
  BY <1>1, <1>2

LEMMA ReadFacts ==
  ASSUME CmdsOK, FilesOK, NEW c \in Cmd, NEW at \in CmdPoints,
         NEW found \in CmdPoints, NEW absent \in CmdPoints \ Working,
         Read(c, at, found, absent), found # "idle"
  PROVE  /\ CmdsOK'
         /\ pc' = [pc EXCEPT ![c] = IF json = None THEN absent ELSE found]
         /\ \A d \in Cmd \ {c} : st'[d] = st[d]
<1>1. CASE json = None
  BY <1>1, GotoFacts DEF Read
<1>2. CASE json # None
  BY <1>2 DEF CmdsOK, Read, FilesOK
<1>. QED
  BY <1>1, <1>2

(* A command that moves on to a point where it holds no probe and has       *)
(* nothing killed disturbs neither the lock nor the dead.                   *)
LEMMA MoveLock ==
  ASSUME ProcsOK, CmdsOK, LockOK, NEW c \in Cmd, NEW at \in CmdPoints \ {"unprobe", "release"},
         pc' = [pc EXCEPT ![c] = at], UNCHANGED <<kind, spc, lock>>
  PROVE  LockOK'
  BY DEF LockOK, CmdsOK, SupervisorHoldsLock, Supervising

LEMMA MoveKilled ==
  ASSUME CmdsOK, KilledOK, NEW c \in Cmd, NEW at \in CmdPoints \ {"sclear"},
         pc' = [pc EXCEPT ![c] = at], \A d \in Cmd \ {c} : st'[d] = st[d],
         \A p \in Pid : kind[p] = "none" => kind'[p] = "none"
  PROVE  KilledOK'
<1>. SUFFICES ASSUME NEW d \in Cmd, pc'[d] = "sclear", NEW p \in Pids(d)'
              PROVE  kind'[p] = "none"
  BY DEF KilledOK, Alive
<1>1. d # c /\ pc[d] = "sclear"
  BY DEF CmdsOK
<1>2. p \in Pids(d) /\ p \in Pid
  BY <1>1 DEF CmdsOK, Working, Pids, States
<1>. QED
  BY <1>1, <1>2 DEF KilledOK, Alive

-----------------------------------------------------------------------------
(* Steps that leave the commands alone.                                     *)

LEMMA SameCmds ==
  ASSUME CmdsOK, UNCHANGED cmds
  PROVE  CmdsOK'
  BY DEF CmdsOK, cmds

(* Who is born takes a pid that no command remembers.                       *)
LEMMA KeepKilled ==
  ASSUME CmdsOK, KilledOK, UNCHANGED cmds,
         \A q \in Pid : kind[q] = "none" /\ kind'[q] # "none" => q \in Free
  PROVE  KilledOK'
<1>. SUFFICES ASSUME NEW c \in Cmd, pc'[c] = "sclear", NEW p \in Pids(c)'
              PROVE  kind'[p] = "none"
  BY DEF KilledOK, Alive
<1>1. pc[c] = "sclear" /\ st[c] \in States /\ st[c] # None /\ p \in {st[c].sup, st[c].child}
  BY DEF CmdsOK, Working, cmds, Pids
<1>2. p \in Pid /\ kind[p] = "none"
  BY <1>1 DEF KilledOK, Pids, Alive, States
<1>3. p \notin Free
  BY <1>1 DEF Free, Remembered
<1>. QED
  BY <1>2, <1>3

(* A death that no command takes part in.                                   *)
LEMMA DieIInv ==
  ASSUME IInv, NEW S \in SUBSET Pid, Die(S), termed' \in SUBSET Pid,
         UNCHANGED cmds, FilesOK'
  PROVE  IInv'
<1>1. ProcsOK' /\ CmdsOK'
  BY DieFacts, SameCmds DEF IInv
<1>2. LockOK'
  BY DieLock DEF IInv, LockOK, cmds
<1>3. KilledOK'
  BY DieKilled DEF IInv
<1>. QED
  BY <1>1, <1>2, <1>3 DEF IInv

-----------------------------------------------------------------------------
(* One lemma per process.                                                   *)

LEMMA SupervisorStep ==
  ASSUME IInv, NEW p \in Pid, Supervisor(p)
  PROVE  IInv'
<1>. USE DEF IInv
<1>1. CASE Supervise(p)
  <2>1. CASE Kill({p})
    BY <1>1, <2>1, KillDies, DieIInv DEF Supervise, Leaves, SupStep, FilesOK
  <2>2. CASE lock = None /\ SupStep(p, "claim", "head") /\ lock' = p
             /\ UNCHANGED <<kind, termed, mine, cmds>>
    <3>1. ProcsOK'
      BY <2>2 DEF ProcsOK, SupStep, SupPoints
    <3>2. LockOK'
      BY <2>2, ConstantsAssumption
      DEF LockOK, SupStep, SupervisorHoldsLock, Supervising, ProcsOK, cmds
    <3>3. CmdsOK' /\ KilledOK' /\ FilesOK'
      BY <1>1, <2>2, SameCmds, KeepKilled DEF Supervise, FilesOK, cmds
    <3>. QED
      BY <3>1, <3>2, <3>3
  <2>. QED
    BY <1>1, <2>1, <2>2 DEF Supervise, Leaves
<1>2. CASE CheckMarker(p)
  <2>1. ProcsOK'
    BY <1>2 DEF CheckMarker, ProcsOK, SupStep, SupPoints
  <2>2. LockOK'
    BY <1>2 DEF CheckMarker, LockOK, SupStep, SupervisorHoldsLock, Supervising, ProcsOK, cmds
  <2>3. CmdsOK' /\ KilledOK' /\ FilesOK'
    BY <1>2, SameCmds, KeepKilled DEF CheckMarker, FilesOK
  <2>. QED
    BY <2>1, <2>2, <2>3
<1>3. CASE SpawnChild(p)
  <2>1. PICK q \in Free : /\ kind' = [kind EXCEPT ![q] = "svc"]
                          /\ mine' = [mine EXCEPT ![p] = q]
    BY <1>3 DEF SpawnChild
  <2>2. q \in Pid /\ kind[q] = "none" /\ \A r \in Pid : mine[r] # q
    BY DEF Free, Remembered, Alive
  <2>3. ProcsOK'
    BY <1>3, <2>1, <2>2 DEF SpawnChild, ProcsOK, SupStep, SupPoints
  <2>4. LockOK'
    BY <1>3, <2>1, <2>2
    DEF SpawnChild, LockOK, SupStep, SupervisorHoldsLock, Supervising, ProcsOK, cmds
  <2>5. \A r \in Pid : kind[r] = "none" /\ kind'[r] # "none" => r \in Free
    BY <2>1, <2>2 DEF ProcsOK
  <2>6. CmdsOK' /\ KilledOK' /\ FilesOK'
    BY <1>3, <2>5, SameCmds, KeepKilled DEF SpawnChild, FilesOK
  <2>. QED
    BY <2>3, <2>4, <2>6
<1>4. CASE WriteState(p)
  <2>1. ProcsOK'
    BY <1>4 DEF WriteState, ProcsOK, SupStep, SupPoints
  <2>2. LockOK'
    BY <1>4 DEF WriteState, LockOK, SupStep, SupervisorHoldsLock, Supervising, ProcsOK, cmds
  <2>3. FilesOK'
    BY <1>4 DEF WriteState, FilesOK, SupStep, ProcsOK, States
  <2>4. CmdsOK' /\ KilledOK'
    BY <1>4, SameCmds, KeepKilled DEF WriteState
  <2>. QED
    BY <2>1, <2>2, <2>3, <2>4
<1>5. CASE Poll(p)
  <2>1. spc[p] = "poll" /\ mine[p] \in Pid /\ kind[mine[p]] \in {"none", "svc"}
        /\ UNCHANGED cmds /\ lock' = lock /\ UNCHANGED <<json, marker>>
    BY <1>5 DEF Poll, SupStep, ProcsOK
  <2>2. ProcsOK'
    BY <1>5, <2>1 DEF Poll, ProcsOK, SupStep, SupPoints
  <2>3. LockOK'
    BY <1>5, <2>1 DEF Poll, LockOK, SupStep, SupervisorHoldsLock, Supervising, ProcsOK, cmds
  <2>4. \A r \in Pid : kind[r] = "none" => kind'[r] = "none"
    BY <1>5, <2>1 DEF Poll, ProcsOK
  <2>5. CmdsOK' /\ KilledOK' /\ FilesOK'
    BY <2>1, <2>4, SameCmds, KeepKilled DEF FilesOK
  <2>. QED
    BY <2>2, <2>3, <2>5
<1>6. CASE CountRestart(p)
  <2>1. ProcsOK'
    BY <1>6 DEF CountRestart, ProcsOK, SupStep, SupPoints
  <2>2. LockOK'
    BY <1>6 DEF CountRestart, LockOK, SupStep, SupervisorHoldsLock, Supervising, ProcsOK, cmds
  <2>3. FilesOK'
    BY <1>6 DEF CountRestart, FilesOK, SupStep, ProcsOK, States
  <2>4. CmdsOK' /\ KilledOK'
    BY <1>6, SameCmds, KeepKilled DEF CountRestart
  <2>. QED
    BY <2>1, <2>2, <2>3, <2>4
<1>7. CASE Leave(p)
  BY <1>7, KillDies, DieIInv DEF Leave, Leaves, FilesOK
<1>. QED
  BY <1>1, <1>2, <1>3, <1>4, <1>5, <1>6, <1>7 DEF Supervisor

LEMMA SupervisorEnds ==
  ASSUME IInv, NEW p \in Pid,
         SuperviseFails(p) \/ ServiceExits(p) \/ SupervisorKilled(p)
  PROVE  IInv'
<1>1. Kill({p}) /\ UNCHANGED cmds /\ UNCHANGED <<json, marker>>
  BY DEF SuperviseFails, Leaves, ServiceExits, SupervisorKilled
<1>. QED
  BY <1>1, KillDies, DieIInv DEF IInv, FilesOK

(* A command moves on and touches no process.                               *)
LEMMA PlainMove ==
  ASSUME IInv, NEW c \in Cmd, NEW at \in CmdPoints \ {"unprobe", "release", "sclear"},
         Goto(c, at), at \in Working => st[c] \in States \ {None},
         UNCHANGED <<procs, lock>>, FilesOK'
  PROVE  IInv'
<1>1. ProcsOK'
  BY DEF IInv, ProcsOK, procs
<1>2. CmdsOK' /\ KilledOK'
  BY GotoFacts, MoveKilled DEF IInv, procs, Working, ProcsOK, Goto
<1>3. LockOK'
  BY MoveLock, GotoFacts DEF IInv, procs
<1>. QED
  BY <1>1, <1>2, <1>3 DEF IInv

LEMMA ReadMove ==
  ASSUME IInv, NEW c \in Cmd,
         NEW at \in CmdPoints, NEW found \in CmdPoints \ {"unprobe", "release", "sclear", "idle"},
         NEW absent \in CmdPoints \ (Working \cup {"unprobe", "release"}),
         Read(c, at, found, absent)
  PROVE  IInv'
<1>1. ProcsOK' /\ FilesOK' /\ UNCHANGED <<procs, lock>>
  BY DEF IInv, ProcsOK, FilesOK, Read, procs
<1>2. CmdsOK' /\ \A d \in Cmd \ {c} : st'[d] = st[d]
  BY ReadFacts DEF IInv
<1>3. PICK to \in CmdPoints \ {"unprobe", "release", "sclear"} : pc' = [pc EXCEPT ![c] = to]
  BY ReadFacts DEF IInv, Working
<1>4. LockOK' /\ KilledOK'
  BY <1>1, <1>2, <1>3, MoveLock, MoveKilled DEF IInv, procs
<1>. QED
  BY <1>1, <1>2, <1>4 DEF IInv

(* A command signals processes, some of which die of it at once.            *)
LEMMA SignalMove ==
  ASSUME IInv, NEW c \in Cmd, NEW at \in CmdPoints \ {"unprobe", "release"},
         Goto(c, at), at \in Working => st[c] \in States \ {None},
         NEW S \in SUBSET Pid, Die(S), termed' \in SUBSET Pid,
         UNCHANGED <<json, marker>>,
         at = "sclear" => Pids(c) \subseteq S
  PROVE  IInv'
<1>. USE DEF IInv
<1>1. ProcsOK' /\ \A p \in Pid : kind'[p] = IF p \in S THEN "none" ELSE kind[p]
  BY DieFacts
<1>2. /\ CmdsOK' /\ FilesOK'
      /\ pc' = [pc EXCEPT ![c] = at]
      /\ at # "idle" => st' = st
      /\ \A d \in Cmd \ {c} : st'[d] = st[d]
  BY GotoFacts DEF FilesOK
<1>3. LockOK'
  BY <1>2, DieLock DEF LockOK, CmdsOK
<1>4. CASE at # "sclear"
  BY <1>1, <1>2, <1>3, <1>4, MoveKilled
<1>5. CASE at = "sclear"
  <2>. SUFFICES ASSUME NEW d \in Cmd, pc'[d] = "sclear", NEW p \in Pids(d)'
                PROVE  kind'[p] = "none"
    BY <1>1, <1>2, <1>3 DEF KilledOK, Alive
  <2>1. p \in Pids(d) /\ st[d] \in States
    BY <1>2, <1>5 DEF Pids, CmdsOK, Working
  <2>2. p \in Pid
    BY <2>1 DEF Pids, States
  <2>3. CASE d = c
    BY <1>1, <1>5, <2>1, <2>2, <2>3
  <2>4. CASE d # c
    BY <1>1, <1>2, <2>1, <2>2, <2>4 DEF KilledOK, Alive, CmdsOK
  <2>. QED
    BY <2>3, <2>4
<1>. QED
  BY <1>4, <1>5

LEMMA NobodyDies ==
  ASSUME ProcsOK, LockOK, UNCHANGED <<procs, lock>>
  PROVE  Die({}) /\ termed' \in SUBSET Pid
  BY DEF ProcsOK, LockOK, Die, procs

LEMMA StartStep ==
  ASSUME IInv, NEW c \in Cmd,
         \/ StartProbe(c) \/ StartUnprobe(c) \/ StartRead(c) \/ StartTerm(c) \/ StartReap(c)
         \/ StartClear(c) \/ StartUnmark(c) \/ StartSpawn(c)
  PROVE  IInv'
<1>1. CASE StartProbe(c)
  <2>1. CASE lock # None
    BY <1>1, <2>1, PlainMove DEF StartProbe, CmdPoints, Working, IInv, FilesOK
  <2>2. CASE lock = None
    <3>1. Goto(c, "unprobe") /\ lock' = c /\ UNCHANGED <<procs, json, marker>>
      BY <1>1, <2>2 DEF StartProbe
    <3>2. ProcsOK' /\ FilesOK'
      BY <3>1 DEF IInv, ProcsOK, FilesOK, procs
    <3>3. CmdsOK' /\ pc' = [pc EXCEPT ![c] = "unprobe"] /\ \A d \in Cmd \ {c} : st'[d] = st[d]
      BY <3>1, GotoFacts DEF IInv, CmdPoints, Working
    <3>4. KilledOK'
      BY <3>1, <3>3, MoveKilled DEF IInv, procs, CmdPoints
    <3>5. LockOK'
      BY <2>2, <3>1, <3>3, ConstantsAssumption
      DEF IInv, LockOK, SupervisorHoldsLock, Supervising, CmdsOK, procs
    <3>. QED
      BY <3>2, <3>3, <3>4, <3>5 DEF IInv
  <2>. QED
    BY <2>1, <2>2
<1>2. CASE StartUnprobe(c)
  <2>1. Goto(c, "read") /\ lock' = None /\ UNCHANGED <<procs, json, marker>> /\ lock = c
    BY <1>2 DEF StartUnprobe, IInv, LockOK
  <2>2. ProcsOK' /\ FilesOK'
    BY <2>1 DEF IInv, ProcsOK, FilesOK, procs
  <2>3. CmdsOK' /\ pc' = [pc EXCEPT ![c] = "read"] /\ \A d \in Cmd \ {c} : st'[d] = st[d]
    BY <2>1, GotoFacts DEF IInv, CmdPoints, Working
  <2>4. KilledOK'
    BY <2>1, <2>3, MoveKilled DEF IInv, procs, CmdPoints
  <2>5. LockOK'
    BY <2>1, <2>3, ConstantsAssumption
    DEF IInv, LockOK, SupervisorHoldsLock, Supervising, CmdsOK, procs
  <2>. QED
    BY <2>2, <2>3, <2>4, <2>5 DEF IInv
<1>3. CASE StartRead(c)
  BY <1>3, ReadMove DEF StartRead, CmdPoints, Working
<1>4. CASE StartTerm(c)
  <2>1. CASE st[c].fresh /\ Alive(st[c].child)
    <3>1. /\ Term({st[c].child}) /\ Goto(c, "reap") /\ UNCHANGED <<json, marker>>
          /\ st[c] \in States \ {None} /\ st[c].child \in Pid
      BY <1>4, <2>1 DEF StartTerm, IInv, CmdsOK, Working, States
    <3>2. PICK T \in SUBSET {st[c].child} : Die(T) /\ termed' \in SUBSET Pid
      BY <3>1, TermDies DEF IInv
    <3>. QED
      BY <3>1, <3>2, SignalMove DEF CmdPoints
  <2>2. CASE ~(st[c].fresh /\ Alive(st[c].child))
    BY <1>4, <2>2, PlainMove DEF StartTerm, CmdPoints, Working, IInv, FilesOK
  <2>. QED
    BY <2>1, <2>2
<1>5. CASE StartReap(c)
  <2>1. Goto(c, "clear") /\ UNCHANGED <<json, marker>> /\ st[c].child \in Pid
    BY <1>5 DEF StartReap, IInv, CmdsOK, Working, States
  <2>2. CASE Alive(st[c].child)
    BY <1>5, <2>1, <2>2, KillDies, SignalMove DEF StartReap, CmdPoints, Working, IInv
  <2>3. CASE ~Alive(st[c].child)
    BY <1>5, <2>1, <2>3, PlainMove DEF StartReap, CmdPoints, Working, IInv, FilesOK
  <2>. QED
    BY <2>2, <2>3
<1>6. CASE StartClear(c)
  BY <1>6, PlainMove DEF StartClear, CmdPoints, Working, IInv, FilesOK
<1>7. CASE StartUnmark(c)
  BY <1>7, PlainMove DEF StartUnmark, CmdPoints, Working, IInv, FilesOK
<1>8. CASE StartSpawn(c)
  <2>1. PICK p \in Free : /\ kind' = [kind EXCEPT ![p] = "sup"]
                          /\ spc' = [spc EXCEPT ![p] = "claim"]
    BY <1>8 DEF StartSpawn
  <2>2. p \in Pid /\ kind[p] = "none" /\ \A r \in Pid : mine[r] # p
    BY DEF Free, Remembered, Alive
  <2>3. Goto(c, "idle") /\ UNCHANGED <<termed, mine, lock, json, marker>>
    BY <1>8 DEF StartSpawn
  <2>4. ProcsOK' /\ FilesOK'
    BY <2>1, <2>2, <2>3 DEF IInv, ProcsOK, FilesOK, SupPoints
  <2>5. CmdsOK' /\ pc' = [pc EXCEPT ![c] = "idle"] /\ \A d \in Cmd \ {c} : st'[d] = st[d]
    BY <2>3, GotoFacts DEF IInv, CmdPoints, Working
  <2>6. LockOK'
    BY <2>1, <2>2, <2>3, <2>5
    DEF IInv, LockOK, SupervisorHoldsLock, Supervising, ProcsOK, CmdsOK
  <2>7. KilledOK'
    <3>. SUFFICES ASSUME NEW d \in Cmd, pc'[d] = "sclear", NEW q \in Pids(d)'
                  PROVE  kind'[q] = "none"
      BY DEF KilledOK, Alive
    <3>1. pc[d] = "sclear" /\ q \in {st[d].sup, st[d].child} /\ st[d] \in States \ {None}
      BY <2>5 DEF IInv, CmdsOK, Working, Pids
    <3>2. q \in Pid /\ kind[q] = "none" /\ q # p
      BY <3>1 DEF IInv, KilledOK, Pids, Alive, States, Free, Remembered
    <3>. QED
      BY <2>1, <3>2 DEF IInv, ProcsOK
  <2>. QED
    BY <2>4, <2>5, <2>6, <2>7 DEF IInv
<1>. QED
  BY <1>1, <1>2, <1>3, <1>4, <1>5, <1>6, <1>7, <1>8

LEMMA StopStep ==
  ASSUME IInv, NEW c \in Cmd,
         \/ StopRead(c) \/ StopMark(c) \/ StopSignal(c) \/ StopAwait(c) \/ StopClear(c)
  PROVE  IInv'
<1>0. AfterStop(c) \in {"probe", "qread", "idle"}
  BY DEF AfterStop
<1>1. pc[c] \in {"signal", "await"} => Pids(c) \in SUBSET Pid /\ st[c] \in States \ {None}
  BY DEF IInv, CmdsOK, Working, Pids, States
<1>2. CASE StopRead(c)
  BY <1>0, <1>2, ReadMove DEF StopRead, CmdPoints, Working
<1>3. CASE StopMark(c)
  <2>1. st[c] \in States \ {None} /\ UNCHANGED <<procs, lock>> /\ FilesOK'
    BY <1>3 DEF StopMark, IInv, CmdsOK, Working, FilesOK
  <2>2. \E at \in {"signal", "probe", "idle"} : Goto(c, at)
    BY <1>3 DEF StopMark
  <2>. QED
    BY <2>1, <2>2, PlainMove DEF CmdPoints
<1>4. CASE StopSignal(c)
  <2>1. Goto(c, "await") /\ UNCHANGED <<json, marker>> /\ Pids(c) \in SUBSET Pid
        /\ st[c] \in States \ {None}
    BY <1>1, <1>4 DEF StopSignal
  <2>2. \E S \in SUBSET Pids(c) : Die(S) /\ termed' \in SUBSET Pid
    BY <1>4, <2>1, KillDies, TermDies DEF StopSignal, IInv
  <2>. QED
    BY <2>1, <2>2, SignalMove DEF CmdPoints
<1>5. CASE StopAwait(c)
  BY <1>1, <1>5, KillDies, SignalMove DEF StopAwait, CmdPoints, IInv
<1>6. CASE StopClear(c)
  BY <1>0, <1>6, PlainMove DEF StopClear, CmdPoints, Working, IInv, FilesOK
<1>. QED
  BY <1>2, <1>3, <1>4, <1>5, <1>6

LEMMA UpgradeStep ==
  ASSUME IInv, NEW c \in Cmd,
         \/ QuiesceRead(c) \/ QuiesceKill(c) \/ QuiesceClear(c) \/ ReplaceBinary(c)
         \/ RowsRead(c) \/ RowsProbe(c) \/ RowsRelease(c)
  PROVE  IInv'
<1>1. CASE QuiesceRead(c)
  BY <1>1, ReadMove DEF QuiesceRead, CmdPoints, Working
<1>2. CASE QuiesceKill(c)
  <2>1. Goto(c, "qclear") /\ UNCHANGED <<json, marker>> /\ Pids(c) \in SUBSET Pid
    BY <1>2 DEF QuiesceKill, IInv, CmdsOK, Working, Pids, States
  <2>2. CASE st[c].fresh
    BY <1>2, <2>1, <2>2, KillDies, SignalMove DEF QuiesceKill, CmdPoints, Working, IInv
  <2>3. CASE ~st[c].fresh
    BY <1>2, <2>1, <2>3, PlainMove DEF QuiesceKill, CmdPoints, Working, IInv, FilesOK
  <2>. QED
    BY <2>2, <2>3
<1>3. CASE QuiesceClear(c)
  BY <1>3, PlainMove DEF QuiesceClear, CmdPoints, Working, IInv, FilesOK
<1>4. CASE ReplaceBinary(c)
  BY <1>4, PlainMove DEF ReplaceBinary, CmdPoints, Working, IInv, FilesOK
<1>5. CASE RowsRead(c)
  BY <1>5, ReadMove DEF RowsRead, CmdPoints, Working
<1>6. CASE RowsProbe(c)
  <2>1. CASE lock # None
    BY <1>6, <2>1, PlainMove DEF RowsProbe, CmdPoints, Working, IInv, FilesOK
  <2>2. CASE lock = None
    <3>1. Goto(c, "release") /\ lock' = c /\ UNCHANGED <<procs, json, marker>>
      BY <1>6, <2>2 DEF RowsProbe
    <3>2. ProcsOK' /\ FilesOK'
      BY <3>1 DEF IInv, ProcsOK, FilesOK, procs
    <3>3. CmdsOK' /\ pc' = [pc EXCEPT ![c] = "release"] /\ \A d \in Cmd \ {c} : st'[d] = st[d]
      BY <3>1, GotoFacts DEF IInv, CmdPoints, Working
    <3>4. KilledOK'
      BY <3>1, <3>3, MoveKilled DEF IInv, procs, CmdPoints
    <3>5. LockOK'
      BY <2>2, <3>1, <3>3, ConstantsAssumption
      DEF IInv, LockOK, SupervisorHoldsLock, Supervising, CmdsOK, procs
    <3>. QED
      BY <3>2, <3>3, <3>4, <3>5 DEF IInv
  <2>. QED
    BY <2>1, <2>2
<1>7. CASE RowsRelease(c)
  <2>1. Goto(c, "idle") /\ lock' = None /\ UNCHANGED <<procs, json, marker>> /\ lock = c
    BY <1>7 DEF RowsRelease, IInv, LockOK
  <2>2. ProcsOK' /\ FilesOK'
    BY <2>1 DEF IInv, ProcsOK, FilesOK, procs
  <2>3. CmdsOK' /\ pc' = [pc EXCEPT ![c] = "idle"] /\ \A d \in Cmd \ {c} : st'[d] = st[d]
    BY <2>1, GotoFacts DEF IInv, CmdPoints, Working
  <2>4. KilledOK'
    BY <2>1, <2>3, MoveKilled DEF IInv, procs, CmdPoints
  <2>5. LockOK'
    BY <2>1, <2>3, ConstantsAssumption
    DEF IInv, LockOK, SupervisorHoldsLock, Supervising, CmdsOK, procs
  <2>. QED
    BY <2>2, <2>3, <2>4, <2>5 DEF IInv
<1>. QED
  BY <1>1, <1>2, <1>3, <1>4, <1>5, <1>6, <1>7

LEMMA RunStep ==
  ASSUME IInv, plan \in Plans, NEW c \in Cmd, Run(c)
  PROVE  IInv'
<1>1. PICK o \in plan.ops[c] : op' = [op EXCEPT ![c] = o] /\ pc' = [pc EXCEPT ![c] = First(o)]
  BY DEF Run
<1>2. o \in Operations
  BY ConstantsAssumption
<1>3. First(o) \in {"probe", "sread", "look"}
  BY <1>2 DEF First, Operations
<1>4. UNCHANGED <<st, procs, lock, json, marker>>
  BY DEF Run
<1>5. ProcsOK' /\ FilesOK'
  BY <1>4 DEF IInv, ProcsOK, FilesOK, procs
<1>6. CmdsOK'
  BY <1>1, <1>2, <1>3, <1>4 DEF IInv, CmdsOK, CmdPoints, Working
<1>7. LockOK' /\ KilledOK'
  BY <1>1, <1>3, <1>4, MoveLock, MoveKilled DEF IInv, CmdPoints, procs
<1>. QED
  BY <1>5, <1>6, <1>7 DEF IInv

LEMMA InterruptedStep ==
  ASSUME IInv, NEW c \in Cmd, Interrupted(c)
  PROVE  IInv'
<1>1. UNCHANGED <<procs, json, marker>> /\ lock' = IF lock = c THEN None ELSE lock
  BY DEF Interrupted
<1>2. ProcsOK' /\ FilesOK'
  BY <1>1 DEF IInv, ProcsOK, FilesOK, procs
<1>3. CmdsOK' /\ pc' = [pc EXCEPT ![c] = "idle"] /\ \A d \in Cmd \ {c} : st'[d] = st[d]
  BY DEF Interrupted, IInv, CmdsOK, CmdPoints, Working
<1>4. KilledOK'
  BY <1>1, <1>3, MoveKilled DEF IInv, procs, CmdPoints
<1>5. LockOK'
  BY <1>1, <1>3, ConstantsAssumption
  DEF IInv, LockOK, SupervisorHoldsLock, Supervising, CmdsOK, procs
<1>. QED
  BY <1>2, <1>3, <1>4, <1>5 DEF IInv

LEMMA RebootStep ==
  ASSUME IInv, Reboot
  PROVE  IInv'
<1>1. ProcsOK'
  BY ConstantsAssumption DEF Reboot, IInv, ProcsOK, SupPoints
<1>2. FilesOK'
  BY DEF Reboot, IInv, FilesOK, States
<1>3. CmdsOK'
  BY DEF Reboot, CmdsOK, CmdPoints, Working
<1>4. LockOK' /\ KilledOK'
  BY DEF Reboot, LockOK, KilledOK, SupervisorHoldsLock, Supervising
<1>. QED
  BY <1>1, <1>2, <1>3, <1>4 DEF IInv

LEMMA NextIInv == IInv /\ plan \in Plans /\ [Next]_vars => IInv'
<1>. SUFFICES ASSUME IInv, plan \in Plans, [Next]_vars PROVE IInv'
  OBVIOUS
<1>1. ASSUME NEW p \in Pid,
             Supervisor(p) \/ SuperviseFails(p) \/ ServiceExits(p) \/ SupervisorKilled(p)
      PROVE  IInv'
  BY <1>1, SupervisorStep, SupervisorEnds
<1>2. ASSUME NEW c \in Cmd, Run(c) \/ Command(c) \/ Interrupted(c)
      PROVE  IInv'
  BY <1>2, RunStep, StartStep, StopStep, UpgradeStep, InterruptedStep DEF Command
<1>3. CASE Reboot
  BY <1>3, RebootStep
<1>4. CASE UNCHANGED vars
  BY <1>4 DEF vars, procs, cmds, IInv, ProcsOK, FilesOK, CmdsOK, LockOK, KilledOK,
     SupervisorHoldsLock, Supervising, Pids, Alive
<1>. QED
  BY <1>1, <1>2, <1>3, <1>4 DEF Next

LEMMA Invariance == Spec => []IInv
<1>1. Init => plan \in Plans
  BY DEF Init
<1>2. plan \in Plans /\ [Next]_vars => (plan \in Plans)'
  BY DEF Next, vars
<1>. QED
  BY <1>1, <1>2, InitIInv, NextIInv, PTL DEF Spec

(* Every variable of the demon's model keeps its type: in particular a      *)
(* state file always names a supervisor and a child.                        *)
THEOREM TypeCorrect == Spec => []TypeOK
  BY Invariance, IInvTypeOK, PTL

(* claim() is a mutual exclusion: whoever spawns, writes the state file or  *)
(* polls holds <service>.lock, whatever probes, kills, failed writes,       *)
(* interrupted commands and reboots come in between.                        *)
THEOREM OneSupervisor == Spec => []SupervisorHoldsLock
<1>1. IInv => SupervisorHoldsLock
  BY DEF IInv, LockOK
<1>. QED
  BY <1>1, Invariance, PTL

(* stop (and kill, restart, upgrade) drops the state file only when both    *)
(* processes it read there are gone.                                        *)
THEOREM StoppedIsDead == Spec => StopKillsBoth
<1>1. IInv => \A c \in Cmd : pc[c] = "sclear" => \A p \in Pids(c) : ~Alive(p)
  BY DEF IInv, KilledOK
<1>. QED
  BY <1>1, Invariance, PTL DEF StopKillsBoth

-----------------------------------------------------------------------------
(* After a reboot.                                                          *)

StartPoints == {"idle", "probe", "unprobe", "read", "term", "reap", "clear", "unmark", "spawn",
                "look", "rowprobe", "release"}

(* What a state file of this boot names is no stranger, and neither is what *)
(* start read there and is about to signal.                                 *)
FileOK ==
  json # None /\ json.fresh => kind[json.sup] # "other" /\ kind[json.child] # "other"

StartOK(c) ==
  /\ pc[c] \in StartPoints /\ op[c] \in {"none", "interrupted", "start", "status"}
  /\ st[c] # None /\ st[c].fresh => kind[st[c].child] # "other"
  /\ pc[c] = "reap" => st[c].fresh

BootOK == FileOK /\ \A c \in Cmd : StartOK(c)

(* The strangers of a step that is not a reboot.                            *)
Spared == \A p \in Pid : kind'[p] = "other" <=> kind[p] = "other"

LEMMA DieSpared ==
  ASSUME ProcsOK, NEW S \in SUBSET Pid, Die(S), \A p \in S : kind[p] # "other"
  PROVE  Spared
  BY DEF ProcsOK, Die, Spared

LEMMA SparedBoot ==
  ASSUME IInv, BootOK, Spared, UNCHANGED cmds, json' \in {json, None}
  PROVE  BootOK'
<1>1. FileOK'
  BY DEF IInv, FilesOK, States, BootOK, FileOK, Spared
<1>2. \A c \in Cmd : StartOK(c)'
  BY DEF IInv, CmdsOK, States, BootOK, StartOK, Spared, cmds
<1>. QED
  BY <1>1, <1>2 DEF BootOK

LEMMA MoveBoot ==
  ASSUME IInv, BootOK, Spared, NEW c \in Cmd, NEW at \in StartPoints,
         Goto(c, at), at = "reap" => st[c].fresh, json' \in {json, None}
  PROVE  BootOK'
<1>1. FileOK'
  BY DEF IInv, FilesOK, States, BootOK, FileOK, Spared
<1>2. ASSUME NEW d \in Cmd, d # c PROVE StartOK(d)'
  BY <1>2 DEF IInv, CmdsOK, States, BootOK, StartOK, Spared, Goto
<1>3. StartOK(c)'
  <2>1. CASE at = "idle"
    BY <2>1 DEF IInv, CmdsOK, BootOK, StartOK, Goto, StartPoints
  <2>2. CASE at # "idle"
    BY <2>2 DEF IInv, CmdsOK, States, BootOK, StartOK, Spared, Goto
  <2>. QED
    BY <2>1, <2>2
<1>. QED
  BY <1>1, <1>2, <1>3 DEF BootOK

LEMMA ReadBoot ==
  ASSUME IInv, BootOK, NEW c \in Cmd, NEW at \in StartPoints,
         NEW found \in StartPoints \ {"reap"}, NEW absent \in StartPoints \ {"reap"},
         Read(c, at, found, absent)
  PROVE  BootOK' /\ Spared
<1>1. Spared /\ UNCHANGED json
  BY DEF Read, procs, Spared
<1>2. CASE json = None
  BY <1>1, <1>2, MoveBoot DEF Read
<1>3. CASE json # None
  <2>1. FileOK'
    BY <1>1 DEF IInv, FilesOK, States, BootOK, FileOK, Spared
  <2>2. \A d \in Cmd \ {c} : StartOK(d)'
    BY <1>1, <1>3 DEF IInv, CmdsOK, States, BootOK, StartOK, Spared, Read
  <2>3. StartOK(c)'
    BY <1>1, <1>3
    DEF IInv, FilesOK, CmdsOK, States, BootOK, FileOK, StartOK, Spared, Read
  <2>. QED
    BY <1>1, <2>1, <2>2, <2>3 DEF BootOK
<1>. QED
  BY <1>1, <1>2, <1>3

LEMMA ProcessBoot ==
  ASSUME IInv, BootOK, NEW p \in Pid,
         Supervisor(p) \/ SuperviseFails(p) \/ ServiceExits(p) \/ SupervisorKilled(p)
  PROVE  BootOK' /\ Spared
<1>. USE DEF IInv
<1>1. CASE /\ kind[p] \in {"sup", "svc"} /\ Kill({p}) /\ UNCHANGED cmds
           /\ json' \in {json, None}
  BY <1>1, KillDies, DieSpared, SparedBoot
<1>2. CASE Supervise(p) \/ CheckMarker(p)
  <2>1. \/ UNCHANGED <<kind, cmds, json>>
        \/ kind[p] = "sup" /\ Kill({p}) /\ UNCHANGED <<cmds, json>>
    BY <1>2 DEF Supervise, CheckMarker, Leaves
  <2>2. CASE UNCHANGED <<kind, cmds, json>>
    BY <2>2, SparedBoot DEF Spared
  <2>. QED
    BY <1>1, <2>1, <2>2
<1>3. CASE SpawnChild(p)
  <2>1. PICK q \in Free : kind' = [kind EXCEPT ![q] = "svc"]
    BY <1>3 DEF SpawnChild
  <2>2. q \in Pid /\ kind[q] = "none"
    BY DEF Free, Remembered, Alive
  <2>3. Spared
    BY <2>1, <2>2 DEF ProcsOK, Spared
  <2>. QED
    BY <1>3, <2>3, SparedBoot DEF SpawnChild
<1>4. CASE WriteState(p) \/ CountRestart(p)
  <2>1. /\ kind[p] = "sup" /\ mine[p] \in Pid /\ UNCHANGED <<kind, cmds>>
        /\ json' = [sup |-> p, child |-> mine[p], fresh |-> TRUE]
    BY <1>4 DEF WriteState, CountRestart, SupStep, ProcsOK
  <2>2. Spared /\ FileOK'
    BY <2>1 DEF Spared, FileOK, ProcsOK
  <2>3. \A c \in Cmd : StartOK(c)'
    BY <2>1 DEF CmdsOK, BootOK, StartOK, cmds
  <2>. QED
    BY <2>2, <2>3 DEF BootOK
<1>5. CASE Poll(p)
  <2>1. mine[p] \in Pid /\ kind[mine[p]] # "other" /\ UNCHANGED <<json, cmds>>
        /\ kind' \in {kind, [kind EXCEPT ![mine[p]] = "none"]}
    BY <1>5 DEF Poll, SupStep, ProcsOK
  <2>2. Spared
    BY <2>1 DEF Spared, ProcsOK
  <2>. QED
    BY <2>1, <2>2, SparedBoot
<1>6. CASE Leave(p) \/ SuperviseFails(p) \/ ServiceExits(p) \/ SupervisorKilled(p)
  BY <1>1, <1>6 DEF Leave, Leaves, SuperviseFails, ServiceExits, SupervisorKilled
<1>. QED
  BY <1>2, <1>3, <1>4, <1>5, <1>6 DEF Supervisor

LEMMA CommandBoot ==
  ASSUME IInv, BootOK, NEW c \in Cmd, Command(c) \/ Interrupted(c)
  PROVE  BootOK' /\ Spared
<1>. USE DEF IInv
<1>. DEFINE Stand == UNCHANGED kind /\ json' \in {json, None}
<1>1. Stand => Spared
  BY DEF Spared
<1>2. pc[c] \in StartPoints /\ op[c] \in {"none", "interrupted", "start", "status"}
  BY DEF BootOK, StartOK
<1>3. CASE Stand /\ \E at \in StartPoints \ {"reap"} : Goto(c, at)
  BY <1>1, <1>3, MoveBoot
<1>4. CASE StartProbe(c) \/ StartUnprobe(c) \/ StartClear(c) \/ StartUnmark(c)
           \/ RowsRelease(c)
  BY <1>3, <1>4
  DEF StartProbe, StartUnprobe, StartClear, StartUnmark, RowsRelease, StartPoints, procs
<1>5. CASE StartRead(c)
  BY <1>5, ReadBoot DEF StartRead, StartPoints
<1>6. CASE StartTerm(c)
  <2>1. CASE st[c].fresh /\ Alive(st[c].child)
    <3>1. /\ Term({st[c].child}) /\ Goto(c, "reap") /\ UNCHANGED <<json, marker>>
          /\ st[c] \in States \ {None} /\ st[c].child \in Pid
      BY <1>6, <2>1 DEF StartTerm, CmdsOK, Working, States
    <3>2. PICK T \in SUBSET {st[c].child} : Die(T)
      BY <3>1, TermDies
    <3>3. kind[st[c].child] # "other"
      BY <2>1, <3>1 DEF BootOK, StartOK
    <3>4. Spared
      BY <3>1, <3>2, <3>3, DieSpared
    <3>. QED
      BY <2>1, <3>1, <3>4, MoveBoot DEF StartPoints
  <2>2. CASE ~(st[c].fresh /\ Alive(st[c].child))
    BY <1>3, <1>6, <2>2 DEF StartTerm, StartPoints, procs
  <2>. QED
    BY <2>1, <2>2
<1>7. CASE StartReap(c)
  <2>1. /\ Goto(c, "clear") /\ UNCHANGED json /\ st[c] \in States \ {None}
        /\ st[c].child \in Pid /\ st[c].fresh
    BY <1>7 DEF StartReap, CmdsOK, Working, States, BootOK, StartOK
  <2>2. CASE Alive(st[c].child)
    <3>1. kind[st[c].child] # "other"
      BY <2>1 DEF BootOK, StartOK
    <3>2. Spared
      BY <1>7, <2>1, <2>2, <3>1, KillDies, DieSpared DEF StartReap
    <3>. QED
      BY <2>1, <3>2, MoveBoot DEF StartPoints
  <2>3. CASE ~Alive(st[c].child)
    BY <1>3, <1>7, <2>1, <2>3 DEF StartReap, StartPoints, procs
  <2>. QED
    BY <2>2, <2>3
<1>8. CASE StartSpawn(c)
  <2>1. PICK p \in Free : kind' = [kind EXCEPT ![p] = "sup"]
    BY <1>8 DEF StartSpawn
  <2>2. p \in Pid /\ kind[p] = "none"
    BY DEF Free, Remembered, Alive
  <2>3. Spared
    BY <2>1, <2>2 DEF ProcsOK, Spared
  <2>. QED
    BY <1>8, <2>3, MoveBoot DEF StartSpawn, StartPoints
<1>9. CASE RowsRead(c)
  BY <1>9, ReadBoot DEF RowsRead, StartPoints
<1>10. CASE RowsProbe(c)
  BY <1>2, <1>3, <1>10 DEF RowsProbe, StartPoints, procs
<1>11. ~(\/ StopRead(c) \/ StopMark(c) \/ StopSignal(c) \/ StopAwait(c) \/ StopClear(c)
         \/ QuiesceRead(c) \/ QuiesceKill(c) \/ QuiesceClear(c) \/ ReplaceBinary(c))
  BY <1>2 DEF StartPoints, StopRead, StopMark, StopSignal, StopAwait, StopClear,
     QuiesceRead, QuiesceKill, QuiesceClear, ReplaceBinary, Read
<1>12. CASE Interrupted(c)
  <2>1. Spared /\ FileOK'
    BY <1>12 DEF Interrupted, procs, Spared, BootOK, FileOK
  <2>2. \A d \in Cmd : StartOK(d)'
    BY <1>12 DEF Interrupted, procs, CmdsOK, BootOK, StartOK, StartPoints
  <2>. QED
    BY <2>1, <2>2 DEF BootOK
<1>. QED
  BY <1>4, <1>5, <1>6, <1>7, <1>8, <1>9, <1>10, <1>11, <1>12 DEF Command

LEMMA RunBoot ==
  ASSUME IInv, BootOK, NEW c \in Cmd, Run(c), plan.ops[c] \subseteq {"start", "status"}
  PROVE  BootOK' /\ Spared
<1>1. PICK o \in {"start", "status"} :
        op' = [op EXCEPT ![c] = o] /\ pc' = [pc EXCEPT ![c] = First(o)]
  BY DEF Run
<1>2. First(o) \in {"probe", "look"}
  BY DEF First
<1>3. UNCHANGED <<st, kind, json>>
  BY DEF Run, procs
<1>4. \A d \in Cmd : StartOK(d)'
  BY <1>1, <1>2, <1>3 DEF IInv, CmdsOK, BootOK, StartOK, StartPoints
<1>. QED
  BY <1>3, <1>4 DEF BootOK, FileOK, Spared

LEMMA RebootBoot ==
  ASSUME IInv, Reboot
  PROVE  BootOK'
<1>1. FileOK'
  BY DEF Reboot, IInv, FilesOK, States, FileOK
<1>2. \A c \in Cmd : StartOK(c)'
  BY DEF Reboot, StartOK, StartPoints
<1>. QED
  BY <1>1, <1>2 DEF BootOK

LEMMA BootNext ==
  ASSUME IInv, BootOK, OnlyStarts, [Next]_vars
  PROVE  BootOK' /\ (Spared \/ Reboot \/ UNCHANGED vars)
<1>1. CASE UNCHANGED vars
  BY <1>1 DEF vars, procs, cmds, BootOK, FileOK, StartOK
<1>2. ASSUME NEW p \in Pid,
             Supervisor(p) \/ SuperviseFails(p) \/ ServiceExits(p) \/ SupervisorKilled(p)
      PROVE  BootOK' /\ Spared
  BY <1>2, ProcessBoot
<1>3. ASSUME NEW c \in Cmd, Run(c) \/ Command(c) \/ Interrupted(c)
      PROVE  BootOK' /\ Spared
  BY <1>3, CommandBoot, RunBoot DEF OnlyStarts
<1>4. ASSUME Reboot PROVE BootOK'
  BY <1>4, RebootBoot
<1>. QED
  BY <1>1, <1>2, <1>3, <1>4 DEF Next

(* start and status never signal a process that is not rtok's, whatever     *)
(* came to run under the pids of an old state file after a reboot: the look *)
(* at the boot time is enough, however often the machine goes down.         *)
THEOREM StartSparesStrangers == Spec => StartsSpareStrangers
<1> DEFINE Seen == OnlyStarts => BootOK
<1>1. Init => Seen
  BY DEF Init, BootOK, FileOK, StartOK, StartPoints
<1>2. ASSUME IInv, Seen, OnlyStarts, [Next]_vars
      PROVE  BootOK' /\ (Spared \/ Reboot \/ UNCHANGED vars)
  BY <1>2, BootNext
<1>3. [Next]_vars => (OnlyStarts' <=> OnlyStarts)
  BY DEF Next, vars, OnlyStarts
<1>4. Spared => Spares
  BY DEF Spared, Spares
<1>5. IInv /\ Seen /\ [Next]_vars => Seen'
  BY <1>2, <1>3
<1>6. IInv /\ Seen /\ [Next]_vars => [OnlyStarts => Spares]_vars
  BY <1>2, <1>4 DEF Spares
<1>. QED
  BY <1>1, <1>5, <1>6, Invariance, PTL DEF Spec, StartsSpareStrangers

-----------------------------------------------------------------------------
(* One owner.                                                               *)

(* A service belongs to a supervisor that watches it.                       *)
Owns(p, q) == kind[p] = "sup" /\ spc[p] \in {"write", "poll"} /\ mine[p] = q
Owned == \A q \in Pid : kind[q] = "svc" => \E p \in Pid : Owns(p, q)

(* What start is about to signal is a service or gone, never a supervisor.  *)
Kid(s) == s # None /\ s.fresh => kind[s.child] \in {"none", "svc"}
KidsOK == Kid(json) /\ \A c \in Cmd : Kid(st[c])

OwnInv == BootOK /\ Owned /\ KidsOK

(* Supervisors end of their own accord only.                                *)
Healthy == OnlyStarts /\ plan.faults \cap {"io", "killed"} = {}

LEMMA OwnersAgree ==
  ASSUME IInv, NEW p1 \in Pid, NEW p2 \in Pid, NEW q1, NEW q2, Owns(p1, q1),
         kind[p2] = "sup", spc[p2] # "claim"
  PROVE  p1 = p2
BY DEF IInv, LockOK, SupervisorHoldsLock, Supervising, Owns

LEMMA KeepOwned ==
  ASSUME Owned, \A q \in Pid : kind'[q] = "svc" => kind[q] = "svc",
         \A p, q \in Pid : Owns(p, q) /\ kind'[q] = "svc" => Owns(p, q)'
  PROVE  Owned'
BY DEF Owned

(* Whoever dies is not a supervisor with a service.                         *)
LEMMA DieOwned ==
  ASSUME ProcsOK, Owned, NEW S \in SUBSET Pid, Die(S),
         \A p \in S : kind[p] # "sup" \/ spc[p] \notin {"write", "poll"}
  PROVE  Owned'
<1>1. \A p \in Pid : /\ kind'[p] = IF p \in S THEN "none" ELSE kind[p]
                     /\ spc'[p] = IF p \in S THEN "none" ELSE spc[p]
                     /\ mine'[p] = IF p \in S THEN None ELSE mine[p]
  BY DEF Die
<1>. QED
  BY <1>1, KeepOwned DEF Owns

LEMMA ProcessOwned ==
  ASSUME IInv, OwnInv, Healthy, NEW p \in Pid,
         Supervisor(p) \/ SuperviseFails(p) \/ ServiceExits(p) \/ SupervisorKilled(p)
  PROVE  Owned'
<1>. USE DEF IInv, OwnInv
<1>1. CASE Kill({p}) /\ (kind[p] # "sup" \/ spc[p] \notin {"write", "poll"})
  BY <1>1, KillDies, DieOwned
<1>2. CASE Supervise(p) \/ Leave(p) \/ ServiceExits(p)
  <2>1. \/ Kill({p}) /\ (kind[p] # "sup" \/ spc[p] \notin {"write", "poll"})
        \/ spc[p] = "claim" /\ spc' = [spc EXCEPT ![p] = "head"] /\ UNCHANGED <<kind, mine>>
    BY <1>2 DEF Supervise, Leave, Leaves, ServiceExits, SupStep
  <2>2. CASE spc[p] = "claim" /\ spc' = [spc EXCEPT ![p] = "head"] /\ UNCHANGED <<kind, mine>>
    BY <2>2, KeepOwned DEF Owns, ProcsOK
  <2>. QED
    BY <1>1, <2>1, <2>2
<1>3. CASE CheckMarker(p) \/ CountRestart(p)
  <2>1. /\ spc[p] \in {"head", "backoff"} /\ UNCHANGED <<kind, mine>>
        /\ \E at \in {"leave", "fork", "head"} : spc' = [spc EXCEPT ![p] = at]
    BY <1>3 DEF CheckMarker, CountRestart, SupStep
  <2>. QED
    BY <2>1, KeepOwned DEF Owns, ProcsOK
<1>4. CASE WriteState(p)
  <2>1. spc[p] = "write" /\ UNCHANGED <<kind, mine>> /\ spc' = [spc EXCEPT ![p] = "poll"]
    BY <1>4 DEF WriteState, SupStep
  <2>. QED
    BY <2>1, KeepOwned DEF Owns, ProcsOK
<1>5. CASE SpawnChild(p)
  <2>1. PICK q \in Free : /\ kind' = [kind EXCEPT ![q] = "svc"] /\ mine' = [mine EXCEPT ![p] = q]
                          /\ kind[p] = "sup" /\ spc[p] = "fork"
                          /\ spc' = [spc EXCEPT ![p] = "write"]
    BY <1>5 DEF SpawnChild, SupStep
  <2>2. q \in Pid /\ q # p
    BY <2>1 DEF Free, Remembered, Alive
  <2>3. ASSUME NEW r \in Pid PROVE kind[r] # "svc"
    <3>1. SUFFICES ASSUME kind[r] = "svc" PROVE FALSE
      OBVIOUS
    <3>2. PICK o \in Pid : Owns(o, r)
      BY <3>1 DEF Owned
    <3>3. o = p
      BY <2>1, <3>2, OwnersAgree
    <3>. QED
      BY <2>1, <3>2, <3>3 DEF Owns
  <2>4. Owns(p, q)'
    BY <2>1, <2>2 DEF Owns, ProcsOK
  <2>5. ASSUME NEW r \in Pid, kind'[r] = "svc" PROVE r = q
    BY <2>1, <2>3, <2>5 DEF ProcsOK
  <2>. QED
    BY <2>4, <2>5 DEF Owned
<1>6. CASE Poll(p)
  <2>1. /\ kind[p] = "sup" /\ spc[p] = "poll" /\ mine[p] \in Pid /\ mine' = mine /\ mine[p] # p
        /\ \E at \in {"leave", "backoff"} : spc' = [spc EXCEPT ![p] = at]
        /\ kind' = [kind EXCEPT ![mine[p]] = "none"]
    <3>1. kind[p] = "sup" /\ spc[p] = "poll" /\ mine' = mine
      BY <1>6 DEF Poll, SupStep
    <3>2. mine[p] \in Pid /\ kind[mine[p]] \in {"none", "svc"}
      BY <3>1 DEF ProcsOK
    <3>. QED
      BY <1>6, <3>1, <3>2 DEF Poll, SupStep, Alive, ProcsOK
  <2>. QED
    BY <2>1, KeepOwned DEF Owns, ProcsOK
<1>7. ~SuperviseFails(p) /\ ~SupervisorKilled(p)
  BY DEF Healthy, SuperviseFails, SupervisorKilled
<1>. QED
  BY <1>2, <1>3, <1>4, <1>5, <1>6, <1>7 DEF Supervisor

(* What a command of these plans does to the processes.                     *)
LEMMA CommandOwned ==
  ASSUME IInv, OwnInv, NEW c \in Cmd, Command(c) \/ Interrupted(c) \/ Run(c)
  PROVE  Owned'
<1>. USE DEF IInv, OwnInv
<1>1. pc[c] \in StartPoints
  BY DEF BootOK, StartOK
<1>2. CASE UNCHANGED procs
  BY <1>2, KeepOwned DEF procs, Owns
<1>3. CASE StartTerm(c) \/ StartReap(c)
  <2>1. /\ st[c] \in States \ {None} /\ st[c].child \in Pid
        /\ \/ UNCHANGED procs
           \/ st[c].fresh /\ (Term({st[c].child}) \/ Kill({st[c].child}))
    BY <1>3 DEF StartTerm, StartReap, CmdsOK, Working, States, BootOK, StartOK
  <2>2. CASE st[c].fresh /\ (Term({st[c].child}) \/ Kill({st[c].child}))
    <3>1. kind[st[c].child] \in {"none", "svc"}
      BY <2>1, <2>2 DEF KidsOK, Kid
    <3>2. \E T \in SUBSET {st[c].child} : Die(T)
      BY <2>1, <2>2, KillDies, TermDies
    <3>. QED
      BY <2>1, <3>1, <3>2, DieOwned
  <2>. QED
    BY <1>2, <2>1, <2>2
<1>4. CASE StartSpawn(c)
  <2>1. PICK p \in Free : /\ kind' = [kind EXCEPT ![p] = "sup"] /\ spc' = [spc EXCEPT ![p] = "claim"]
                          /\ mine' = mine
    BY <1>4 DEF StartSpawn
  <2>2. p \in Pid /\ kind[p] = "none"
    BY DEF Free, Remembered, Alive
  <2>. QED
    BY <2>1, <2>2, KeepOwned DEF Owns, ProcsOK
<1>5. ~(\/ StopRead(c) \/ StopMark(c) \/ StopSignal(c) \/ StopAwait(c) \/ StopClear(c)
        \/ QuiesceRead(c) \/ QuiesceKill(c) \/ QuiesceClear(c) \/ ReplaceBinary(c))
  BY <1>1 DEF StartPoints, StopRead, StopMark, StopSignal, StopAwait, StopClear,
     QuiesceRead, QuiesceKill, QuiesceClear, ReplaceBinary, Read
<1>. QED
  BY <1>2, <1>3, <1>4, <1>5
  DEF Command, Interrupted, Run, StartProbe, StartUnprobe, StartRead, StartClear, StartUnmark,
      RowsRead, RowsProbe, RowsRelease, Read

(* A pid that a state file names is not handed out again: whoever runs      *)
(* under it then runs under it now.                                         *)
Births == \A q \in Pid : kind'[q] \in {kind[q], "none"} \/ q \in Free

LEMMA KidsStay ==
  ASSUME IInv, KidsOK, Births, \A c \in Cmd : st'[c] \in {st[c], json, None},
         \/ json' \in {json, None}
         \/ \E p \in Pid : /\ mine[p] \in Pid /\ UNCHANGED kind
                           /\ json' = [sup |-> p, child |-> mine[p], fresh |-> TRUE]
  PROVE  KidsOK'
<1>1. ASSUME NEW s \in {json} \cup {st[c] : c \in Cmd}, s # None, s.fresh
      PROVE  kind'[s.child] \in {"none", "svc"}
  <2>1. s.child \in Pid
    BY <1>1 DEF IInv, FilesOK, CmdsOK, States
  <2>2. s.child \notin Free
    BY <1>1, <2>1 DEF Free, Remembered
  <2>3. kind[s.child] \in {"none", "svc"}
    BY <1>1 DEF KidsOK, Kid
  <2>. QED
    BY <2>1, <2>2, <2>3 DEF Births
<1>2. \A c \in Cmd : Kid(st[c])'
  BY <1>1 DEF Kid
<1>3. CASE json' \in {json, None}
  BY <1>1, <1>2, <1>3 DEF KidsOK, Kid
<1>4. ASSUME NEW p \in Pid, mine[p] \in Pid, UNCHANGED kind,
             json' = [sup |-> p, child |-> mine[p], fresh |-> TRUE]
      PROVE  KidsOK'
  <2>1. kind'[mine[p]] \in {"none", "svc"}
    BY <1>4 DEF IInv, ProcsOK
  <2>. QED
    BY <1>2, <1>4, <2>1 DEF KidsOK, Kid
<1>. QED
  BY <1>3, <1>4

LEMMA DieBirths ==
  ASSUME ProcsOK, NEW S \in SUBSET Pid, Die(S)
  PROVE  Births
BY DEF Die, Births

LEMMA GotoReads ==
  ASSUME CmdsOK, NEW c \in Cmd, NEW at, Goto(c, at)
  PROVE  \A d \in Cmd : st'[d] \in {st[d], json, None}
BY DEF Goto, CmdsOK

LEMMA ProcessKids ==
  ASSUME IInv, KidsOK, NEW p \in Pid,
         Supervisor(p) \/ SuperviseFails(p) \/ ServiceExits(p) \/ SupervisorKilled(p)
  PROVE  KidsOK'
<1>. USE DEF IInv
<1>1. UNCHANGED st
  BY DEF Supervisor, Supervise, CheckMarker, SpawnChild, WriteState, Poll, CountRestart, Leave,
         Leaves, SuperviseFails, ServiceExits, SupervisorKilled, cmds
<1>2. CASE json' \in {json, None} /\ (UNCHANGED kind \/ Kill({p}))
  <2>1. Births
    BY <1>2, KillDies, DieBirths DEF Births
  <2>. QED
    BY <1>1, <1>2, <2>1, KidsStay
<1>3. CASE SpawnChild(p)
  <2>1. Births /\ json' = json
    BY <1>3 DEF SpawnChild, Births, Free, ProcsOK
  <2>. QED
    BY <1>1, <2>1, KidsStay
<1>4. CASE WriteState(p) \/ CountRestart(p)
  <2>1. /\ kind[p] = "sup" /\ mine[p] \in Pid /\ UNCHANGED kind
        /\ json' = [sup |-> p, child |-> mine[p], fresh |-> TRUE]
    BY <1>4 DEF WriteState, CountRestart, SupStep, ProcsOK
  <2>2. Births
    BY <2>1 DEF Births
  <2>. QED
    BY <1>1, <2>1, <2>2, KidsStay
<1>5. CASE Poll(p)
  <2>1. json' = json /\ kind' \in {kind, [kind EXCEPT ![mine[p]] = "none"]}
    BY <1>5 DEF Poll
  <2>2. Births
    BY <2>1 DEF Births, ProcsOK
  <2>. QED
    BY <1>1, <2>1, <2>2, KidsStay
<1>. QED
  BY <1>2, <1>3, <1>4, <1>5
  DEF Supervisor, Supervise, CheckMarker, Leave, Leaves, SuperviseFails, ServiceExits,
      SupervisorKilled

LEMMA CommandKids ==
  ASSUME IInv, OwnInv, NEW c \in Cmd, Command(c) \/ Interrupted(c) \/ Run(c)
  PROVE  KidsOK'
<1>. USE DEF IInv, OwnInv
<1>1. pc[c] \in StartPoints
  BY DEF BootOK, StartOK
<1>2. CASE /\ UNCHANGED kind /\ json' \in {json, None}
           /\ \/ \E at : Goto(c, at)
              \/ UNCHANGED st
              \/ st' \in {[st EXCEPT ![c] = json], [st EXCEPT ![c] = None]}
  <2>1. Births /\ \A d \in Cmd : st'[d] \in {st[d], json, None}
    BY <1>2, GotoReads DEF Births, CmdsOK
  <2>. QED
    BY <1>2, <2>1, KidsStay
<1>3. CASE StartTerm(c) \/ StartReap(c)
  <2>1. /\ st[c] \in States \ {None} /\ st[c].child \in Pid /\ json' = json
        /\ UNCHANGED kind \/ Term({st[c].child}) \/ Kill({st[c].child})
        /\ \E at : Goto(c, at)
    BY <1>3 DEF StartTerm, StartReap, CmdsOK, Working, States, procs
  <2>2. Births
    BY <2>1, KillDies, TermDies, DieBirths DEF Births
  <2>3. \A d \in Cmd : st'[d] \in {st[d], json, None}
    BY <2>1, GotoReads
  <2>. QED
    BY <2>1, <2>2, <2>3, KidsStay
<1>4. CASE StartSpawn(c)
  <2>1. Births /\ json' = json /\ Goto(c, "idle")
    BY <1>4 DEF StartSpawn, Births, Free, ProcsOK
  <2>2. \A d \in Cmd : st'[d] \in {st[d], json, None}
    BY <2>1, GotoReads
  <2>. QED
    BY <2>1, <2>2, KidsStay
<1>5. ~(\/ StopRead(c) \/ StopMark(c) \/ StopSignal(c) \/ StopAwait(c) \/ StopClear(c)
        \/ QuiesceRead(c) \/ QuiesceKill(c) \/ QuiesceClear(c) \/ ReplaceBinary(c))
  BY <1>1 DEF StartPoints, StopRead, StopMark, StopSignal, StopAwait, StopClear,
     QuiesceRead, QuiesceKill, QuiesceClear, ReplaceBinary, Read
<1>6. CASE Interrupted(c) \/ Run(c)
  BY <1>2, <1>6 DEF Interrupted, Run, procs
<1>7. CASE StartRead(c) \/ RowsRead(c)
  BY <1>2, <1>7 DEF StartRead, RowsRead, Read, procs
<1>8. CASE StartProbe(c) \/ StartUnprobe(c) \/ StartClear(c) \/ StartUnmark(c)
           \/ RowsProbe(c) \/ RowsRelease(c)
  <2>1. UNCHANGED kind /\ json' \in {json, None} /\ \E at : Goto(c, at)
    BY <1>8 DEF StartProbe, StartUnprobe, StartClear, StartUnmark, RowsProbe, RowsRelease, procs
  <2>. QED
    BY <1>2, <2>1
<1>. QED
  BY <1>3, <1>4, <1>5, <1>6, <1>7, <1>8 DEF Command

LEMMA OwnNext ==
  ASSUME IInv, OwnInv, Healthy, [Next]_vars
  PROVE  OwnInv'
<1>1. BootOK'
  BY BootNext DEF OwnInv, Healthy
<1>2. CASE UNCHANGED vars
  BY <1>1, <1>2 DEF OwnInv, Owned, Owns, KidsOK, Kid, vars, procs, cmds
<1>3. ASSUME NEW p \in Pid,
             Supervisor(p) \/ SuperviseFails(p) \/ ServiceExits(p) \/ SupervisorKilled(p)
      PROVE  OwnInv'
  BY <1>1, <1>3, ProcessOwned, ProcessKids DEF OwnInv
<1>4. ASSUME NEW c \in Cmd, Run(c) \/ Command(c) \/ Interrupted(c)
      PROVE  OwnInv'
  BY <1>1, <1>4, CommandOwned, CommandKids DEF OwnInv
<1>5. CASE Reboot
  <2>1. Owned'
    BY <1>5 DEF Reboot, Owned
  <2>2. KidsOK'
    BY <1>5 DEF Reboot, KidsOK, Kid, IInv, FilesOK, States
  <2>. QED
    BY <1>1, <2>1, <2>2 DEF OwnInv
<1>. QED
  BY <1>2, <1>3, <1>4, <1>5 DEF Next

(* One service at a time, if supervisors are not killed from outside and do *)
(* not fail on a file: one that is, or does, leaves its child behind, and a *)
(* start that comes before the state file is written cannot know of it.     *)
THEOREM OneOwnerAtATime ==
  ASSUME \A pl \in Plans : pl.faults \cap {"io", "killed"} = {}
  PROVE  Spec => []OneOwner
<1> DEFINE Inv == plan \in Plans /\ (OnlyStarts => OwnInv)
<1>1. Init => Inv
  BY DEF Init, OwnInv, BootOK, FileOK, StartOK, StartPoints, Owned, KidsOK, Kid
<1>2. IInv /\ Inv /\ [Next]_vars => Inv'
  <2>1. [Next]_vars => plan' = plan /\ (OnlyStarts' <=> OnlyStarts)
    BY DEF Next, vars, OnlyStarts
  <2>. QED
    BY <2>1, OwnNext DEF Healthy
<1>3. IInv /\ Inv => OneOwner
  <2>. SUFFICES ASSUME IInv, OwnInv PROVE Cardinality(Services) <= 1
    BY DEF OneOwner
  <2>1. ASSUME NEW q1 \in Services, NEW q2 \in Services PROVE q1 = q2
    <3>1. PICK p1 \in Pid : Owns(p1, q1)
      BY DEF OwnInv, Owned, Services
    <3>2. PICK p2 \in Pid : Owns(p2, q2)
      BY DEF OwnInv, Owned, Services
    <3>3. p1 = p2
      BY <3>1, <3>2, OwnersAgree DEF Owns
    <3>. QED
      BY <3>1, <3>2, <3>3 DEF Owns
  <2>2. CASE Services = {}
    BY <2>2, FS_EmptySet
  <2>3. ASSUME NEW q \in Services PROVE Cardinality(Services) <= 1
    <3>1. Services = {q}
      BY <2>1
    <3>2. Cardinality({q}) = 1
      BY FS_Singleton
    <3>. QED
      BY <3>1, <3>2
  <2>. QED
    BY <2>2, <2>3
<1>. QED
  BY <1>1, <1>2, <1>3, Invariance, PTL DEF Spec
-----------------------------------------------------------------------------
(* Children of a supervisor.                                                *)

(* Who is about to spawn, to count a restart or to leave has no child that  *)
(* runs, and who is not yet or no more a supervisor has none at all.        *)
Childless(p) ==
  /\ spc[p] \in {"none", "claim"} => mine[p] = None
  /\ spc[p] \in {"head", "fork", "backoff", "leave"} => mine[p] = None \/ ~Alive(mine[p])

AllChildless == \A p \in Pid : Childless(p)

(* A pid that a supervisor remembers as its child's is nobody else's.       *)
LEMMA DeadStayDead ==
  ASSUME IInv, Births, NEW p \in Pid, mine[p] \in Pid, ~Alive(mine[p])
  PROVE  ~Alive(mine[p])'  \/ mine'[p] # mine[p]
<1>1. mine[p] \notin Free
  BY DEF Free, Remembered
<1>2. kind'[mine[p]] = "none"
  BY <1>1 DEF Births, Alive
<1>. QED
  BY <1>2 DEF Alive

(* Deaths, and steps of others.                                             *)
LEMMA KeepChildless ==
  ASSUME IInv, Births, NEW p \in Pid, Childless(p),
         \/ spc'[p] = spc[p] /\ mine'[p] = mine[p]
         \/ spc'[p] = "none" /\ mine'[p] = None
  PROVE  Childless(p)'
<1>1. CASE spc'[p] = "none" /\ mine'[p] = None
  BY <1>1 DEF Childless
<1>2. CASE spc'[p] = spc[p] /\ mine'[p] = mine[p]
  <2>1. CASE mine[p] = None
    BY <1>2, <2>1 DEF Childless
  <2>2. CASE mine[p] \in Pid
    BY <1>2, <2>2, DeadStayDead, ConstantsAssumption DEF Childless, Alive
  <2>. QED
    BY <2>1, <2>2 DEF IInv, ProcsOK
<1>. QED
  BY <1>1, <1>2

LEMMA DieChildless ==
  ASSUME IInv, AllChildless, NEW S \in SUBSET Pid, Die(S)
  PROVE  AllChildless'
<1>1. \A p \in Pid : \/ spc'[p] = spc[p] /\ mine'[p] = mine[p]
                     \/ spc'[p] = "none" /\ mine'[p] = None
  BY DEF Die
<1>2. Births
  BY DieBirths DEF IInv
<1>. QED
  BY <1>1, <1>2, KeepChildless DEF AllChildless

LEMMA SupervisorChildless ==
  ASSUME IInv, AllChildless, NEW p \in Pid, Supervisor(p)
  PROVE  AllChildless'
<1>. USE DEF IInv
<1>1. CASE Kill({p})
  BY <1>1, DieChildless DEF Kill
<1>2. ASSUME Births, \A r \in Pid \ {p} : spc'[r] = spc[r] /\ mine'[r] = mine[r], Childless(p)'
      PROVE  AllChildless'
  BY <1>2, KeepChildless DEF AllChildless
<1>3. CASE SpawnChild(p)
  <2>1. Births /\ \A r \in Pid \ {p} : spc'[r] = spc[r] /\ mine'[r] = mine[r]
    BY <1>3 DEF SpawnChild, SupStep, Births, Free, ProcsOK
  <2>2. spc'[p] = "write"
    BY <1>3 DEF SpawnChild, SupStep, ProcsOK
  <2>. QED
    BY <1>2, <2>1, <2>2 DEF Childless
<1>4. CASE Poll(p)
  <2>1. /\ spc[p] = "poll" /\ mine[p] \in Pid /\ mine' = mine
        /\ kind' \in {kind, [kind EXCEPT ![mine[p]] = "none"]}
    BY <1>4 DEF Poll, SupStep, ProcsOK
  <2>2. Births /\ kind'[mine[p]] = "none"
    BY <1>4, <2>1 DEF Poll, Births, Alive, ProcsOK
  <2>3. spc'[p] \in {"leave", "backoff"} /\ \A r \in Pid \ {p} : spc'[r] = spc[r]
    BY <1>4 DEF Poll, SupStep, ProcsOK
  <2>. QED
    BY <1>2, <2>1, <2>2, <2>3 DEF Childless, Alive
<1>5. CASE WriteState(p) \/ CheckMarker(p) \/ CountRestart(p)
  <2>1. UNCHANGED <<kind, mine>> /\ \A r \in Pid \ {p} : spc'[r] = spc[r]
    BY <1>5 DEF WriteState, CheckMarker, CountRestart, SupStep, ProcsOK
  <2>2. \/ spc'[p] = "poll"
        \/ spc[p] \in {"head", "backoff"} /\ spc'[p] \in {"head", "fork", "leave"}
    BY <1>5 DEF WriteState, CheckMarker, CountRestart, SupStep, ProcsOK
  <2>3. Births /\ Childless(p)'
    BY <2>1, <2>2 DEF Births, AllChildless, Childless, Alive
  <2>. QED
    BY <1>2, <2>1, <2>3
<1>6. CASE Supervise(p) /\ ~Kill({p})
  <2>1. /\ UNCHANGED <<kind, mine>> /\ spc[p] = "claim" /\ spc'[p] = "head"
        /\ \A r \in Pid \ {p} : spc'[r] = spc[r]
    BY <1>6 DEF Supervise, Leaves, SupStep, ProcsOK
  <2>2. Births /\ Childless(p)'
    BY <2>1 DEF Births, AllChildless, Childless
  <2>. QED
    BY <1>2, <2>1, <2>2
<1>. QED
  BY <1>1, <1>3, <1>4, <1>5, <1>6 DEF Supervisor, Leave, Leaves

LEMMA CommandChildless ==
  ASSUME IInv, AllChildless, NEW c \in Cmd, Run(c) \/ Command(c) \/ Interrupted(c)
  PROVE  AllChildless'
<1>. USE DEF IInv
<1>1. CASE UNCHANGED procs
  <2>1. Births
    BY <1>1 DEF Births, procs
  <2>. QED
    BY <1>1, <2>1, KeepChildless DEF AllChildless, procs
<1>2. ASSUME NEW S \in SUBSET Pid, Kill(S) \/ Term(S)
      PROVE  AllChildless'
  <2>1. \E T \in SUBSET Pid : Die(T)
    BY <1>2, TermDies DEF Kill
  <2>. QED
    BY <2>1, DieChildless
<1>3. CASE StartTerm(c) \/ StartReap(c)
  <2>1. st[c].child \in Pid
    BY <1>3 DEF StartTerm, StartReap, CmdsOK, Working, States
  <2>. QED
    BY <1>1, <1>2, <1>3, <2>1 DEF StartTerm, StartReap
<1>4. CASE StopSignal(c) \/ StopAwait(c) \/ QuiesceKill(c)
  <2>1. Pids(c) \subseteq Pid
    BY <1>4 DEF StopSignal, StopAwait, QuiesceKill, CmdsOK, Working, States, Pids
  <2>. QED
    BY <1>1, <1>2, <1>4, <2>1 DEF StopSignal, StopAwait, QuiesceKill
<1>5. CASE StartSpawn(c)
  <2>1. PICK p \in Free : /\ kind' = [kind EXCEPT ![p] = "sup"]
                         /\ spc' = [spc EXCEPT ![p] = "claim"]
    BY <1>5 DEF StartSpawn
  <2>2. p \in Pid /\ kind[p] = "none" /\ mine' = mine
    BY <1>5 DEF StartSpawn, Free, Remembered, Alive
  <2>3. Births
    BY <2>1, <2>2 DEF Births, ProcsOK
  <2>4. mine[p] = None
    BY <2>2 DEF AllChildless, Childless, ProcsOK
  <2>5. \A r \in Pid \ {p} : Childless(r)'
    BY <2>1, <2>2, <2>3, KeepChildless DEF AllChildless, ProcsOK
  <2>6. Childless(p)'
    BY <2>1, <2>2, <2>4 DEF Childless, ProcsOK
  <2>. QED
    BY <2>5, <2>6 DEF AllChildless
<1>6. CASE \/ Run(c) \/ Interrupted(c) \/ StartProbe(c) \/ StartUnprobe(c) \/ StartRead(c)
           \/ StartClear(c) \/ StartUnmark(c) \/ StopRead(c) \/ StopMark(c) \/ StopClear(c)
           \/ QuiesceRead(c) \/ QuiesceClear(c) \/ ReplaceBinary(c)
           \/ RowsRead(c) \/ RowsProbe(c) \/ RowsRelease(c)
  <2>1. UNCHANGED procs
    BY <1>6 DEF Run, Interrupted, StartProbe, StartUnprobe, StartRead, StartClear, StartUnmark,
       StopRead, StopMark, StopClear, QuiesceRead, QuiesceClear, ReplaceBinary, RowsRead,
       RowsProbe, RowsRelease, Read
  <2>. QED
    BY <1>1, <2>1
<1>. QED
  BY <1>3, <1>4, <1>5, <1>6 DEF Command

LEMMA NextChildless == IInv /\ AllChildless /\ [Next]_vars => AllChildless'
<1>. SUFFICES ASSUME IInv, AllChildless, [Next]_vars PROVE AllChildless'
  OBVIOUS
<1>1. ASSUME NEW p \in Pid, SuperviseFails(p) \/ ServiceExits(p) \/ SupervisorKilled(p)
      PROVE  AllChildless'
  BY <1>1, DieChildless DEF SuperviseFails, ServiceExits, SupervisorKilled, Leaves, Kill
<1>2. CASE Reboot
  BY <1>2 DEF Reboot, AllChildless, Childless
<1>3. CASE UNCHANGED vars
  BY <1>3 DEF vars, procs, AllChildless, Childless, Alive
<1>. QED
  BY <1>1, <1>2, <1>3, SupervisorChildless, CommandChildless DEF Next

(* A supervisor has one child at a time, and one that leaves, for the       *)
(* marker or because it lost the lock, has none: what it spawned last has   *)
(* exited or was killed and reaped, and the pid that it still remembers is  *)
(* nobody else's.  It is what MarkerStops needs beside fairness to mean     *)
(* that the service is down.                                                *)
THEOREM LeavesNoOrphan == Spec => []AllChildless
<1>1. Init => AllChildless
  BY DEF Init, AllChildless, Childless
<1>. QED
  BY <1>1, NextChildless, Invariance, PTL DEF Spec
=============================================================================
