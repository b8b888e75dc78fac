------------------------------- MODULE Worktree -------------------------------
(***************************************************************************)
(* Agents that share git worktrees (src/worktree): `rtok worktree add,     *)
(* claim, adopt, remove` and `gc` for one worktree path, one git command   *)
(* at a time.  Who holds the worktree is in the reason of its git lock,    *)
(* `<owner> | <task> | <date> | agent <id>`; the worktree_claims row of    *)
(* the store repeats it.  git is external: each of its commands is atomic  *)
(* and refuses what git refuses (to unlock what is not locked, to lock     *)
(* twice, to remove a locked or dirty worktree, to delete a branch that is *)
(* checked out).                                                           *)
(***************************************************************************)
EXTENDS Naturals, FiniteSets

CONSTANTS
  Agent,     \* rtok agents; each runs one command at a time
  Gc,        \* the process that runs `rtok worktree gc --yes`
  Owner,     \* owner names, `<host> / <model>`
  OwnerOf,   \* the owner name of an agent: agents may share one
  GcOwner,   \* --owner of gc, or None
  None,
  Ops,       \* Ops[a]: what agent a runs
  Faults,    \* "crash": a command dies; "claim": a row is not written;
             \* "registry": the live agents cannot be read
  Alone      \* gc, and whatever meets a lock without an agent, overlaps with nothing

Proc == Agent \cup {Gc}
Operations == {"add", "addplain", "claim", "adopt", "remove", "keep"}

ASSUME ConstantsAssumption ==
  /\ None \notin Proc \cup Owner \cup [owner: Owner, agent: Agent \cup {None}]
  /\ Gc \notin Agent
  /\ OwnerOf \in [Agent -> Owner]
  /\ GcOwner \in Owner \cup {None}
  /\ Ops \in [Agent -> SUBSET Operations]
  /\ Faults \subseteq {"crash", "claim", "registry"}
  /\ Alone \in BOOLEAN

VARIABLES
  reg,      \* git has a record of the worktree
  dir,      \* its directory exists
  dirty,    \* with uncommitted or untracked files
  detached, \* HEAD is not on the branch
  branch,   \* the branch exists
  merged,   \* merging HEAD into the base would change nothing
  lock,     \* the git lock, or None
  claim,    \* the agent of the open worktree_claims row, or None
  evicting, \* the path lies in a pool whose host deletes its worktrees
  live,     \* agents the registry calls live
  pc, op, snap,  \* per process: where it is, what it runs, what it read
  holds,    \* history: agents whose last add or claim reported success
  overlap   \* history: two commands have overlapped

tree  == <<reg, dir, dirty, detached, branch, merged>>
procs == <<pc, op, snap>>
vars  == <<tree, lock, claim, evicting, live, procs, holds, overlap>>

Locks == [owner: Owner, agent: Agent \cup {None}]

(* What a command keeps of git's list, of the merge check and, in gc, of    *)
(* the registry.                                                            *)
Snaps == [lock: Locks \cup {None}, drop: BOOLEAN, live: SUBSET Agent]
NoSnap == [lock |-> None, drop |-> FALSE, live |-> {}]

Points == {"idle", "check", "create", "list", "unlock", "lock", "relock", "remember",
           "survey", "dunlock", "dremove", "drelock", "dbranch", "release", "decide"}

TypeOK ==
  /\ {reg, dir, dirty, detached, branch, merged, evicting, overlap} \subseteq BOOLEAN
  /\ lock \in Locks \cup {None}
  /\ claim \in Agent \cup {None}
  /\ live \in SUBSET Agent
  /\ pc \in [Proc -> Points]
  /\ op \in [Proc -> Operations \cup {"gc", "none"}]
  /\ snap \in [Proc -> Snaps]
  /\ holds \in SUBSET Agent

(* No worktree yet, or one that a human or a host made, without a lock.     *)
Init ==
  /\ reg \in BOOLEAN /\ dir = reg /\ branch = reg
  /\ detached \in BOOLEAN /\ merged = TRUE /\ dirty = FALSE
  /\ lock = None /\ claim = None
  /\ evicting \in BOOLEAN
  /\ live = Agent
  /\ pc = [p \in Proc |-> "idle"]
  /\ op = [p \in Proc |-> "none"]
  /\ snap = [p \in Proc |-> NoSnap]
  /\ holds = {} /\ overlap = FALSE

-----------------------------------------------------------------------------
Goto(p, at) ==
  /\ pc' = [pc EXCEPT ![p] = at]
  /\ op' = IF at = "idle" THEN [op EXCEPT ![p] = "none"] ELSE op
  /\ snap' = IF at = "idle" THEN [snap EXCEPT ![p] = NoSnap] ELSE snap

Read(p, at, s) ==
  /\ pc' = [pc EXCEPT ![p] = at]
  /\ snap' = [snap EXCEPT ![p] = s]
  /\ UNCHANGED op

Plain(l) == l # None /\ l.agent = None

(* claimable_by: no lock, this agent's, or a plain one of this owner.       *)
ClaimableBy(l, a) ==
  \/ l = None
  \/ l.agent = a
  \/ Plain(l) /\ l.owner = OwnerOf[a]

(* Broken variant: the owner name is enough, whoever the lock is bound to.  *)
ClaimableByOwner(l, a) == l = None \/ l.owner = OwnerOf[a]

(* held_against.                                                            *)
HeldAgainst(l, o) == l # None /\ l.owner # o

Solo(o) == o \in {"gc", "addplain"} \/ Plain(lock)

Begin(p, o, at) ==
  /\ pc[p] = "idle"
  /\ Alone => /\ Solo(o) => \A q \in Proc : pc[q] = "idle"
              /\ \A q \in Proc : op[q] \notin {"gc", "addplain"} /\ ~Plain(snap[q].lock)
  /\ pc' = [pc EXCEPT ![p] = at]
  /\ op' = [op EXCEPT ![p] = o]
  /\ overlap' = (overlap \/ \E q \in Proc : pc[q] # "idle")
  /\ UNCHANGED <<snap, tree, lock, claim, evicting, live, holds>>

Start(a) ==
  /\ a \in live
  /\ \E o \in Ops[a] :
       Begin(a, o, CASE o \in {"add", "addplain"} -> "check"
                     [] o \in {"claim", "adopt"}  -> "list"
                     [] o \in {"remove", "keep"}  -> "survey")

-----------------------------------------------------------------------------
(* git worktree lock, unlock, remove; branch -D.                            *)

CanLock   == reg /\ lock = None
CanUnlock == reg /\ lock # None
CanRemove == reg /\ lock = None /\ ~dirty
CanDelete == branch /\ (detached \/ ~reg)

-----------------------------------------------------------------------------
(* add: one worktree per task.                                              *)

AddCheck(a) ==
  /\ pc[a] = "check"
  /\ Goto(a, IF dir THEN "idle" ELSE "create")
  /\ UNCHANGED <<tree, lock, claim, evicting, live, holds, overlap>>

(* git worktree add --lock -b: created with its lock, or not at all.        *)
AddLocked(a) ==
  /\ pc[a] = "create"
  /\ IF reg \/ dir \/ branch
     THEN Goto(a, "idle") /\ UNCHANGED <<tree, lock, holds>>
     ELSE /\ reg' = TRUE /\ dir' = TRUE /\ branch' = TRUE
          /\ merged' = TRUE /\ dirty' = FALSE /\ detached' = FALSE
          /\ lock' = [owner |-> OwnerOf[a], agent |-> IF op[a] = "add" THEN a ELSE None]
          /\ IF op[a] = "add" THEN Goto(a, "remember") /\ holds' = holds \cup {a}
             ELSE Goto(a, "idle") /\ UNCHANGED holds
  /\ UNCHANGED <<claim, evicting, live, overlap>>

(* Broken variant: the row holds the owner name in place of the agent.      *)
RememberOwner(a) ==
  /\ pc[a] = "remember"
  /\ claim' = OwnerOf[a]
  /\ Goto(a, "idle")
  /\ UNCHANGED <<tree, lock, evicting, live, holds, overlap>>

(* remember: an upsert on the path; an error only warns.                    *)
Remember(a) ==
  /\ pc[a] = "remember"
  /\ \/ claim' = a
     \/ "claim" \in Faults /\ UNCHANGED claim
  /\ Goto(a, "idle")
  /\ UNCHANGED <<tree, lock, evicting, live, holds, overlap>>

-----------------------------------------------------------------------------
(* claim and adopt.                                                         *)

(* In an evicting pool adopt writes no lock: the row alone binds.           *)
ClaimList(a) ==
  /\ pc[a] = "list"
  /\ IF reg /\ ClaimableBy(lock, a)
     THEN Read(a, IF op[a] = "adopt" /\ evicting THEN "remember"
                  ELSE IF lock # None THEN "unlock" ELSE "lock",
               [NoSnap EXCEPT !.lock = lock])
     ELSE Goto(a, "idle")
  /\ UNCHANGED <<tree, lock, claim, evicting, live, holds, overlap>>

ClaimUnlock(a) ==
  /\ pc[a] = "unlock"
  /\ IF CanUnlock THEN lock' = None /\ Goto(a, "lock")
                  ELSE UNCHANGED lock /\ Goto(a, "idle")
  /\ UNCHANGED <<tree, claim, evicting, live, holds, overlap>>

(* Broken variant: the failure of git lock goes unnoticed.                  *)
ClaimLockUnchecked(a) ==
  /\ pc[a] = "lock"
  /\ lock' = IF CanLock THEN [owner |-> OwnerOf[a], agent |-> a] ELSE lock
  /\ holds' = holds \cup {a}
  /\ Goto(a, "remember")
  /\ UNCHANGED <<tree, claim, evicting, live, overlap>>

ClaimLock(a) ==
  /\ pc[a] = "lock"
  /\ IF CanLock
     THEN /\ lock' = [owner |-> OwnerOf[a], agent |-> a]
          /\ holds' = holds \cup {a}
          /\ Goto(a, "remember")
     ELSE /\ Goto(a, IF snap[a].lock # None THEN "relock" ELSE "idle")
          /\ holds' = holds \ {a}
          /\ UNCHANGED lock
  /\ UNCHANGED <<tree, claim, evicting, live, overlap>>

(* The old lock goes back, unless git refuses this one too.                 *)
PutBack(p, at) ==
  /\ pc[p] = at
  /\ lock' = IF CanLock THEN snap[p].lock ELSE lock
  /\ Goto(p, "idle")
  /\ UNCHANGED <<tree, claim, evicting, live, holds, overlap>>

ClaimRelock(a) == PutBack(a, "relock")

-----------------------------------------------------------------------------
(* remove: refuses before it touches anything.  The agent gives its hold up *)
(* when it goes ahead, and knows when a later step fails.  git's list, the  *)
(* merge check and the status are read in one step here and in gc: what     *)
(* changes between them may as well change after them.                      *)

(* Broken variant: --keep-branch lets a detached HEAD go as well.           *)
RemoveSurveyDetached(a) ==
  /\ pc[a] = "survey"
  /\ IF /\ reg /\ ClaimableBy(lock, a)
        /\ dir /\ ~dirty
        /\ merged \/ op[a] = "keep"
     THEN Read(a, IF lock # None THEN "dunlock" ELSE "dremove",
               [NoSnap EXCEPT !.lock = lock,
                              !.drop = merged /\ op[a] # "keep" /\ ~detached])
          /\ holds' = holds \ {a}
     ELSE Goto(a, "idle") /\ UNCHANGED holds
  /\ UNCHANGED <<tree, lock, claim, evicting, live, overlap>>

RemoveSurvey(a) ==
  /\ pc[a] = "survey"
  /\ IF /\ reg /\ ClaimableBy(lock, a)
        /\ dir /\ ~dirty
        /\ merged \/ (op[a] = "keep" /\ ~detached)
     THEN Read(a, IF lock # None THEN "dunlock" ELSE "dremove",
               [NoSnap EXCEPT !.lock = lock,
                              !.drop = merged /\ op[a] # "keep" /\ ~detached])
          /\ holds' = holds \ {a}
     ELSE Goto(a, "idle") /\ UNCHANGED holds
  /\ UNCHANGED <<tree, lock, claim, evicting, live, overlap>>

(* detach, which gc shares.                                                 *)
DetachUnlock(p) ==
  /\ pc[p] = "dunlock"
  /\ IF CanUnlock THEN lock' = None /\ Goto(p, "dremove")
                  ELSE UNCHANGED lock /\ Goto(p, "idle")
  /\ UNCHANGED <<tree, claim, evicting, live, holds, overlap>>

Detached(p) == IF p = Gc THEN "idle" ELSE "release"

DetachRemove(p) ==
  /\ pc[p] = "dremove"
  /\ IF CanRemove
     THEN /\ reg' = FALSE /\ dir' = FALSE
          /\ Goto(p, IF snap[p].drop THEN "dbranch" ELSE Detached(p))
          /\ UNCHANGED <<dirty, detached, branch, merged>>
     ELSE /\ Goto(p, IF snap[p].lock # None THEN "drelock" ELSE "idle")
          /\ UNCHANGED tree
  /\ UNCHANGED <<lock, claim, evicting, live, holds, overlap>>

DetachRelock(p) == PutBack(p, "drelock")

(* A branch that cannot be deleted fails the command: no claim is released. *)
DetachBranch(p) ==
  /\ pc[p] = "dbranch"
  /\ IF CanDelete THEN branch' = FALSE /\ Goto(p, Detached(p))
                  ELSE UNCHANGED branch /\ Goto(p, "idle")
  /\ UNCHANGED <<reg, dir, dirty, detached, merged, lock, claim, evicting, live, holds, overlap>>

(* release_worktree_claim: by path, whoever's row it is by now.             *)
Release(a) ==
  /\ pc[a] = "release"
  /\ \/ claim' = None
     \/ "claim" \in Faults /\ UNCHANGED claim
  /\ Goto(a, "idle")
  /\ UNCHANGED <<tree, lock, evicting, live, holds, overlap>>

-----------------------------------------------------------------------------
(* gc: the live agents first, then git's list.                              *)

GcLive ==
  /\ Begin(Gc, "gc", "list")

(* A store that cannot be read names nobody.                                *)
GcRead ==
  /\ pc[Gc] = "list"
  /\ \E L \in {live} \cup (IF "registry" \in Faults THEN {{}} ELSE {}) :
       Read(Gc, "decide", [NoSnap EXCEPT !.live = L])
  /\ UNCHANGED <<tree, lock, claim, evicting, live, holds, overlap>>

(* Broken variant: the idea of who is live is not asked for.                *)
GcDecideAnyAgent ==
  /\ pc[Gc] = "decide"
  /\ \/ /\ reg /\ ~HeldAgainst(lock, GcOwner)
        /\ ~dir \/ (~dirty /\ merged)
        /\ Read(Gc, IF lock # None THEN "dunlock" ELSE "dremove",
                [snap[Gc] EXCEPT !.lock = lock, !.drop = merged /\ ~detached])
     \/ Goto(Gc, "idle")
  /\ UNCHANGED <<tree, lock, claim, evicting, live, holds, overlap>>

(* decide: a record whose directory is gone, or a worktree that is merged,  *)
(* clean and (the second disjunct: not) idle, unless a live agent is in the *)
(* lock or the lock is held against --owner.                                *)
GcDecide ==
  /\ pc[Gc] = "decide"
  /\ \/ /\ reg /\ ~HeldAgainst(lock, GcOwner)
        /\ lock # None => lock.agent \notin snap[Gc].live
        /\ ~dir \/ (~dirty /\ merged)
        /\ Read(Gc, IF lock # None THEN "dunlock" ELSE "dremove",
                [snap[Gc] EXCEPT !.lock = lock, !.drop = merged /\ ~detached])
     \/ Goto(Gc, "idle")
  /\ UNCHANGED <<tree, lock, claim, evicting, live, holds, overlap>>

-----------------------------------------------------------------------------
(* The environment.                                                         *)

InLock(a) == lock # None /\ lock.agent = a
Bound(a)  == InLock(a) \/ (evicting /\ claim = a)

(* A live agent works in the worktree it is bound to, between commands.     *)
Works(a) ==
  /\ a \in live /\ Bound(a) /\ pc[a] = "idle" /\ dir
  /\ \/ dirty' = TRUE /\ UNCHANGED merged
     \/ dirty /\ dirty' = FALSE /\ merged' = FALSE
  /\ UNCHANGED <<reg, dir, detached, branch, lock, claim, evicting, live, procs, holds, overlap>>

(* A pull request is merged upstream and fetched.                           *)
Merges ==
  /\ branch /\ ~merged /\ merged' = TRUE
  /\ UNCHANGED <<reg, dir, dirty, detached, branch, lock, claim, evicting, live, procs, holds, overlap>>

(* A host deletes one of its worktrees.                                     *)
Evicts ==
  /\ evicting /\ dir
  /\ dir' = FALSE /\ dirty' = FALSE
  /\ UNCHANGED <<reg, detached, branch, merged, lock, claim, evicting, live, procs, holds, overlap>>

AgentEnds(a) ==
  /\ a \in live /\ pc[a] = "idle"
  /\ live' = live \ {a} /\ holds' = holds \ {a}
  /\ UNCHANGED <<tree, lock, claim, evicting, procs, overlap>>

(* A session that is resumed registers again.                               *)
AgentRevives(a) ==
  /\ a \notin live
  /\ Alone => pc[Gc] = "idle"
  /\ live' = live \cup {a}
  /\ UNCHANGED <<tree, lock, claim, evicting, procs, holds, overlap>>

(* A command dies between two git commands; the agent knows it did.         *)
Crash(p) ==
  /\ "crash" \in Faults
  /\ pc[p] # "idle"
  /\ Goto(p, "idle")
  /\ holds' = holds \ {p}
  /\ UNCHANGED <<tree, lock, claim, evicting, live, overlap>>

Detach(p) == DetachUnlock(p) \/ DetachRemove(p) \/ DetachRelock(p) \/ DetachBranch(p)

Command(a) ==
  \/ AddCheck(a) \/ AddLocked(a) \/ Remember(a)
  \/ ClaimList(a) \/ ClaimUnlock(a) \/ ClaimLock(a) \/ ClaimRelock(a)
  \/ RemoveSurvey(a) \/ Release(a)

Next ==
  \/ \E a \in Agent : Start(a) \/ Command(a) \/ Works(a) \/ AgentEnds(a) \/ AgentRevives(a)
  \/ \E p \in Proc : Detach(p) \/ Crash(p)
  \/ GcLive \/ GcRead \/ GcDecide
  \/ Merges \/ Evicts

Spec == Init /\ [][Next]_vars
-----------------------------------------------------------------------------
(* Claims exclude each other: a live agent that was told it has the         *)
(* worktree, and runs no command of its own on it, is in the git lock,      *)
(* whatever other agents claim, adopt, add and remove meanwhile.            *)
HoldersAreBound ==
  \A a \in holds : a \in live /\ pc[a] = "idle" => reg /\ lock # None /\ lock.agent = a

(* The lock of a live agent is opened by its own commands only: not by gc,  *)
(* and not by another agent of the same owner name.                         *)
LiveLockKept ==
  [][\A a \in live : InLock(a) /\ lock' # lock => pc[a] # "idle"]_vars

(* While commands do not overlap, no branch is deleted with commits that    *)
(* the base lacks and no detached HEAD loses its worktree with them, though *)
(* agents go on working meanwhile (outside the pools that hosts evict).     *)
WorkKept ==
  [][~overlap /\ ~evicting => /\ branch /\ ~branch' => merged
                              /\ reg /\ ~reg' /\ detached => merged]_vars

(* What gc.rs says of a worktree that is bound to a live agent: gc never    *)
(* removes it, be it bound by the lock or, in an evicting pool, by the row  *)
(* alone.                                                                   *)
LiveAgentKept ==
  [][DetachRemove(Gc) /\ ~reg' => \A a \in live : ~Bound(a)]_vars
=============================================================================
