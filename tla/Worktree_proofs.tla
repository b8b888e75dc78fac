---------------------------- MODULE Worktree_proofs ----------------------------
(***************************************************************************)
(* Claims of a worktree, for any number of agents and owner names: with    *)
(* gc, and what meets a lock without an agent, overlapping with nothing    *)
(* (Alone) and a registry that can be read.                                *)
(***************************************************************************)
EXTENDS Worktree, TLAPS

Premise == Alone /\ "registry" \notin Faults

Idle(p)  == pc[p] = "idle"
Quiet(p) == \A q \in Proc : q # p => Idle(q)

(* Whoever works with a lock without an agent is the only one at work.      *)
AloneOK ==
  \A p \in Proc : ~Idle(p) /\ (Plain(lock) \/ Plain(snap[p].lock) \/ op[p] \in {"gc", "addplain"})
                    => Quiet(p)

(* Only add creates.                                                        *)
OpOK == \A p \in Proc : pc[p] \in {"check", "create"} => op[p] \in {"add", "addplain"}

(* What gc has read is not out of date, and it opens no live agent's lock.  *)
GcPoints == {"idle", "list", "decide", "dunlock", "dremove", "drelock", "dbranch"}
GcOK ==
  /\ pc[Gc] \in GcPoints
  /\ ~Idle(Gc) => op[Gc] = "gc"
  /\ pc[Gc] \notin {"idle", "list"} => live \subseteq snap[Gc].live
  /\ pc[Gc] = "dunlock" => snap[Gc].lock.agent \notin snap[Gc].live

(* An unlock opens the lock that was read, and an agent reads its own, or a *)
(* plain one.                                                               *)
UnlockOK ==
  /\ lock # None => reg
  /\ \A p \in Proc : pc[p] \in {"unlock", "dunlock"} => lock # None /\ lock = snap[p].lock
  /\ \A a \in Agent : snap[a].lock # None => snap[a].lock.agent \in {a, None}

(* Who was told it has the worktree is in the lock, but for the moment in   *)
(* which it takes its own lock anew.                                        *)
HolderPoints == {"idle", "check", "create", "list", "unlock", "lock", "remember", "survey"}
HoldsOK ==
  /\ holds \subseteq live
  /\ \A a \in Agent : ~Idle(a) => a \in live
  /\ \A a \in holds : pc[a] \in HolderPoints /\ (pc[a] # "lock" => InLock(a))

(* While commands do not overlap, what a command is about to remove was     *)
(* merged, and stays so.                                                    *)
WorkOK ==
  /\ ~overlap => \A p, q \in Proc : Idle(p) \/ Idle(q) \/ p = q
  /\ ~overlap /\ ~evicting =>
       /\ reg => dir
       /\ \A p \in Proc :
            /\ pc[p] \in {"dunlock", "dremove", "dbranch"} => (snap[p].drop => merged)
            /\ pc[p] \in {"dunlock", "dremove"} => merged \/ ~detached
            /\ pc[p] = "dremove" => lock = None
            /\ pc[p] = "dbranch" => ~dir /\ snap[p].drop

IInv == TypeOK /\ OpOK /\ AloneOK /\ GcOK /\ UnlockOK /\ HoldsOK /\ WorkOK

-----------------------------------------------------------------------------
(* Types.                                                                   *)

LEMMA NoSnapType == NoSnap \in Snaps
  BY DEF NoSnap, Snaps

LEMMA GotoType ==
  ASSUME TypeOK, NEW p \in Proc, NEW at \in Points, Goto(p, at)
  PROVE  /\ pc' \in [Proc -> Points] /\ op' \in [Proc -> Operations \cup {"gc", "none"}]
         /\ snap' \in [Proc -> Snaps]
  BY NoSnapType DEF TypeOK, Goto

LEMMA ReadType ==
  ASSUME TypeOK, NEW p \in Proc, NEW at \in Points, NEW s \in Snaps, Read(p, at, s)
  PROVE  /\ pc' \in [Proc -> Points] /\ op' \in [Proc -> Operations \cup {"gc", "none"}]
         /\ snap' \in [Proc -> Snaps]
  BY DEF TypeOK, Read

LEMMA InitType == Init => TypeOK
<1>. SUFFICES ASSUME Init PROVE TypeOK
  OBVIOUS
<1>1. {reg, dir, dirty, detached, branch, merged, evicting, overlap} \subseteq BOOLEAN
  BY DEF Init
<1>2. /\ pc \in [Proc -> Points] /\ op \in [Proc -> Operations \cup {"gc", "none"}]
      /\ snap \in [Proc -> Snaps]
  BY NoSnapType DEF Init, Points
<1>. QED
  BY <1>1, <1>2 DEF Init, TypeOK

LEMMA CommandType ==
  ASSUME TypeOK, NEW a \in Agent, Command(a)
  PROVE  TypeOK'
<1>. USE DEF TypeOK, tree
<1>0. a \in Proc /\ OwnerOf[a] \in Owner
  BY ConstantsAssumption DEF Proc
<1>1. CASE AddCheck(a)
  <2>1. Goto(a, IF dir THEN "idle" ELSE "create")
    BY <1>1 DEF AddCheck
  <2>. QED
    BY <1>0, <1>1, <2>1, GotoType DEF AddCheck, Points
<1>2. CASE AddLocked(a)
  <2>1. \/ Goto(a, "idle") /\ UNCHANGED <<tree, lock, holds>>
        \/ /\ reg' = TRUE /\ dir' = TRUE /\ branch' = TRUE
           /\ merged' = TRUE /\ dirty' = FALSE /\ detached' = FALSE
           /\ lock' = [owner |-> OwnerOf[a], agent |-> IF op[a] = "add" THEN a ELSE None]
           /\ Goto(a, "remember") \/ Goto(a, "idle")
           /\ holds' \in {holds, holds \cup {a}}
    BY <1>2 DEF AddLocked
  <2>2. [owner |-> OwnerOf[a], agent |-> IF op[a] = "add" THEN a ELSE None] \in Locks
    BY <1>0 DEF Locks
  <2>3. /\ pc' \in [Proc -> Points] /\ op' \in [Proc -> Operations \cup {"gc", "none"}]
        /\ snap' \in [Proc -> Snaps]
    <3>1. Goto(a, "idle") \/ Goto(a, "remember")
      BY <2>1
    <3>. QED
      BY <1>0, <3>1, GotoType DEF Points
  <2>4. UNCHANGED <<claim, evicting, live, overlap>>
    BY <1>2 DEF AddLocked
  <2>. HIDE DEF tree
  <2>5. lock' \in Locks \cup {None} /\ holds' \in SUBSET Agent
    BY <2>1, <2>2
  <2>6. /\ reg' \in BOOLEAN /\ dir' \in BOOLEAN /\ dirty' \in BOOLEAN
        /\ detached' \in BOOLEAN /\ branch' \in BOOLEAN /\ merged' \in BOOLEAN
    BY <2>1 DEF tree
  <2>. QED
    BY <2>3, <2>4, <2>5, <2>6
<1>3. CASE Remember(a)
  BY <1>0, <1>3, GotoType DEF Remember, Points
<1>4. CASE ClaimList(a)
  <2>1. [NoSnap EXCEPT !.lock = lock] \in Snaps
    BY DEF NoSnap, Snaps
  <2>2. \/ Goto(a, "idle")
        \/ \E at \in {"remember", "unlock", "lock"} : Read(a, at, [NoSnap EXCEPT !.lock = lock])
    BY <1>4 DEF ClaimList
  <2>. QED
    BY <1>0, <1>4, <2>1, <2>2, GotoType, ReadType DEF ClaimList, Points
<1>5. CASE ClaimUnlock(a)
  <2>1. lock' \in {lock, None} /\ (Goto(a, "lock") \/ Goto(a, "idle"))
    BY <1>5 DEF ClaimUnlock
  <2>. QED
    BY <1>0, <1>5, <2>1, GotoType DEF ClaimUnlock, Points
<1>6. CASE ClaimLock(a)
  <2>1. [owner |-> OwnerOf[a], agent |-> a] \in Locks
    BY <1>0 DEF Locks
  <2>2. /\ lock' \in {lock, [owner |-> OwnerOf[a], agent |-> a]}
        /\ holds' \in {holds \cup {a}, holds \ {a}}
        /\ Goto(a, "remember") \/ Goto(a, "relock") \/ Goto(a, "idle")
    BY <1>6 DEF ClaimLock
  <2>. QED
    BY <1>0, <1>6, <2>1, <2>2, GotoType DEF ClaimLock, Points
<1>7. CASE ClaimRelock(a)
  <2>1. snap[a].lock \in Locks \cup {None}
    BY <1>0 DEF Snaps
  <2>. QED
    BY <1>0, <1>7, <2>1, GotoType DEF ClaimRelock, PutBack, Points
<1>8. CASE RemoveSurvey(a)
  <2>. DEFINE drops == merged /\ op[a] # "keep" /\ ~detached
  <2>1. [NoSnap EXCEPT !.lock = lock, !.drop = drops] \in Snaps
    BY DEF NoSnap, Snaps
  <2>2. /\ holds' \in {holds, holds \ {a}}
        /\ \/ Goto(a, "idle")
           \/ \E at \in {"dunlock", "dremove"} :
                Read(a, at, [NoSnap EXCEPT !.lock = lock, !.drop = drops])
    BY <1>8 DEF RemoveSurvey
  <2>. HIDE DEF drops
  <2>. QED
    BY <1>0, <1>8, <2>1, <2>2, GotoType, ReadType DEF RemoveSurvey, Points
<1>9. CASE Release(a)
  BY <1>0, <1>9, GotoType DEF Release, Points
<1>. QED
  BY <1>1, <1>2, <1>3, <1>4, <1>5, <1>6, <1>7, <1>8, <1>9 DEF Command

LEMMA NextType == TypeOK /\ [Next]_vars => TypeOK'
<1>. SUFFICES ASSUME TypeOK, [Next]_vars PROVE TypeOK'
  OBVIOUS
<1>. USE DEF TypeOK, tree, procs
<1>0. Gc \in Proc /\ Agent \subseteq Proc
  BY DEF Proc
<1>1. ASSUME NEW a \in Agent, Start(a) PROVE TypeOK'
  <2>1. PICK o \in Operations : Begin(a, o, CASE o \in {"add", "addplain"} -> "check"
                                             [] o \in {"claim", "adopt"}  -> "list"
                                             [] o \in {"remove", "keep"}  -> "survey")
    BY <1>1, ConstantsAssumption DEF Start
  <2>2. \E at \in {"check", "list", "survey"} : Begin(a, o, at)
    BY <2>1 DEF Operations
  <2>. QED
    BY <1>0, <2>2 DEF Begin, Points
<1>2. ASSUME NEW a \in Agent, Command(a) PROVE TypeOK'
  BY <1>2, CommandType
<1>3. ASSUME NEW a \in Agent, Works(a) \/ AgentEnds(a) \/ AgentRevives(a) PROVE TypeOK'
  BY <1>3 DEF Works, AgentEnds, AgentRevives
<1>4. ASSUME NEW p \in Proc, Detach(p) PROVE TypeOK'
  <2>1. CASE DetachUnlock(p)
    <3>1. lock' \in {lock, None} /\ (Goto(p, "dremove") \/ Goto(p, "idle"))
      BY <2>1 DEF DetachUnlock
    <3>. QED
      BY <2>1, <3>1, GotoType DEF DetachUnlock, Points
  <2>2. CASE DetachRemove(p)
    <3>1. /\ reg' \in {reg, FALSE} /\ dir' \in {dir, FALSE}
          /\ UNCHANGED <<dirty, detached, branch, merged>>
          /\ \E at \in {"dbranch", "release", "idle", "drelock"} : Goto(p, at)
      BY <2>2 DEF DetachRemove, Detached
    <3>. QED
      BY <2>2, <3>1, GotoType DEF DetachRemove, Points
  <2>3. CASE DetachRelock(p)
    <3>1. snap[p].lock \in Locks \cup {None}
      BY DEF Snaps
    <3>. QED
      BY <2>3, <3>1, GotoType DEF DetachRelock, PutBack, Points
  <2>4. CASE DetachBranch(p)
    <3>1. branch' \in {branch, FALSE} /\ \E at \in {"release", "idle"} : Goto(p, at)
      BY <2>4 DEF DetachBranch, Detached
    <3>. QED
      BY <2>4, <3>1, GotoType DEF DetachBranch, Points
  <2>. QED
    BY <1>4, <2>1, <2>2, <2>3, <2>4 DEF Detach
<1>5. ASSUME NEW p \in Proc, Crash(p) PROVE TypeOK'
  BY <1>5, GotoType DEF Crash, Points
<1>6. CASE GcLive
  BY <1>0, <1>6 DEF GcLive, Begin, Points
<1>7. CASE GcRead
  <2>1. \E L \in SUBSET Agent : Read(Gc, "decide", [NoSnap EXCEPT !.live = L])
    BY <1>7 DEF GcRead
  <2>2. \A L \in SUBSET Agent : [NoSnap EXCEPT !.live = L] \in Snaps
    BY DEF NoSnap, Snaps
  <2>. QED
    BY <1>0, <1>7, <2>1, <2>2, ReadType DEF GcRead, Points
<1>8. CASE GcDecide
  <2>. DEFINE drops == merged /\ ~detached
  <2>1. [snap[Gc] EXCEPT !.lock = lock, !.drop = drops] \in Snaps
    <3>1. snap[Gc] \in Snaps /\ drops \in BOOLEAN
      BY <1>0
    <3>. HIDE DEF drops
    <3>. QED
      BY <3>1 DEF Snaps
  <2>2. \/ Goto(Gc, "idle")
        \/ \E at \in {"dunlock", "dremove"} :
             Read(Gc, at, [snap[Gc] EXCEPT !.lock = lock, !.drop = drops])
    BY <1>8 DEF GcDecide
  <2>. HIDE DEF drops
  <2>. QED
    BY <1>0, <1>8, <2>1, <2>2, GotoType, ReadType DEF GcDecide, Points
<1>9. CASE Merges \/ Evicts
  BY <1>9 DEF Merges, Evicts
<1>10. CASE UNCHANGED vars
  BY <1>10 DEF vars
<1>. QED
  BY <1>1, <1>2, <1>3, <1>4, <1>5, <1>6, <1>7, <1>8, <1>9, <1>10 DEF Next

(* Every variable keeps its type: git's registration, lock and branch, the   *)
(* claim row, and what a command in the middle of its steps has read of them *)
(* (worktree/claim.rs, remove.rs, gc.rs).                                     *)
THEOREM TypeCorrect == Spec => []TypeOK
  BY InitType, NextType, PTL DEF Spec

-----------------------------------------------------------------------------
(* A process at work takes a step: the others stay where they are, and what *)
(* it reads and writes of locks is of few kinds.                            *)
Moves(p) ==
  /\ ~Idle(p)
  /\ \A q \in Proc : q # p => pc'[q] = pc[q] /\ op'[q] = op[q] /\ snap'[q] = snap[q]
  /\ op'[p] \in {op[p], "none"} /\ (~Idle(p)' => op'[p] = op[p])
  /\ pc'[p] \in {"check", "create"} => pc[p] = "check"
  /\ snap'[p].lock \in {None, lock, snap[p].lock}
  /\ Idle(p)' => snap'[p].lock = None
  /\ Plain(lock') => Plain(lock) \/ Plain(snap[p].lock) \/ (pc[p] = "create" /\ op[p] # "add")

LEMMA Apart == /\ Gc \in Proc /\ Agent \subseteq Proc /\ Gc \notin Agent
               /\ None \notin Proc /\ None \notin Locks
               /\ \A p \in Proc : p = Gc \/ p \in Agent
  BY ConstantsAssumption DEF Proc, Locks

LEMMA GotoMoves ==
  ASSUME TypeOK, NEW p \in Proc, NEW at, Goto(p, at)
  PROVE  /\ pc'[p] = at
         /\ \A q \in Proc : q # p => pc'[q] = pc[q] /\ op'[q] = op[q] /\ snap'[q] = snap[q]
         /\ op'[p] = IF at = "idle" THEN "none" ELSE op[p]
         /\ snap'[p] = IF at = "idle" THEN NoSnap ELSE snap[p]
  BY DEF TypeOK, Goto

LEMMA ReadMoves ==
  ASSUME TypeOK, NEW p \in Proc, NEW at, NEW s, Read(p, at, s)
  PROVE  /\ pc'[p] = at /\ op' = op /\ snap'[p] = s
         /\ \A q \in Proc : q # p => pc'[q] = pc[q] /\ snap'[q] = snap[q]
  BY DEF TypeOK, Read

(* What a command keeps of the lock and of the merge check.                 *)
LEMMA Survey ==
  ASSUME NEW s \in Snaps, NEW l, NEW d
  PROVE  /\ [s EXCEPT !.lock = l, !.drop = d].lock = l
         /\ [s EXCEPT !.lock = l, !.drop = d].drop = d
         /\ [s EXCEPT !.lock = l, !.drop = d].live = s.live
<1>1. s = [lock |-> s.lock, drop |-> s.drop, live |-> s.live]
  BY DEF Snaps
<1>. QED
  BY <1>1

LEMMA RemoveReads ==
  ASSUME NEW a \in Agent, RemoveSurvey(a)
  PROVE  \/ Goto(a, "idle") /\ UNCHANGED holds
         \/ /\ reg /\ ClaimableBy(lock, a) /\ (merged \/ (op[a] = "keep" /\ ~detached))
            /\ holds' = holds \ {a}
            /\ \E r : /\ Read(a, IF lock # None THEN "dunlock" ELSE "dremove", r)
                     /\ r.lock = lock /\ r.drop = (merged /\ op[a] # "keep" /\ ~detached)
<1>. DEFINE d == merged /\ op[a] # "keep" /\ ~detached
            r == [NoSnap EXCEPT !.lock = lock, !.drop = d]
<1>1. r.lock = lock /\ r.drop = d
  BY NoSnapType, Survey
<1>2. \/ Goto(a, "idle") /\ UNCHANGED holds
      \/ /\ reg /\ ClaimableBy(lock, a) /\ (merged \/ (op[a] = "keep" /\ ~detached))
         /\ holds' = holds \ {a}
         /\ Read(a, IF lock # None THEN "dunlock" ELSE "dremove", r)
  BY DEF RemoveSurvey
<1>. HIDE DEF r
<1>. QED
  BY <1>1, <1>2

LEMMA CommandMoves ==
  ASSUME TypeOK, NEW a \in Agent, Command(a)
  PROVE  Moves(a)
<1>0. a \in Proc /\ a # None /\ NoSnap.lock = None
  BY Apart DEF NoSnap
<1>1. CASE AddCheck(a) \/ Remember(a) \/ ClaimUnlock(a) \/ ClaimRelock(a) \/ Release(a)
  BY <1>0, <1>1, GotoMoves DEF AddCheck, Remember, ClaimUnlock, ClaimRelock, PutBack, Release, Moves,
     Idle, Plain
<1>2. CASE AddLocked(a)
  <2>1. pc[a] = "create" /\ \E at \in {"remember", "idle"} : Goto(a, at)
    BY <1>2 DEF AddLocked
  <2>2. Plain(lock') => Plain(lock) \/ op[a] # "add"
    <3>1. CASE lock' = lock
      BY <3>1
    <3>2. CASE lock' = [owner |-> OwnerOf[a], agent |-> IF op[a] = "add" THEN a ELSE None]
      BY <1>0, <3>2 DEF Plain
    <3>. QED
      BY <1>2, <3>1, <3>2 DEF AddLocked
  <2>. QED
    BY <1>0, <2>1, <2>2, GotoMoves DEF Moves, Idle
<1>3. CASE ClaimList(a)
  BY <1>0, <1>3, GotoMoves, ReadMoves DEF ClaimList, Moves, Idle, NoSnap
<1>4. CASE ClaimLock(a)
  BY <1>0, <1>4, GotoMoves DEF ClaimLock, Moves, Idle, Plain
<1>5. CASE RemoveSurvey(a)
  <2>1. pc[a] = "survey" /\ lock' = lock
    BY <1>5 DEF RemoveSurvey
  <2>2. CASE Goto(a, "idle")
    BY <1>0, <2>1, <2>2, GotoMoves DEF Moves, Idle
  <2>3. CASE \E at : \E r : Read(a, at, r) /\ r.lock = lock /\ at \in {"dunlock", "dremove"}
    BY <1>0, <2>1, <2>3, ReadMoves DEF Moves, Idle
  <2>. QED
    BY <1>5, <2>2, <2>3, RemoveReads
<1>. QED
  BY <1>1, <1>2, <1>3, <1>4, <1>5 DEF Command

LEMMA GcReads ==
  ASSUME TypeOK, GcDecide
  PROVE  \/ Goto(Gc, "idle")
         \/ /\ reg /\ (lock # None => lock.agent \notin snap[Gc].live)
            /\ ~dir \/ (~dirty /\ merged)
            /\ \E r : /\ Read(Gc, IF lock # None THEN "dunlock" ELSE "dremove", r)
                     /\ r.lock = lock /\ r.drop = (merged /\ ~detached) /\ r.live = snap[Gc].live
<1>. DEFINE d == merged /\ ~detached
            r == [snap[Gc] EXCEPT !.lock = lock, !.drop = d]
<1>0. snap[Gc] \in Snaps
  BY Apart DEF TypeOK
<1>1. r.lock = lock /\ r.drop = d /\ r.live = snap[Gc].live
  BY <1>0, Survey
<1>2. \/ Goto(Gc, "idle")
      \/ /\ reg /\ (lock # None => lock.agent \notin snap[Gc].live)
         /\ ~dir \/ (~dirty /\ merged)
         /\ Read(Gc, IF lock # None THEN "dunlock" ELSE "dremove", r)
  BY DEF GcDecide
<1>. HIDE DEF r
<1>. QED
  BY <1>1, <1>2

LEMMA OtherMoves ==
  ASSUME TypeOK, NEW p \in Proc,
         Detach(p) \/ Crash(p) \/ (p = Gc /\ (GcRead \/ GcDecide))
  PROVE  Moves(p)
<1>0. NoSnap.lock = None
  BY DEF NoSnap
<1>1. CASE DetachUnlock(p) \/ DetachRemove(p) \/ DetachRelock(p) \/ DetachBranch(p) \/ Crash(p)
  BY <1>0, <1>1, GotoMoves DEF DetachUnlock, DetachRemove, DetachRelock, PutBack, DetachBranch, Detached,
     Crash, Moves, Idle, Plain
<1>2. CASE p = Gc /\ GcRead
  <2>1. pc[p] = "list" /\ lock' = lock /\ \E r : Read(p, "decide", r) /\ r.lock = None
    <3>1. \A L : [NoSnap EXCEPT !.live = L].lock = None
      BY DEF NoSnap
    <3>. QED
      BY <1>2, <3>1 DEF GcRead
  <2>. QED
    BY <2>1, ReadMoves DEF Moves, Idle
<1>3. CASE p = Gc /\ GcDecide
  <2>1. pc[p] = "decide" /\ lock' = lock
    BY <1>3 DEF GcDecide
  <2>2. CASE Goto(p, "idle")
    BY <1>0, <2>1, <2>2, GotoMoves DEF Moves, Idle
  <2>3. CASE \E at : \E r : Read(p, at, r) /\ r.lock = lock /\ at \in {"dunlock", "dremove"}
    BY <2>1, <2>3, ReadMoves DEF Moves, Idle
  <2>. QED
    BY <1>3, <2>2, <2>3, GcReads
<1>. QED
  BY <1>1, <1>2, <1>3 DEF Detach

(* A command begins; with Alone, either nothing else is at work or nothing  *)
(* that must be alone is.                                                   *)
Begins(p) ==
  /\ Idle(p) /\ ~Idle(p)' /\ pc'[p] \in {"check", "list", "survey"}
  /\ \A q \in Proc : q # p => pc'[q] = pc[q] /\ op'[q] = op[q]
  /\ pc'[p] = "check" <=> op'[p] \in {"add", "addplain"}
  /\ p = Gc <=> op'[p] = "gc"
  /\ p = Gc => pc'[p] = "list"
  /\ op'[p] \in {"gc", "addplain"} \/ Plain(lock) => \A q \in Proc : Idle(q)
  /\ \A q \in Proc : op[q] \notin {"gc", "addplain"} /\ ~Plain(snap[q].lock)
  /\ overlap' = (overlap \/ \E q \in Proc : ~Idle(q))
  /\ UNCHANGED <<snap, tree, lock, claim, evicting, live, holds>>
  /\ p \in Agent => p \in live

LEMMA BeginsFacts ==
  ASSUME Premise, TypeOK, NEW p \in Proc,
         (p \in Agent /\ Start(p)) \/ (p = Gc /\ GcLive)
  PROVE  Begins(p)
<1>0. Alone
  BY DEF Premise
<1>1. PICK o, at : /\ Begin(p, o, at) /\ at \in {"check", "list", "survey"}
                   /\ at = "check" <=> o \in {"add", "addplain"}
                   /\ p = Gc <=> o = "gc"
                   /\ p = Gc => at = "list"
                   /\ p \in Agent => p \in live
  <2>1. CASE p \in Agent /\ Start(p)
    <3>1. PICK o \in Ops[p] : Begin(p, o, CASE o \in {"add", "addplain"} -> "check"
                                            [] o \in {"claim", "adopt"}  -> "list"
                                            [] o \in {"remove", "keep"}  -> "survey")
      BY <2>1 DEF Start
    <3>2. o \in Operations /\ p # Gc /\ p \in live
      BY <2>1, Apart, ConstantsAssumption DEF Start
    <3>3. CASE o \in {"add", "addplain"}
      <4>1. Begin(p, o, "check")
        BY <3>1, <3>3
      <4>. QED
        BY <3>2, <3>3, <4>1
    <3>4. CASE o \in {"claim", "adopt"}
      <4>1. Begin(p, o, "list")
        BY <3>1, <3>4
      <4>. QED
        BY <3>2, <3>4, <4>1
    <3>5. CASE o \in {"remove", "keep"}
      <4>1. Begin(p, o, "survey")
        BY <3>1, <3>5
      <4>. QED
        BY <3>2, <3>5, <4>1
    <3>. QED
      BY <3>2, <3>3, <3>4, <3>5 DEF Operations
  <2>2. CASE p = Gc /\ GcLive
    BY <2>2, Apart DEF GcLive
  <2>. QED
    BY <2>1, <2>2
<1>2. /\ pc[p] = "idle" /\ pc' = [pc EXCEPT ![p] = at] /\ op' = [op EXCEPT ![p] = o]
      /\ overlap' = (overlap \/ \E q \in Proc : pc[q] # "idle")
      /\ UNCHANGED <<snap, tree, lock, claim, evicting, live, holds>>
      /\ Solo(o) => \A q \in Proc : pc[q] = "idle"
      /\ \A q \in Proc : op[q] \notin {"gc", "addplain"} /\ ~Plain(snap[q].lock)
  BY <1>0, <1>1 DEF Begin
<1>3. pc'[p] = at /\ op'[p] = o /\ \A q \in Proc : q # p => pc'[q] = pc[q] /\ op'[q] = op[q]
  BY <1>2 DEF TypeOK
<1>. QED
  BY <1>1, <1>2, <1>3 DEF Begins, Idle, Solo

(* The world: no process moves, no lock changes.                            *)
World ==
  /\ UNCHANGED <<procs, lock, reg, branch, detached, evicting, overlap>>
  /\ \/ UNCHANGED <<live, holds>>
     \/ \E a \in Agent : Idle(a) /\ a \in live /\ live' = live \ {a} /\ holds' = holds \ {a}
     \/ \E a \in Agent : Idle(Gc) /\ live' = live \cup {a} /\ holds' = holds
  /\ merged /\ ~merged' =>
       \E a \in live : dir /\ Idle(a) /\ Bound(a)
  /\ dir' # dir => evicting

LEMMA WorldFacts ==
  ASSUME Premise, TypeOK,
         \/ \E a \in Agent : Works(a) \/ AgentEnds(a) \/ AgentRevives(a)
         \/ Merges \/ Evicts \/ UNCHANGED vars
  PROVE  World
<1>1. ASSUME NEW a \in Agent, Works(a) PROVE World
  BY <1>1 DEF Works, World, Idle, procs
<1>2. ASSUME NEW a \in Agent, AgentEnds(a) \/ AgentRevives(a) PROVE World
  BY <1>2 DEF AgentEnds, AgentRevives, World, Idle, tree, Premise
<1>3. CASE Merges \/ Evicts \/ UNCHANGED vars
  BY <1>3 DEF Merges, Evicts, vars, tree, World
<1>. QED
  BY <1>1, <1>2, <1>3

LEMMA Steps ==
  ASSUME Premise, TypeOK, [Next]_vars
  PROVE  \/ World
         \/ \E p \in Proc : Begins(p)
         \/ \E a \in Agent : Command(a)
         \/ \E p \in Proc : Detach(p) \/ Crash(p)
         \/ GcRead \/ GcDecide
<1>1. ASSUME NEW a \in Agent, Start(a) PROVE \E p \in Proc : Begins(p)
  BY <1>1, BeginsFacts, Apart
<1>2. CASE GcLive
  BY <1>2, BeginsFacts, Apart
<1>. QED
  BY <1>1, <1>2, WorldFacts DEF Next

-----------------------------------------------------------------------------
(* Alone.                                                                   *)

LEMMA MovesAlone ==
  ASSUME OpOK, AloneOK, NEW p \in Proc, Moves(p)
  PROVE  OpOK' /\ AloneOK'
<1>1. OpOK'
  BY DEF OpOK, Moves, Idle
<1>2. ASSUME NEW q \in Proc, ~Idle(q)',
             (Plain(lock) \/ Plain(snap[q].lock) \/ op[q] \in {"gc", "addplain"})'
      PROVE  Quiet(q)'
  <2>1. ~Idle(p) /\ ~Idle(q)
    BY <1>2 DEF Moves, Idle
  <2>2. CASE q = p
    <3>1. Plain(snap'[p].lock) => Plain(lock) \/ Plain(snap[p].lock)
      BY DEF Moves, Plain
    <3>2. Quiet(p)
      BY <1>2, <2>1, <2>2, <3>1 DEF Moves, OpOK, AloneOK
    <3>. QED
      BY <2>2, <3>2 DEF Quiet, Moves, Idle
  <2>3. CASE q # p
    <3>1. /\ Plain(snap'[q].lock) => Plain(snap[q].lock)
          /\ op'[q] = op[q]
      BY <2>3 DEF Moves
    <3>2. CASE Plain(lock) \/ Plain(snap[q].lock) \/ op[q] \in {"gc", "addplain"}
      BY <2>1, <2>3, <3>2 DEF AloneOK, Quiet
    <3>3. CASE Plain(snap[p].lock) \/ (pc[p] = "create" /\ op[p] # "add")
      BY <2>1, <2>3, <3>3 DEF OpOK, AloneOK, Quiet
    <3>. QED
      BY <1>2, <3>1, <3>2, <3>3 DEF Moves
  <2>. QED
    BY <2>2, <2>3
<1>. QED
  BY <1>1, <1>2 DEF AloneOK

LEMMA NextAlone ==
  ASSUME Premise, IInv, [Next]_vars
  PROVE  OpOK' /\ AloneOK'
<1>0. TypeOK /\ OpOK /\ AloneOK
  BY DEF IInv
<1>1. CASE World
  BY <1>0, <1>1 DEF World, procs, OpOK, AloneOK, Quiet, Idle, Plain
<1>2. ASSUME NEW p \in Proc, Begins(p) PROVE OpOK' /\ AloneOK'
  BY <1>0, <1>2 DEF Begins, OpOK, AloneOK, Quiet, Idle, Plain
<1>. QED
  BY <1>0, <1>1, <1>2, Steps, CommandMoves, OtherMoves, MovesAlone, Apart

-----------------------------------------------------------------------------
(* gc.                                                                      *)

LEMMA NextGc ==
  ASSUME Premise, IInv, [Next]_vars
  PROVE  GcOK'
<1>0. /\ TypeOK /\ GcOK /\ AloneOK /\ Gc \in Proc /\ NoSnap.lock = None
      /\ live \subseteq Agent /\ pc[Gc] \in Points
  BY Apart DEF IInv, TypeOK, NoSnap
<1>1. CASE World
  <2>1. UNCHANGED <<pc, op, snap>>
    BY <1>1 DEF World, procs
  <2>2. live' \subseteq live \/ Idle(Gc)
    BY <1>1 DEF World
  <2>. QED
    BY <1>0, <2>1, <2>2 DEF GcOK, Idle
<1>2. ASSUME NEW p \in Proc, Begins(p) PROVE GcOK'
  BY <1>0, <1>2 DEF Begins, GcOK, GcPoints, Idle
<1>3. ASSUME NEW a \in Agent, Command(a) PROVE GcOK'
  <2>1. live' = live
    BY <1>3 DEF Command, AddCheck, AddLocked, Remember, ClaimList, ClaimUnlock, ClaimLock, ClaimRelock,
       PutBack, RemoveSurvey, Release
  <2>2. pc'[Gc] = pc[Gc] /\ op'[Gc] = op[Gc] /\ snap'[Gc] = snap[Gc]
    BY <1>0, <1>3, CommandMoves, Apart DEF Moves
  <2>. QED
    BY <1>0, <2>1, <2>2 DEF GcOK, Idle
<1>4. ASSUME NEW p \in Proc, Detach(p) \/ Crash(p) PROVE GcOK'
  <2>1. live' = live
    BY <1>4 DEF Detach, DetachUnlock, DetachRemove, DetachRelock, PutBack, DetachBranch, Crash
  <2>2. CASE p # Gc
    BY <1>0, <1>4, <2>1, <2>2, OtherMoves DEF Moves, GcOK, Idle
  <2>3. CASE p = Gc
    <3>1. \/ Goto(Gc, "idle")
          \/ /\ \E at \in {"dremove", "dbranch", "drelock"} : Goto(Gc, at)
             /\ pc[Gc] \in {"dunlock", "dremove"}
      BY <1>4, <2>3 DEF Detach, DetachUnlock, DetachRemove, DetachRelock, PutBack, DetachBranch, Detached,
         Crash
    <3>2. ~Idle(Gc)
      BY <1>4, <2>3 DEF Detach, DetachUnlock, DetachRemove, DetachRelock, PutBack, DetachBranch,
         Crash, Idle
    <3>. QED
      BY <1>0, <2>1, <3>1, <3>2, GotoMoves DEF GcOK, GcPoints, Idle
  <2>. QED
    BY <2>2, <2>3
<1>5. CASE GcRead
  <2>1. "registry" \notin Faults /\ pc[Gc] = "list" /\ live' = live
    BY <1>5 DEF GcRead, Premise
  <2> DEFINE s == [NoSnap EXCEPT !.live = live]
  <2>2. Read(Gc, "decide", s)
    BY <1>5, <2>1 DEF GcRead
  <2>3. s.live = live
    BY DEF NoSnap
  <2>. HIDE DEF s
  <2>4. pc'[Gc] = "decide" /\ op'[Gc] = op[Gc] /\ snap'[Gc].live = live
    BY <1>0, <2>2, <2>3, ReadMoves
  <2>5. pc'[Gc] \in GcPoints /\ op'[Gc] = "gc"
    BY <1>0, <2>1, <2>4 DEF GcOK, GcPoints, Idle
  <2>. QED
    BY <2>1, <2>4, <2>5 DEF GcOK
<1>6. CASE GcDecide
  <2>1. pc[Gc] = "decide" /\ live' = live
    BY <1>6 DEF GcDecide
  <2>2. CASE Goto(Gc, "idle")
    BY <1>0, <2>1, <2>2, GotoMoves DEF GcOK, GcPoints, Idle
  <2>3. CASE \E r : /\ Read(Gc, IF lock # None THEN "dunlock" ELSE "dremove", r)
                    /\ r.lock = lock /\ r.live = snap[Gc].live
                    /\ lock # None => lock.agent \notin snap[Gc].live
    BY <1>0, <2>1, <2>3, ReadMoves DEF GcOK, GcPoints, Idle
  <2>. QED
    BY <1>0, <1>6, <2>2, <2>3, GcReads
<1>. QED
  BY <1>0, <1>1, <1>2, <1>3, <1>4, <1>5, <1>6, Steps

-----------------------------------------------------------------------------
(* Unlocks.                                                                 *)

(* No two processes are about to open the lock.                             *)
LEMMA OneUnlocks ==
  ASSUME IInv, NEW p \in Proc, NEW q \in Proc,
         pc[p] \in {"unlock", "dunlock"}, pc[q] \in {"unlock", "dunlock"}
  PROVE  p = q
<1>0. /\ lock # None /\ lock = snap[p].lock /\ lock = snap[q].lock
      /\ ~Idle(p) /\ ~Idle(q)
  BY DEF IInv, UnlockOK, Idle
<1>1. CASE p = Gc \/ q = Gc
  BY <1>0, <1>1 DEF IInv, GcOK, AloneOK, Quiet
<1>2. CASE p \in Agent /\ q \in Agent
  <2>1. lock.agent \in {p, None} /\ lock.agent \in {q, None}
    BY <1>0, <1>2 DEF IInv, UnlockOK
  <2>2. CASE lock.agent = None
    BY <1>0, <2>2 DEF IInv, AloneOK, Quiet, Plain
  <2>3. CASE lock.agent # None
    BY <2>1, <2>3
  <2>. QED
    BY <2>2, <2>3
<1>. QED
  BY <1>1, <1>2, Apart

(* What a step does to the lock.                                            *)
LEMMA LockSteps ==
  ASSUME Premise, IInv, [Next]_vars
  PROVE  \/ lock' = lock
         \/ \E p \in Proc : /\ lock' = None /\ reg' = reg
                            /\ pc[p] \in {"unlock", "dunlock"} /\ pc'[p] \notin {"unlock", "dunlock"}
                            /\ \A q \in Proc : q # p => pc'[q] = pc[q]
         \/ /\ lock = None /\ reg'
            /\ \A q \in Proc : pc'[q] \in {"unlock", "dunlock"} => pc[q] \in {"unlock", "dunlock"}
<1>0. TypeOK /\ UnlockOK /\ Agent \subseteq Proc
  BY Apart DEF IInv
<1>1. CASE World
  BY <1>1 DEF World
<1>2. ASSUME NEW p \in Proc, Begins(p) PROVE lock' = lock
  BY <1>2 DEF Begins
<1>3. CASE GcRead \/ GcDecide
  BY <1>3 DEF GcRead, GcDecide
<1>4. ASSUME NEW p \in Proc, ClaimUnlock(p) \/ DetachUnlock(p)
      PROVE  \/ lock' = lock
             \/ /\ lock' = None /\ reg' = reg
                /\ pc[p] \in {"unlock", "dunlock"} /\ pc'[p] \notin {"unlock", "dunlock"}
                /\ \A q \in Proc : q # p => pc'[q] = pc[q]
  BY <1>0, <1>4, GotoMoves DEF ClaimUnlock, DetachUnlock, tree
<1>5. ASSUME NEW p \in Proc, ClaimLock(p) \/ AddLocked(p) \/ PutBack(p, "relock") \/ PutBack(p, "drelock")
      PROVE  \/ lock' = lock
             \/ /\ lock = None /\ reg'
                /\ \A q \in Proc : pc'[q] \in {"unlock", "dunlock"} => pc[q] \in {"unlock", "dunlock"}
  BY <1>0, <1>5, GotoMoves DEF ClaimLock, AddLocked, PutBack, CanLock, UnlockOK, tree
<1>6. ASSUME NEW p \in Proc, \/ AddCheck(p) \/ Remember(p) \/ ClaimList(p) \/ RemoveSurvey(p)
                             \/ Release(p) \/ DetachRemove(p) \/ DetachBranch(p) \/ Crash(p)
      PROVE  lock' = lock
  BY <1>6 DEF AddCheck, Remember, ClaimList, RemoveSurvey, Release, DetachRemove, DetachBranch, Crash
<1>. QED
  BY <1>0, <1>1, <1>2, <1>3, <1>4, <1>5, <1>6, Steps DEF Command, Detach, ClaimRelock, DetachRelock

(* Who comes to an unlock has just read the lock.                           *)
LEMMA ReadsLock ==
  ASSUME Premise, IInv, [Next]_vars, NEW p \in Proc, pc'[p] \in {"unlock", "dunlock"}
  PROVE  \/ pc[p] = pc'[p] /\ snap'[p] = snap[p]
         \/ lock # None /\ lock' = lock /\ snap'[p].lock = lock
<1>0. TypeOK /\ Agent \subseteq Proc
  BY Apart DEF IInv
<1>1. CASE World
  BY <1>1 DEF World, procs
<1>2. ASSUME NEW q \in Proc, Begins(q) PROVE pc[p] = pc'[p] /\ snap'[p] = snap[p]
  BY <1>2 DEF Begins
<1>3. ASSUME NEW q \in Proc, q # p, Moves(q) PROVE pc[p] = pc'[p] /\ snap'[p] = snap[p]
  BY <1>3 DEF Moves
<1>4. ASSUME p \in Agent, Command(p) PROVE lock # None /\ lock' = lock /\ snap'[p].lock = lock
  <2>1. CASE ClaimList(p)
    <3>1. Read(p, pc'[p], [NoSnap EXCEPT !.lock = lock]) /\ lock # None /\ lock' = lock
      BY <1>0, <2>1, GotoMoves, ReadMoves DEF ClaimList
    <3>2. [NoSnap EXCEPT !.lock = lock].lock = lock
      BY DEF NoSnap
    <3>. QED
      BY <1>0, <3>1, <3>2, ReadMoves
  <2>2. CASE RemoveSurvey(p)
    <3>1. lock' = lock /\ ~Goto(p, "idle")
      BY <1>0, <2>2, GotoMoves DEF RemoveSurvey
    <3>2. PICK r : Read(p, IF lock # None THEN "dunlock" ELSE "dremove", r) /\ r.lock = lock
      BY <1>4, <2>2, <3>1, RemoveReads
    <3>. QED
      BY <1>0, <3>1, <3>2, ReadMoves
  <2>3. CASE \/ AddCheck(p) \/ AddLocked(p) \/ Remember(p) \/ ClaimUnlock(p) \/ ClaimLock(p)
             \/ ClaimRelock(p) \/ Release(p)
    BY <1>0, <2>3, GotoMoves DEF AddCheck, AddLocked, Remember, ClaimUnlock, ClaimLock, ClaimRelock,
       PutBack, Release
  <2>. QED
    BY <1>4, <2>1, <2>2, <2>3 DEF Command
<1>5. ASSUME Detach(p) \/ Crash(p) PROVE FALSE
  BY <1>0, <1>5, GotoMoves DEF Detach, DetachUnlock, DetachRemove, DetachRelock, PutBack, DetachBranch,
     Detached, Crash
<1>6. ASSUME p = Gc, GcRead \/ GcDecide PROVE lock # None /\ lock' = lock /\ snap'[p].lock = lock
  <2>1. CASE GcRead
    <3>1. \E r : Read(p, "decide", r)
      BY <1>6, <2>1 DEF GcRead
    <3>. QED
      BY <1>0, <3>1, ReadMoves
  <2>2. CASE GcDecide
    <3>1. lock' = lock /\ ~Goto(p, "idle")
      BY <1>0, <2>2, GotoMoves DEF GcDecide
    <3>2. PICK r : Read(p, IF lock # None THEN "dunlock" ELSE "dremove", r) /\ r.lock = lock
      BY <1>0, <1>6, <2>2, <3>1, GcReads
    <3>. QED
      BY <1>0, <3>1, <3>2, ReadMoves
  <2>. QED
    BY <1>6, <2>1, <2>2
<1>. QED
  BY <1>0, <1>1, <1>2, <1>3, <1>4, <1>5, <1>6, Steps, CommandMoves, OtherMoves, Apart

LEMMA NextUnlock ==
  ASSUME Premise, IInv, [Next]_vars
  PROVE  UnlockOK'
<1>0. TypeOK /\ UnlockOK /\ Agent \subseteq Proc
  BY Apart DEF IInv
<1>1. lock' # None => reg'
  <2>1. CASE lock' = lock
    <3>1. reg /\ lock # None => reg'
      <4>1. ASSUME NEW p \in Proc, Command(p) PROVE reg => reg'
        BY <4>1 DEF Command, AddCheck, AddLocked, Remember, ClaimList, ClaimUnlock, ClaimLock, ClaimRelock,
           PutBack, RemoveSurvey, Release, tree
      <4>2. ASSUME NEW p \in Proc, Detach(p) \/ Crash(p) PROVE reg /\ lock # None => reg'
        BY <4>2 DEF Detach, DetachUnlock, DetachRemove, DetachRelock, PutBack, DetachBranch, Crash,
           CanRemove, tree
      <4>. QED
        BY <1>0, <4>1, <4>2, Steps DEF World, Begins, GcRead, GcDecide, tree
    <3>. QED
      BY <1>0, <2>1, <3>1 DEF UnlockOK
  <2>. QED
    BY <2>1, LockSteps
<1>2. ASSUME NEW p \in Proc, pc'[p] \in {"unlock", "dunlock"}
      PROVE  lock' # None /\ lock' = snap'[p].lock
  <2>1. CASE lock # None /\ lock' = lock /\ snap'[p].lock = lock
    BY <2>1
  <2>2. CASE pc[p] = pc'[p] /\ snap'[p] = snap[p]
    <3>1. lock # None /\ lock = snap[p].lock
      BY <1>0, <1>2, <2>2 DEF UnlockOK
    <3>2. lock' = lock
      <4>1. ASSUME NEW q \in Proc, pc[q] \in {"unlock", "dunlock"}, pc'[q] \notin {"unlock", "dunlock"}
            PROVE  FALSE
        BY <1>2, <2>2, <4>1, OneUnlocks
      <4>. QED
        BY <3>1, <4>1, LockSteps
    <3>. QED
      BY <2>2, <3>1, <3>2
  <2>. QED
    BY <1>2, <2>1, <2>2, ReadsLock
<1>3. ASSUME NEW a \in Agent, snap'[a].lock # None
      PROVE  snap'[a].lock.agent \in {a, None}
  <2>0. /\ a \in Proc /\ a # Gc /\ NoSnap.lock = None
        /\ snap[a].lock # None => snap[a].lock.agent \in {a, None}
    BY <1>0, Apart DEF NoSnap, UnlockOK
  <2>1. CASE snap'[a] = snap[a]
    BY <1>3, <2>0, <2>1
  <2>2. CASE Command(a)
    <3>1. CASE ClaimList(a)
      <4>1. [NoSnap EXCEPT !.lock = lock].lock = lock
        BY DEF NoSnap
      <4>2. \/ Goto(a, "idle")
            \/ ClaimableBy(lock, a) /\ \E at : \E r : Read(a, at, r) /\ r.lock = lock
        BY <3>1, <4>1 DEF ClaimList
      <4>. QED
        BY <1>0, <1>3, <2>0, <4>2, GotoMoves, ReadMoves DEF ClaimableBy, Plain
    <3>2. CASE RemoveSurvey(a)
      <4>1. \/ Goto(a, "idle")
            \/ ClaimableBy(lock, a) /\ \E at : \E r : Read(a, at, r) /\ r.lock = lock
        BY <3>2, RemoveReads
      <4>. QED
        BY <1>0, <1>3, <2>0, <4>1, GotoMoves, ReadMoves DEF ClaimableBy, Plain
    <3>3. CASE \E at : Goto(a, at)
      BY <1>0, <1>3, <2>0, <3>3, GotoMoves
    <3>. QED
      BY <2>2, <3>1, <3>2, <3>3 DEF Command, AddCheck, AddLocked, Remember, ClaimUnlock, ClaimLock,
         ClaimRelock, PutBack, Release
  <2>3. CASE Detach(a) \/ Crash(a)
    <3>1. \E at : Goto(a, at)
      BY <2>3 DEF Detach, DetachUnlock, DetachRemove, DetachRelock, PutBack, DetachBranch, Crash
    <3>. QED
      BY <1>0, <1>3, <2>0, <3>1, GotoMoves
  <2>. QED
    BY <1>0, <2>0, <2>1, <2>2, <2>3, Steps, CommandMoves, OtherMoves, Apart
       DEF Moves, World, Begins, procs
<1>. QED
  BY <1>1, <1>2, <1>3 DEF UnlockOK

-----------------------------------------------------------------------------
(* Holders.                                                                 *)

(* The lock of a live agent is opened by that agent only.                   *)
LEMMA OwnUnlock ==
  ASSUME IInv, NEW a \in Agent, a \in live, InLock(a),
         NEW p \in Proc, pc[p] \in {"unlock", "dunlock"}
  PROVE  p = a
<1>0. lock = snap[p].lock /\ lock # None /\ lock.agent = a
  BY DEF IInv, UnlockOK, InLock
<1>1. CASE p \in Agent
  <2>1. a \in {p, None}
    BY <1>0, <1>1 DEF IInv, UnlockOK
  <2>. QED
    BY <2>1, Apart
<1>2. CASE p = Gc
  <2>1. pc[Gc] = "dunlock"
    BY <1>2 DEF IInv, GcOK, GcPoints
  <2>. QED
    BY <1>0, <1>2, <2>1 DEF IInv, GcOK
<1>. QED
  BY <1>1, <1>2, Apart

LEMMA LockStaysLive ==
  ASSUME Premise, IInv, [Next]_vars, NEW a \in Agent, a \in live, InLock(a), lock' # lock
  PROVE  lock' = None /\ pc[a] \in {"unlock", "dunlock"}
<1>1. lock # None
  BY DEF InLock
<1>. QED
  BY <1>1, LockSteps, OwnUnlock

(* What becomes of the agents that hold, and of those at work.              *)
LEMMA NextHolds ==
  ASSUME Premise, IInv, [Next]_vars
  PROVE  HoldsOK'
<1>0. TypeOK /\ HoldsOK /\ Agent \subseteq Proc /\ Gc \notin Agent /\ holds \subseteq Agent
  BY Apart DEF IInv, TypeOK
<1>1. CASE World
  BY <1>0, <1>1 DEF World, procs, HoldsOK, Idle, InLock
<1>2. ASSUME NEW p \in Proc, Begins(p) PROVE HoldsOK'
  BY <1>0, <1>2 DEF Begins, HoldsOK, HolderPoints, Idle, InLock
(* A process that changes neither holds nor live, and of which the points   *)
(* are all that matters.                                                    *)
<1>3. ASSUME NEW p \in Proc, Moves(p), live' = live, holds' \subseteq holds \cup {p},
             p \in holds' => /\ p \in live /\ pc'[p] \in HolderPoints
                             /\ pc'[p] # "lock" => InLock(p)'
      PROVE  HoldsOK'
  <2>1. holds' \subseteq live'
    BY <1>0, <1>3 DEF HoldsOK
  <2>2. ASSUME NEW a \in Agent, ~Idle(a)' PROVE a \in live'
    BY <1>0, <1>3, <2>2 DEF HoldsOK, Moves, Idle
  <2>3. ASSUME NEW a \in holds', a # p
        PROVE  pc'[a] \in HolderPoints /\ (pc'[a] # "lock" => InLock(a)')
    <3>1. a \in holds /\ a \in Agent /\ a \in live /\ pc'[a] = pc[a]
      BY <1>0, <1>3, <2>3 DEF HoldsOK, Moves
    <3>2. pc[a] \in HolderPoints /\ (pc[a] # "lock" => InLock(a))
      BY <1>0, <3>1 DEF HoldsOK
    <3>3. ASSUME InLock(a), lock' # lock PROVE FALSE
      <4>1. lock' = None /\ pc[a] \in {"unlock", "dunlock"}
        BY <3>1, <3>3, LockStaysLive
      <4>2. PICK q \in Proc : pc[q] \in {"unlock", "dunlock"} /\ pc'[q] \notin {"unlock", "dunlock"}
        BY <3>3, <4>1, LockSteps DEF InLock
      <4>3. q = a
        BY <4>1, <4>2, <1>0, OneUnlocks, <3>1
      <4>. QED
        BY <3>1, <4>1, <4>2, <4>3
    <3>. QED
      BY <3>1, <3>2, <3>3 DEF InLock
  <2>. QED
    BY <1>0, <1>3, <2>1, <2>2, <2>3 DEF HoldsOK
<1>4. ASSUME NEW a \in Agent, Command(a) PROVE HoldsOK'
  <2>0. /\ a \in Proc /\ Moves(a) /\ a # None
        /\ a \in live /\ (a \in holds /\ pc[a] # "lock" => InLock(a))
    <3>1. Moves(a)
      BY <1>4, CommandMoves, <1>0
    <3>. QED
      BY <1>0, <3>1, Apart DEF HoldsOK, Moves
  <2>1. CASE AddCheck(a) \/ Remember(a)
    <3>1. /\ UNCHANGED <<live, holds, lock>> /\ pc[a] # "lock"
          /\ \E at \in {"idle", "create"} : Goto(a, at)
      BY <2>1 DEF AddCheck, Remember
    <3>. QED
      BY <1>0, <1>3, <2>0, <3>1, GotoMoves DEF HolderPoints, InLock
  <2>2. CASE Release(a)
    <3>1. UNCHANGED <<live, holds, lock>> /\ pc[a] = "release" /\ Goto(a, "idle")
      BY <2>2 DEF Release
    <3>. QED
      BY <1>0, <1>3, <2>0, <3>1, GotoMoves DEF HolderPoints, HoldsOK
  <2>3. CASE AddLocked(a)
    <3>1. /\ live' = live /\ pc[a] = "create"
          /\ \/ UNCHANGED <<lock, holds>> /\ Goto(a, "idle")
             \/ /\ ~reg
                /\ lock' = [owner |-> OwnerOf[a], agent |-> IF op[a] = "add" THEN a ELSE None]
                /\ \/ op[a] = "add" /\ Goto(a, "remember") /\ holds' = holds \cup {a}
                   \/ holds' = holds /\ Goto(a, "idle")
      BY <2>3 DEF AddLocked
    <3>2. ~reg => a \notin holds
      BY <2>0, <3>1 DEF IInv, UnlockOK, InLock
    <3>3. lock' = [owner |-> OwnerOf[a], agent |-> a] => InLock(a)'
      <4>1. [owner |-> OwnerOf[a], agent |-> a] \in Locks
        BY ConstantsAssumption DEF Locks
      <4>. QED
        BY <4>1, Apart DEF InLock
    <3>4. CASE UNCHANGED <<lock, holds>> /\ Goto(a, "idle")
      BY <1>0, <1>3, <2>0, <3>1, <3>4, GotoMoves DEF HolderPoints, InLock
    <3>5. CASE ~reg /\ holds' = holds /\ Goto(a, "idle")
      BY <1>0, <1>3, <2>0, <3>1, <3>2, <3>5
    <3>6. CASE /\ op[a] = "add" /\ lock' = [owner |-> OwnerOf[a], agent |-> a]
               /\ Goto(a, "remember") /\ holds' = holds \cup {a}
      BY <1>0, <1>3, <2>0, <3>1, <3>3, <3>6, GotoMoves DEF HolderPoints
    <3>. QED
      BY <3>1, <3>4, <3>5, <3>6
  <2>4. CASE ClaimList(a)
    <3>1. /\ UNCHANGED <<live, holds, lock>> /\ pc[a] = "list"
          /\ Goto(a, "idle") \/ \E at \in {"remember", "unlock", "lock"} : \E r : Read(a, at, r)
      BY <2>4 DEF ClaimList
    <3>2. pc'[a] \in {"idle", "remember", "unlock", "lock"}
      BY <1>0, <2>0, <3>1, GotoMoves, ReadMoves
    <3>. QED
      BY <1>0, <1>3, <2>0, <3>1, <3>2 DEF HolderPoints, InLock
  <2>5. CASE ClaimUnlock(a)
    <3>1. /\ UNCHANGED <<live, holds>> /\ pc[a] = "unlock"
          /\ Goto(a, "lock") \/ (lock' = lock /\ Goto(a, "idle"))
      BY <2>5 DEF ClaimUnlock
    <3>2. pc'[a] = "lock" \/ (lock' = lock /\ pc'[a] = "idle")
      BY <1>0, <2>0, <3>1, GotoMoves
    <3>. QED
      BY <1>0, <1>3, <2>0, <3>1, <3>2 DEF HolderPoints, InLock
  <2>6. CASE ClaimLock(a)
    <3>1. /\ live' = live
          /\ \/ /\ lock' = [owner |-> OwnerOf[a], agent |-> a] /\ holds' = holds \cup {a}
                /\ Goto(a, "remember")
             \/ holds' = holds \ {a}
      BY <2>6 DEF ClaimLock
    <3>2. lock' = [owner |-> OwnerOf[a], agent |-> a] => InLock(a)'
      <4>1. [owner |-> OwnerOf[a], agent |-> a] \in Locks
        BY ConstantsAssumption DEF Locks
      <4>. QED
        BY <4>1, Apart DEF InLock
    <3>. QED
      BY <1>0, <1>3, <2>0, <3>1, <3>2, GotoMoves DEF HolderPoints
  <2>7. CASE ClaimRelock(a)
    <3>1. UNCHANGED <<live, holds>> /\ pc[a] = "relock"
      BY <2>7 DEF ClaimRelock, PutBack
    <3>. QED
      BY <1>0, <1>3, <2>0, <3>1 DEF HoldsOK, HolderPoints
  <2>8. CASE RemoveSurvey(a)
    <3>1. /\ UNCHANGED <<live, lock>> /\ pc[a] = "survey"
          /\ holds' = holds \ {a} \/ (holds' = holds /\ Goto(a, "idle"))
      BY <2>8, RemoveReads DEF RemoveSurvey
    <3>. QED
      BY <1>0, <1>3, <2>0, <3>1, GotoMoves DEF HolderPoints, InLock
  <2>. QED
    BY <1>4, <2>1, <2>2, <2>3, <2>4, <2>5, <2>6, <2>7, <2>8 DEF Command
<1>5. ASSUME NEW p \in Proc, Detach(p) \/ Crash(p) PROVE HoldsOK'
  <2>1. live' = live /\ Moves(p)
    BY <1>0, <1>5, OtherMoves DEF Detach, DetachUnlock, DetachRemove, DetachRelock, PutBack, DetachBranch,
       Crash
  <2>2. p \notin holds'
    <3>1. CASE Crash(p)
      BY <3>1 DEF Crash
    <3>2. CASE Detach(p)
      <4>1. holds' = holds /\ pc[p] \notin HolderPoints
        BY <3>2 DEF Detach, DetachUnlock, DetachRemove, DetachRelock, PutBack, DetachBranch, HolderPoints
      <4>. QED
        BY <1>0, <4>1 DEF HoldsOK
    <3>. QED
      BY <1>5, <3>1, <3>2
  <2>3. holds' \subseteq holds
    BY <1>5 DEF Detach, DetachUnlock, DetachRemove, DetachRelock, PutBack, DetachBranch, Crash
  <2>. QED
    BY <1>3, <2>1, <2>2, <2>3
<1>6. CASE GcRead \/ GcDecide
  <2>1. UNCHANGED <<live, holds>> /\ Moves(Gc) /\ Gc \notin holds
    BY <1>0, <1>6, OtherMoves, Apart DEF GcRead, GcDecide
  <2>. QED
    BY <1>3, <2>1, Apart
<1>. QED
  BY <1>1, <1>2, <1>4, <1>5, <1>6, <1>0, Steps

-----------------------------------------------------------------------------
(* Work.                                                                    *)

(* The part of WorkOK for commands that do not overlap.                     *)
Solitary == ~overlap => \A p, q \in Proc : Idle(p) \/ Idle(q) \/ p = q
Kept(p) ==
  /\ pc[p] \in {"dunlock", "dremove", "dbranch"} => (snap[p].drop => merged)
  /\ pc[p] \in {"dunlock", "dremove"} => merged \/ ~detached
  /\ pc[p] = "dremove" => lock = None
  /\ pc[p] = "dbranch" => ~dir /\ snap[p].drop

LEMMA WorkParts ==
  WorkOK <=> Solitary /\ (~overlap /\ ~evicting => (reg => dir) /\ \A p \in Proc : Kept(p))
  BY DEF WorkOK, Solitary, Kept

LEMMA MovesSolitary ==
  ASSUME WorkOK, NEW p \in Proc, Moves(p), overlap' = overlap
  PROVE  Solitary' /\ (~overlap => \A q \in Proc : q # p => Idle(q)')
  BY WorkParts DEF Solitary, Moves, Idle

(* A process moves alone: what is to be shown is about it only.             *)
LEMMA MovesWork ==
  ASSUME WorkOK, NEW p \in Proc, Moves(p), UNCHANGED <<overlap, evicting>>,
         ~overlap /\ ~evicting => (reg => dir)' /\ Kept(p)'
  PROVE  WorkOK'
<1>1. Solitary' /\ (~overlap => \A q \in Proc : q # p => Idle(q)')
  BY MovesSolitary
<1>2. \A q \in Proc : Idle(q)' => Kept(q)'
  BY DEF Idle, Kept
<1>3. WorkOK' <=> Solitary' /\ ((~overlap /\ ~evicting)' => (reg => dir)' /\ \A q \in Proc : Kept(q)')
  BY DEF WorkOK, Solitary, Kept
<1>. QED
  BY <1>1, <1>2, <1>3

(* An agent at work between commands is not the one whose worktree goes.    *)
LEMMA WorldWork ==
  ASSUME IInv, World
  PROVE  WorkOK'
<1>0. /\ TypeOK /\ WorkOK
      /\ UNCHANGED <<pc, op, snap, lock, reg, branch, detached, evicting, overlap>>
  BY DEF IInv, World, procs
<1>1. Solitary'
  BY <1>0, WorkParts DEF Solitary, Idle
<1>2. ASSUME ~overlap, ~evicting PROVE (reg => dir)' /\ \A p \in Proc : Kept(p)'
  <2>1. dir' = dir /\ (reg => dir) /\ \A p \in Proc : Kept(p)
    BY <1>0, <1>2, WorkParts DEF World
  <2>2. CASE merged => merged'
    BY <1>0, <2>1, <2>2 DEF Kept
  <2>3. CASE merged /\ ~merged'
    <3>1. PICK a \in live : dir /\ Idle(a) /\ InLock(a)
      BY <1>2, <2>3 DEF World, Bound
    <3>2. a \in Agent
      BY <1>0 DEF TypeOK
    <3>3. ASSUME NEW p \in Proc PROVE pc[p] \notin {"dunlock", "dremove", "dbranch"}
      <4>1. pc[p] # "dunlock"
        BY <3>1, <3>2, OwnUnlock DEF Idle
      <4>2. pc[p] # "dremove" /\ pc[p] # "dbranch"
        BY <2>1, <3>1 DEF Kept, InLock
      <4>. QED
        BY <4>1, <4>2
    <3>. QED
      BY <1>0, <2>1, <3>3 DEF Kept
  <2>. QED
    BY <2>2, <2>3
<1>. QED
  BY <1>0, <1>1, <1>2 DEF WorkOK, Solitary, Kept

LEMMA NextWork ==
  ASSUME Premise, IInv, [Next]_vars
  PROVE  WorkOK'
<1>0. TypeOK /\ WorkOK /\ Agent \subseteq Proc /\ Gc \in Proc
  BY Apart DEF IInv
<1>1. CASE World
  BY <1>1, WorldWork
<1>2. ASSUME NEW p \in Proc, Begins(p) PROVE WorkOK'
  <2>1. ~overlap' => \A q \in Proc : Idle(q)
    BY <1>2 DEF Begins
  <2>2. ~overlap' => \A q \in Proc : (q # p => Idle(q)') /\ pc'[q] \notin {"dunlock", "dremove", "dbranch"}
    BY <1>2, <2>1 DEF Begins, Idle
  <2>3. UNCHANGED <<reg, dir, evicting>> /\ (~overlap' => ~overlap)
    BY <1>2 DEF Begins, tree
  <2>. QED
    BY <1>0, <2>2, <2>3 DEF WorkOK
<1>3. ASSUME NEW a \in Agent, Command(a) PROVE WorkOK'
  <2>0. a \in Proc /\ Moves(a)
    BY <1>0, <1>3, CommandMoves
  <2>1. CASE RemoveSurvey(a)
    <3>1. UNCHANGED <<overlap, evicting, reg, dir, merged, detached, lock>>
      BY <2>1 DEF RemoveSurvey, tree
    <3>2. CASE Goto(a, "idle")
      BY <1>0, <2>0, <3>1, <3>2, GotoMoves, MovesWork DEF Kept, WorkOK
    <3>3. CASE \E r : /\ Read(a, IF lock # None THEN "dunlock" ELSE "dremove", r)
                      /\ r.drop => merged
                      /\ merged \/ ~detached
      BY <1>0, <2>0, <3>1, <3>3, ReadMoves, MovesWork DEF Kept, WorkOK
    <3>. QED
      BY <2>1, <3>2, <3>3, RemoveReads
  <2>2. CASE \/ AddCheck(a) \/ AddLocked(a) \/ Remember(a) \/ ClaimUnlock(a) \/ ClaimLock(a)
             \/ ClaimRelock(a) \/ Release(a)
    <3>1. /\ UNCHANGED <<overlap, evicting>> /\ (UNCHANGED <<reg, dir>> \/ dir')
          /\ \E at \in {"idle", "create", "remember", "lock", "relock"} : Goto(a, at)
      BY <2>2 DEF AddCheck, AddLocked, Remember, ClaimUnlock, ClaimLock, ClaimRelock, PutBack, Release, tree
    <3>. QED
      BY <1>0, <2>0, <3>1, GotoMoves, MovesWork DEF Kept, WorkOK
  <2>3. CASE ClaimList(a)
    <3>1. /\ UNCHANGED <<overlap, evicting, reg, dir>>
          /\ Goto(a, "idle") \/ \E at \in {"remember", "unlock", "lock"} : \E r : Read(a, at, r)
      BY <2>3 DEF ClaimList, tree
    <3>2. pc'[a] \in {"idle", "remember", "unlock", "lock"}
      BY <1>0, <2>0, <3>1, GotoMoves, ReadMoves
    <3>. QED
      BY <1>0, <2>0, <3>1, <3>2, MovesWork DEF Kept, WorkOK
  <2>. QED
    BY <1>3, <2>1, <2>2, <2>3 DEF Command
<1>4. ASSUME NEW p \in Proc, Detach(p) \/ Crash(p) PROVE WorkOK'
  <2>0. Moves(p) /\ UNCHANGED <<overlap, evicting>>
    BY <1>0, <1>4, OtherMoves DEF Detach, DetachUnlock, DetachRemove, DetachRelock, PutBack, DetachBranch,
       Crash
  <2>1. ~overlap /\ ~evicting => (reg => dir) /\ Kept(p)
    BY <1>0, WorkParts
  <2>2. CASE DetachUnlock(p)
    BY <1>0, <2>0, <2>1, <2>2, GotoMoves, MovesWork DEF DetachUnlock, Kept, tree
  <2>3. CASE DetachRemove(p)
    <3>1. /\ (reg' = reg /\ dir' = dir) \/ (~reg' /\ ~dir')
          /\ merged' = merged
          /\ \/ snap[p].drop /\ ~dir' /\ Goto(p, "dbranch")
             \/ \E at \in {"idle", "release", "drelock"} : Goto(p, at)
          /\ pc[p] = "dremove"
      BY <2>3 DEF DetachRemove, Detached, tree
    <3>. QED
      BY <1>0, <2>0, <2>1, <3>1, GotoMoves, MovesWork DEF Kept
  <2>4. CASE DetachRelock(p) \/ DetachBranch(p) \/ Crash(p)
    <3>1. UNCHANGED <<reg, dir>> /\ \E at \in {"idle", "release"} : Goto(p, at)
      BY <2>4 DEF DetachRelock, PutBack, DetachBranch, Detached, Crash, tree
    <3>. QED
      BY <1>0, <2>0, <2>1, <3>1, GotoMoves, MovesWork DEF Kept
  <2>. QED
    BY <1>4, <2>2, <2>3, <2>4 DEF Detach
<1>5. CASE GcRead
  <2>1. /\ UNCHANGED <<overlap, evicting, reg, dir>> /\ \E r : Read(Gc, "decide", r)
    BY <1>5 DEF GcRead, tree
  <2>. QED
    BY <1>0, <1>5, <2>1, OtherMoves, ReadMoves, MovesWork DEF Kept, WorkOK
<1>6. CASE GcDecide
  <2>1. UNCHANGED <<overlap, evicting, reg, dir, merged, detached, lock>> /\ Moves(Gc)
    BY <1>0, <1>6, OtherMoves DEF GcDecide, tree
  <2>2. CASE Goto(Gc, "idle")
    BY <1>0, <2>1, <2>2, GotoMoves, MovesWork DEF Kept, WorkOK
  <2>3. CASE \E r : /\ Read(Gc, IF lock # None THEN "dunlock" ELSE "dremove", r)
                    /\ r.drop => merged
                    /\ reg /\ (~dir \/ merged)
    BY <1>0, <2>1, <2>3, ReadMoves, MovesWork DEF Kept, WorkOK
  <2>. QED
    BY <1>0, <1>6, <2>2, <2>3, GcReads
<1>. QED
  BY <1>0, <1>1, <1>2, <1>3, <1>4, <1>5, <1>6, Steps

-----------------------------------------------------------------------------
LEMMA InitIInv == Init => IInv
<1>. SUFFICES ASSUME Init PROVE IInv
  OBVIOUS
<1>0. Gc \in Proc /\ Agent \subseteq Proc /\ NoSnap.lock = None
  BY Apart DEF NoSnap
<1>1. /\ \A p \in Proc : pc[p] = "idle" /\ snap[p] = NoSnap
      /\ lock = None /\ holds = {} /\ dir = reg
  BY DEF Init
<1>2. OpOK /\ AloneOK /\ GcOK
  BY <1>0, <1>1 DEF OpOK, AloneOK, GcOK, GcPoints, Idle
<1>3. UnlockOK /\ HoldsOK
  BY <1>0, <1>1 DEF UnlockOK, HoldsOK, Idle
<1>4. WorkOK
  BY <1>1 DEF WorkOK, Idle
<1>. QED
  BY <1>2, <1>3, <1>4, InitType DEF IInv

LEMMA WorktreeInvariant ==
  ASSUME Premise
  PROVE  Spec => []IInv
<1>1. IInv /\ [Next]_vars => IInv'
  BY NextType, NextAlone, NextGc, NextUnlock, NextHolds, NextWork DEF IInv
<1>. QED
  BY <1>1, InitIInv, PTL DEF Spec

(* Claims exclude each other, for any number of agents of any owners and    *)
(* wherever commands die: who was told it has the worktree is in the lock.  *)
THEOREM ClaimsExclude ==
  ASSUME Premise
  PROVE  Spec => []HoldersAreBound
<1>1. IInv => HoldersAreBound
  <2>. SUFFICES ASSUME IInv, NEW a \in holds, a \in live, pc[a] = "idle"
                PROVE  reg /\ lock # None /\ lock.agent = a
    BY DEF HoldersAreBound
  <2>1. InLock(a)
    BY DEF IInv, HoldsOK
  <2>. QED
    BY <2>1 DEF IInv, UnlockOK, InLock
<1>. QED
  BY <1>1, WorktreeInvariant, PTL

(* The lock of a live agent is opened by its own commands only.             *)
THEOREM LiveLocksStay ==
  ASSUME Premise
  PROVE  Spec => LiveLockKept
<1>1. IInv /\ [Next]_vars
        => [\A a \in live : InLock(a) /\ lock' # lock => pc[a] # "idle"]_vars
  <2>. SUFFICES ASSUME IInv, [Next]_vars, NEW a \in live, InLock(a), lock' # lock
                PROVE  pc[a] # "idle"
    OBVIOUS
  <2>1. a \in Agent
    BY DEF IInv, TypeOK
  <2>. QED
    BY <2>1, LockStaysLive
<1>. QED
  BY <1>1, WorktreeInvariant, PTL DEF Spec, LiveLockKept

(* While commands do not overlap, no branch and no detached HEAD goes       *)
(* before it was merged, whatever agents write between the steps.           *)
THEOREM WorkIsKept ==
  ASSUME Premise
  PROVE  Spec => WorkKept
<1>. DEFINE A == ~overlap /\ ~evicting => /\ branch /\ ~branch' => merged
                                          /\ reg /\ ~reg' /\ detached => merged
<1>1. IInv /\ [Next]_vars => [A]_vars
  <2>. SUFFICES ASSUME IInv, [Next]_vars, ~overlap, ~evicting
                PROVE  (branch /\ ~branch' => merged) /\ (reg /\ ~reg' /\ detached => merged)
    OBVIOUS
  <2>0. TypeOK /\ \A p \in Proc : Kept(p)
    BY WorkParts DEF IInv
  <2>1. ASSUME NEW a \in Agent, Command(a) PROVE (branch => branch') /\ (reg => reg')
    BY <2>1 DEF Command, AddCheck, AddLocked, Remember, ClaimList, ClaimUnlock, ClaimLock, ClaimRelock,
       PutBack, RemoveSurvey, Release, tree
  <2>2. ASSUME NEW p \in Proc, DetachRemove(p) PROVE branch' = branch /\ (~reg' => merged \/ ~detached)
    BY <2>0, <2>2 DEF DetachRemove, Kept, tree
  <2>3. ASSUME NEW p \in Proc, DetachBranch(p) PROVE merged /\ reg' = reg
    BY <2>0, <2>3 DEF DetachBranch, Kept
  <2>4. ASSUME NEW p \in Proc, DetachUnlock(p) \/ DetachRelock(p) \/ Crash(p) \/ GcRead \/ GcDecide
        PROVE  branch' = branch /\ reg' = reg
    BY <2>4 DEF DetachUnlock, DetachRelock, PutBack, Crash, GcRead, GcDecide, tree
  <2>. QED
    BY <2>0, <2>1, <2>2, <2>3, <2>4, Steps, Apart DEF World, Begins, Detach, tree
<1>2. [][A]_vars => WorkKept
  BY PTL DEF WorkKept
<1>. HIDE DEF A
<1>. QED
  BY <1>1, <1>2, WorktreeInvariant, PTL DEF Spec
=============================================================================
