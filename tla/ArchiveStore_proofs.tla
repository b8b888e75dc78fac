-------------------------- MODULE ArchiveStore_proofs --------------------------
(***************************************************************************)
(* What ArchiveStore guarantees whatever the number of processes, bodies,  *)
(* keys and calls, and whichever failures are injected.                    *)
(***************************************************************************)
EXTENDS ArchiveStore, FiniteSetTheorems, SequenceTheorems, TLAPS

(* The shared part of TypeOK.                                               *)
TablesOK ==
  /\ file \in SUBSET Body
  /\ row \in SUBSET Body
  /\ decision \in [Key -> Decisions \cup {None}]
  /\ cache \in [Slot -> Body \cup {None}]
  /\ age \in [Call -> {"none", "new", "old", "purged"}]
  /\ io \in [Call -> SUBSET Body]
  /\ expandRows \in [Body -> Nat]
  /\ sent \in [Key -> SUBSET Turn]

(* What each control point knows about the operation it belongs to.         *)
JobOK(p) ==
  /\ pc[p] \in {"probe", "rename"} => stage[p] # << >>
  /\ job[p].op = "rewrite" => /\ job[p].key \in Key /\ job[p].turn \in Turn
                              /\ job[p].body = Content[job[p].key]
  /\ job[p].op = "call" => job[p].call \in Call
  /\ pc[p] = "decide" => job[p].op = "rewrite"
  /\ pc[p] \in {"read", "freeze"} => job[p].body \in Body

(* The processes' part of TypeOK, strengthened to be inductive.             *)
LocalsOK ==
  /\ pc \in [Proc -> Points]
  /\ job \in [Proc -> Jobs]
  /\ stage \in [Proc -> Seq(Body)]
  /\ made \in [Proc -> SUBSET Body]
  /\ doomed \in [Proc -> SUBSET Body]
  /\ \A p \in Proc : JobOK(p)

TypeInv == TablesOK /\ LocalsOK

LEMMA TypeInvTypeOK == TypeInv => TypeOK
  BY DEF TypeInv, TypeOK, TablesOK, LocalsOK

LEMMA InitTypeInv == Init => TypeInv
  BY ConstantsAssumption
  DEF Init, TypeInv, TablesOK, LocalsOK, JobOK, Jobs, NoJob, Points

LEMMA SameTables ==
  ASSUME TablesOK, UNCHANGED <<file, tables, sent>>
  PROVE  TablesOK'
  BY DEF TablesOK, tables

LEMMA SameLocals ==
  ASSUME LocalsOK, UNCHANGED locals
  PROVE  LocalsOK'
  BY DEF LocalsOK, locals, JobOK

(* Leaving an operation, starting one and moving between control points     *)
(* keep the local state well formed.                                        *)
LEMMA FinishLocals ==
  ASSUME LocalsOK, NEW p \in Proc, Finish(p)
  PROVE  LocalsOK'
  BY DEF LocalsOK, Finish, JobOK, Jobs, NoJob, Points

LEMMA BeginLocals ==
  ASSUME LocalsOK, NEW p \in Proc, NEW at \in Points, NEW j \in Jobs,
         NEW bodies \in Seq(Body), Begin(p, at, j, bodies),
         at \in {"probe", "rename"} => bodies # << >>,
         j.op = "rewrite" => /\ j.key \in Key /\ j.turn \in Turn
                             /\ j.body = Content[j.key],
         j.op = "call" => j.call \in Call,
         at # "decide",
         at \in {"read", "freeze"} => j.body \in Body
  PROVE  LocalsOK'
  BY DEF LocalsOK, Begin, JobOK

LEMMA GotoLocals ==
  ASSUME LocalsOK, NEW p \in Proc, NEW at \in Points, Goto(p, at),
         at \notin {"probe", "rename"},
         at = "decide" => job[p].op = "rewrite",
         at \in {"read", "freeze"} => job[p].body \in Body
  PROVE  LocalsOK'
  BY DEF LocalsOK, Goto, JobOK

(* An operation goes on to its next file, or to remove files.               *)
LEMMA FilesLocals ==
  ASSUME LocalsOK, NEW p \in Proc, NEW at \in Points,
         at \in {"unlink", "cleanup"} \/ at = pc[p],
         pc' = [pc EXCEPT ![p] = at],
         made' \in [Proc -> SUBSET Body],
         doomed' \in [Proc -> SUBSET Body],
         UNCHANGED <<job, stage>>
  PROVE  LocalsOK'
  BY DEF LocalsOK, JobOK

(* What is left to write after the head of a non-empty stage.               *)
LEMMA NextFiles ==
  ASSUME NEW s \in Seq(Body), s # << >>
  PROVE  /\ Head(s) \in Body
         /\ Tail(s) \in Seq(Body)
         /\ Len(s) # 1 => Tail(s) # << >>
<1>1. Len(s) \in Nat /\ Len(s) # 0
  BY EmptySeq
<1>2. Head(s) \in Body /\ Tail(s) \in Seq(Body) /\ Len(Tail(s)) = Len(s) - 1
  BY HeadTailProperties
<1>3. Tail(s) = << >> => Len(Tail(s)) = 0
  BY EmptySeq
<1>4. QED
  BY <1>1, <1>2, <1>3

LEMMA StepTypeInv ==
  ASSUME TypeInv, NEW p \in Proc, Step(p)
  PROVE  TypeInv'
<1> USE DEF TypeInv
<1> Points = {"idle", "probe", "rename", "insert", "decide", "cache",
              "cleanup", "unlink", "read", "freeze"}
  BY DEF Points
<1>1. CASE StartPut(p)
  <2>1. PICK b \in Body :
          Begin(p, "probe", [NoJob EXCEPT !.op = "put", !.body = b, !.refs = {b}], <<b>>)
    BY <1>1 DEF StartPut
  <2> DEFINE j == [NoJob EXCEPT !.op = "put", !.body = b, !.refs = {b}]
  <2>2. j \in Jobs /\ j.op = "put"
    BY DEF Jobs, NoJob, Operations
  <2>3. <<b>> \in Seq(Body) /\ <<b>> # << >>
    OBVIOUS
  <2>4. Begin(p, "probe", j, <<b>>)
    BY <2>1
  <2>5. LocalsOK'
    <3> HIDE DEF j
    <3>1. QED
      BY <2>2, <2>3, <2>4, BeginLocals
  <2>6. QED
    BY <1>1, <2>5, SameTables DEF StartPut
<1>2. CASE StartRemember(p)
  <2>1. PICK s \in Slot, b \in Body :
          Begin(p, "probe", [NoJob EXCEPT !.op = "remember", !.slot = s, !.body = b,
                                          !.refs = {b}], <<b>>)
    BY <1>2 DEF StartRemember
  <2> DEFINE j == [NoJob EXCEPT !.op = "remember", !.slot = s, !.body = b, !.refs = {b}]
  <2>2. j \in Jobs /\ j.op = "remember"
    BY DEF Jobs, NoJob, Operations
  <2>3. <<b>> \in Seq(Body) /\ <<b>> # << >>
    OBVIOUS
  <2>4. Begin(p, "probe", j, <<b>>)
    BY <2>1
  <2>5. LocalsOK'
    <3> HIDE DEF j
    <3>1. QED
      BY <2>2, <2>3, <2>4, BeginLocals
  <2>6. QED
    BY <1>2, <2>5, SameTables DEF StartRemember
<1>3. CASE StartRewrite(p)
  <2>1. PICK k \in Key, t \in Turn :
          \/ /\ decision[k] # None
             /\ sent' = [sent EXCEPT ![k] = @ \cup {decision[k].turn}]
             /\ UNCHANGED locals
          \/ /\ Begin(p, "probe",
                      [NoJob EXCEPT !.op = "rewrite", !.key = k, !.turn = t,
                                    !.body = Content[k], !.refs = {Content[k]}],
                      <<Content[k]>>)
             /\ UNCHANGED sent
    BY <1>3 DEF StartRewrite
  <2>2. CASE decision[k] # None /\ sent' = [sent EXCEPT ![k] = @ \cup {decision[k].turn}]
             /\ UNCHANGED locals
    <3>1. TablesOK'
      BY <1>3, <2>2 DEF StartRewrite, TablesOK, Decisions, tables
    <3>2. QED
      BY <2>2, <3>1, SameLocals
  <2>3. CASE Begin(p, "probe",
                   [NoJob EXCEPT !.op = "rewrite", !.key = k, !.turn = t,
                                 !.body = Content[k], !.refs = {Content[k]}],
                   <<Content[k]>>) /\ UNCHANGED sent
    <3> DEFINE j == [NoJob EXCEPT !.op = "rewrite", !.key = k, !.turn = t,
                                  !.body = Content[k], !.refs = {Content[k]}]
    <3>1. Content[k] \in Body
      BY ConstantsAssumption
    <3>2. j \in Jobs /\ j.op = "rewrite" /\ j.key = k /\ j.turn = t /\ j.body = Content[k]
      BY <3>1 DEF Jobs, NoJob, Operations
    <3>3. <<Content[k]>> \in Seq(Body) /\ <<Content[k]>> # << >>
      BY <3>1
    <3>4. Begin(p, "probe", j, <<Content[k]>>)
      BY <2>3
    <3>5. LocalsOK'
      <4> HIDE DEF j
      <4>1. QED
        BY <3>2, <3>3, <3>4, BeginLocals
    <3>6. QED
      BY <1>3, <2>3, <3>5, SameTables DEF StartRewrite
  <2>4. QED
    BY <2>1, <2>2, <2>3
<1>4. CASE StartCall(p)
  <2>1. PICK c \in Call, req \in Body \cup {None}, res \in Body \cup {None} :
          /\ age' = [age EXCEPT ![c] = "new"]
          /\ Begin(p, IF {req, res} = {None} THEN "insert" ELSE "probe",
                   [NoJob EXCEPT !.op = "call", !.call = c,
                                 !.refs = {req, res} \ {None}],
                   IF req = None THEN IF res = None THEN << >> ELSE <<res>>
                   ELSE IF res = None THEN <<req>> ELSE <<req, res>>)
    BY <1>4 DEF StartCall
  <2> DEFINE at == IF {req, res} = {None} THEN "insert" ELSE "probe"
             j  == [NoJob EXCEPT !.op = "call", !.call = c, !.refs = {req, res} \ {None}]
             bs == IF req = None THEN IF res = None THEN << >> ELSE <<res>>
                   ELSE IF res = None THEN <<req>> ELSE <<req, res>>
  <2>2. j \in Jobs /\ j.op = "call" /\ j.call = c
    BY DEF Jobs, NoJob, Operations
  <2>3. bs \in Seq(Body) /\ at \in {"insert", "probe"} /\ (at = "probe" => bs # << >>)
    OBVIOUS
  <2>4. Begin(p, at, j, bs)
    BY <2>1
  <2>5. LocalsOK'
    <3> HIDE DEF at, j, bs
    <3>1. QED
      BY <2>2, <2>3, <2>4, BeginLocals
  <2>6. TablesOK'
    BY <1>4, <2>1 DEF StartCall, TablesOK
  <2>7. QED
    BY <2>5, <2>6
<1>5. CASE ProbeFile(p)
  <2>1. stage[p] \in Seq(Body) /\ stage[p] # << >>
    BY <1>5 DEF ProbeFile, LocalsOK, JobOK
  <2>2. LocalsOK'
    BY <1>5, <2>1 DEF ProbeFile, LocalsOK, JobOK
  <2>3. QED
    BY <1>5, <2>2, SameTables DEF ProbeFile
<1>6. CASE RenameFile(p)
  <2>1. stage[p] \in Seq(Body) /\ stage[p] # << >>
    BY <1>6 DEF RenameFile, LocalsOK, JobOK
  <2>2. /\ Head(stage[p]) \in Body
        /\ Tail(stage[p]) \in Seq(Body)
        /\ Len(stage[p]) # 1 => Tail(stage[p]) # << >>
    BY <2>1, NextFiles
  <2>3. LocalsOK'
    BY <1>6, <2>2 DEF RenameFile, LocalsOK, JobOK
  <2>4. TablesOK'
    BY <1>6, <2>2 DEF RenameFile, TablesOK, tables
  <2>5. QED
    BY <2>3, <2>4
<1>7. CASE WriteFails(p)
  BY <1>7, FinishLocals, SameTables DEF WriteFails
<1>8. CASE InsertRow(p)
  <2>1. TablesOK'
    BY <1>8 DEF InsertRow, Rows, TablesOK, LocalsOK, Jobs
  <2>2. LocalsOK'
    BY <1>8, FinishLocals, GotoLocals DEF InsertRow
  <2>3. QED
    BY <2>1, <2>2
<1>9. CASE InsertRowFails(p)
  <2>1. CASE made[p] = {}
    BY <1>9, <2>1, FinishLocals, SameTables DEF InsertRowFails
  <2>2. CASE made[p] # {}
    <3>1. /\ pc' = [pc EXCEPT ![p] = "unlink"]
          /\ UNCHANGED <<job, stage>>
          /\ made' \in [Proc -> SUBSET Body]
          /\ doomed' \in [Proc -> SUBSET Body]
      BY <1>9, <2>2 DEF InsertRowFails, LocalsOK
    <3>2. QED
      BY <1>9, <3>1, FilesLocals, SameTables DEF InsertRowFails
  <2>3. QED
    BY <2>1, <2>2
<1>10. CASE InsertCallIo(p)
  <2>1. TablesOK'
    BY <1>10 DEF InsertCallIo, Rows, TablesOK, LocalsOK, Jobs, JobOK
  <2>2. QED
    BY <1>10, <2>1, FinishLocals DEF InsertCallIo
<1>11. CASE InsertCallIoFails(p)
  <2>1. LocalsOK'
    BY <1>11, FinishLocals, GotoLocals DEF InsertCallIoFails
  <2>2. QED
    BY <1>11, <2>1, SameTables DEF InsertCallIoFails
<1>12. CASE CleanupCheck(p)
  <2>1. CASE Finish(p)
    BY <1>12, <2>1, FinishLocals, SameTables DEF CleanupCheck
  <2>2. CASE ~Finish(p)
    <3>1. /\ pc' = pc \/ pc' = [pc EXCEPT ![p] = "unlink"]
          /\ UNCHANGED <<job, stage>>
          /\ made' \in [Proc -> SUBSET Body]
          /\ doomed' \in [Proc -> SUBSET Body]
      <4>1. PICK b \in made[p] :
              \/ /\ IF made[p] \ {b} = {} THEN Finish(p)
                    ELSE /\ made' = [made EXCEPT ![p] = made[p] \ {b}]
                         /\ UNCHANGED <<pc, job, stage, doomed>>
              \/ /\ made' = [made EXCEPT ![p] = made[p] \ {b}]
                 /\ doomed' = [doomed EXCEPT ![p] = {b}]
                 /\ pc' = [pc EXCEPT ![p] = "unlink"]
                 /\ UNCHANGED <<job, stage>>
        BY <1>12 DEF CleanupCheck
      <4>2. b \in Body /\ made[p] \ {b} \in SUBSET Body
        BY DEF LocalsOK
      <4>3. \/ UNCHANGED <<pc, job, stage, doomed>>
            \/ /\ doomed' = [doomed EXCEPT ![p] = {b}]
               /\ pc' = [pc EXCEPT ![p] = "unlink"]
               /\ UNCHANGED <<job, stage>>
        BY <2>2, <4>1
      <4>4. made' = [made EXCEPT ![p] = made[p] \ {b}]
        BY <2>2, <4>1
      <4>5. made' \in [Proc -> SUBSET Body]
        BY <4>2, <4>4 DEF LocalsOK
      <4>6. doomed' \in [Proc -> SUBSET Body]
        <5>1. CASE doomed' = doomed
          BY <5>1 DEF LocalsOK
        <5>2. CASE doomed' = [doomed EXCEPT ![p] = {b}]
          BY <4>2, <5>2 DEF LocalsOK
        <5>3. QED
          BY <4>3, <5>1, <5>2
      <4>7. QED
        BY <4>3, <4>5, <4>6
    <3>2. LocalsOK'
      <4>1. CASE pc' = pc
        BY <3>1, <4>1 DEF LocalsOK, JobOK
      <4>2. CASE pc' = [pc EXCEPT ![p] = "unlink"]
        BY <3>1, <4>2, FilesLocals
      <4>3. QED
        BY <3>1, <4>1, <4>2
    <3>3. QED
      BY <1>12, <3>2, SameTables DEF CleanupCheck
  <2>3. QED
    BY <2>1, <2>2
<1>13. CASE Unlink(p)
  <2>1. TablesOK'
    BY <1>13 DEF Unlink, TablesOK, tables
  <2>2. CASE Finish(p)
    BY <2>1, <2>2, FinishLocals
  <2>3. CASE ~Finish(p)
    <3>1. /\ pc' = pc \/ pc' = [pc EXCEPT ![p] = "cleanup"]
          /\ UNCHANGED <<job, stage>>
          /\ made' \in [Proc -> SUBSET Body]
          /\ doomed' \in [Proc -> SUBSET Body]
      BY <1>13, <2>3 DEF Unlink, LocalsOK
    <3>2. CASE pc' = pc
      BY <2>1, <3>1, <3>2 DEF LocalsOK, JobOK
    <3>3. CASE pc' = [pc EXCEPT ![p] = "cleanup"]
      BY <2>1, <3>1, <3>3, FilesLocals
    <3>4. QED
      BY <3>1, <3>2, <3>3
  <2>4. QED
    BY <2>2, <2>3
<1>14. CASE PutArchiveDecision(p)
  <2>1. job[p].key \in Key /\ job[p].turn \in Turn
    BY <1>14 DEF PutArchiveDecision, LocalsOK, JobOK
  <2>2. TablesOK'
    <3>1. CASE job[p].body \in row
      <4>1. [turn |-> job[p].turn, expanded |-> FALSE] \in Decisions
        BY <2>1 DEF Decisions
      <4>2. decision' \in [Key -> Decisions \cup {None}]
        BY <1>14, <2>1, <3>1, <4>1 DEF PutArchiveDecision, TablesOK
      <4>3. sent' \in [Key -> SUBSET Turn]
        BY <1>14, <2>1, <3>1 DEF PutArchiveDecision, TablesOK
      <4>4. QED
        BY <1>14, <4>2, <4>3 DEF PutArchiveDecision, TablesOK
    <3>2. CASE job[p].body \notin row
      BY <1>14, <3>2 DEF PutArchiveDecision, TablesOK
    <3>3. QED
      BY <3>1, <3>2
  <2>3. QED
    BY <1>14, <2>2, FinishLocals DEF PutArchiveDecision
<1>15. CASE PutReadCache(p)
  <2>1. TablesOK'
    BY <1>15 DEF PutReadCache, TablesOK, LocalsOK, Jobs
  <2>2. QED
    BY <1>15, <2>1, FinishLocals DEF PutReadCache
<1>16. CASE PutFails(p)
  BY <1>16, FinishLocals, SameTables DEF PutFails
<1>17. CASE StartExpand(p)
  <2>1. PICK b \in row :
          Begin(p, "read", [NoJob EXCEPT !.op = "expand", !.body = b], << >>)
    BY <1>17 DEF StartExpand
  <2>2. b \in Body
    BY DEF TablesOK
  <2>3. /\ [NoJob EXCEPT !.op = "expand", !.body = b] \in Jobs
        /\ [NoJob EXCEPT !.op = "expand", !.body = b].op = "expand"
        /\ [NoJob EXCEPT !.op = "expand", !.body = b].body = b
    BY <2>2 DEF Jobs, NoJob, Operations
  <2>4. << >> \in Seq(Body)
    OBVIOUS
  <2>5. LocalsOK'
    BY <2>1, <2>2, <2>3, <2>4, BeginLocals
  <2>6. QED
    BY <1>17, <2>5, SameTables DEF StartExpand
<1>18. CASE ReadArchiveFile(p)
  <2>1. job[p].body \in Body
    BY <1>18 DEF ReadArchiveFile, LocalsOK, JobOK
  <2>2. LocalsOK'
    BY <1>18, <2>1, FinishLocals, GotoLocals DEF ReadArchiveFile
  <2>3. QED
    BY <1>18, <2>2, SameTables DEF ReadArchiveFile
<1>19. CASE MarkExpandedRecorded(p)
  <2>1. job[p].body \in Body
    BY <1>19 DEF MarkExpandedRecorded, LocalsOK, JobOK
  <2>2. \A k \in Live(job[p].body) : decision[k] \in Decisions
    BY DEF Live, TablesOK
  <2>3. decision' \in [Key -> Decisions \cup {None}]
    BY <1>19, <2>2 DEF MarkExpandedRecorded, TablesOK, Decisions
  <2>4. expandRows' \in [Body -> Nat]
    BY <1>19, <2>1 DEF MarkExpandedRecorded, TablesOK
  <2>5. QED
    BY <1>19, <2>3, <2>4, FinishLocals DEF MarkExpandedRecorded, TablesOK
<1>20. CASE MarkExpandedFails(p)
  BY <1>20, FinishLocals, SameTables DEF MarkExpandedFails
<1>21. CASE PurgeCallsOlderThan(p)
  <2>1. TablesOK'
    BY <1>21 DEF PurgeCallsOlderThan, TablesOK
  <2>2. DoomedArchives \in SUBSET Body
    BY DEF DoomedArchives, TablesOK
  <2>3. CASE DoomedArchives = {}
    BY <1>21, <2>1, <2>3, SameLocals DEF PurgeCallsOlderThan
  <2>4. CASE DoomedArchives # {}
    <3>1. [NoJob EXCEPT !.op = "purge"] \in Jobs
          /\ [NoJob EXCEPT !.op = "purge"].op = "purge"
      BY DEF Jobs, NoJob, Operations
    <3>2. LocalsOK'
      <4>1. /\ pc' = [pc EXCEPT ![p] = "unlink"]
            /\ job' = [job EXCEPT ![p] = [NoJob EXCEPT !.op = "purge"]]
            /\ doomed' = [doomed EXCEPT ![p] = DoomedArchives]
            /\ UNCHANGED <<stage, made>>
        BY <1>21, <2>4 DEF PurgeCallsOlderThan
      <4> DEFINE j == [NoJob EXCEPT !.op = "purge"]
      <4> HIDE DEF j
      <4>2. j \in Jobs /\ j.op = "purge" /\ job' = [job EXCEPT ![p] = j]
        BY <3>1, <4>1 DEF j
      <4>3. ASSUME NEW q \in Proc PROVE JobOK(q)'
        <5>1. CASE q = p
          BY <4>1, <4>2, <5>1 DEF LocalsOK, JobOK
        <5>2. CASE q # p
          BY <4>1, <4>2, <5>2 DEF LocalsOK, JobOK
        <5>. QED
          BY <5>1, <5>2
      <4>4. /\ pc' \in [Proc -> Points] /\ job' \in [Proc -> Jobs] /\ stage' \in [Proc -> Seq(Body)]
            /\ made' \in [Proc -> SUBSET Body] /\ doomed' \in [Proc -> SUBSET Body]
        BY <2>2, <4>1, <4>2 DEF LocalsOK, Points
      <4>. QED
        BY <4>3, <4>4 DEF LocalsOK
    <3>3. QED
      BY <2>1, <3>2
  <2>5. QED
    BY <2>3, <2>4
<1>22. CASE Crash(p)
  BY <1>22, FinishLocals, SameTables DEF Crash
<1>23. QED
  BY <1>1, <1>2, <1>3, <1>4, <1>5, <1>6, <1>7, <1>8, <1>9, <1>10, <1>11, <1>12,
     <1>13, <1>14, <1>15, <1>16, <1>17, <1>18, <1>19, <1>20, <1>21, <1>22 DEF Step

LEMMA NextTypeInv == TypeInv /\ [Next]_vars => TypeInv'
<1> SUFFICES ASSUME TypeInv, [Next]_vars PROVE TypeInv'
  OBVIOUS
<1> USE DEF TypeInv
<1>1. CASE \E p \in Proc : Step(p)
  BY <1>1, StepTypeInv
<1>2. CASE \E s \in Slot : ClearReadCache(s)
  <2>1. TablesOK'
    BY <1>2 DEF ClearReadCache, TablesOK
  <2>2. QED
    BY <1>2, <2>1, SameLocals DEF ClearReadCache
<1>3. CASE \E c \in Call : AgeCall(c)
  <2>1. TablesOK'
    BY <1>3 DEF AgeCall, TablesOK
  <2>2. QED
    BY <1>3, <2>1, SameLocals DEF AgeCall
<1>4. CASE UNCHANGED vars
  BY <1>4, SameLocals, SameTables DEF vars, tables
<1>5. QED
  BY <1>1, <1>2, <1>3, <1>4 DEF Next

(* The state always has its type.                                           *)
THEOREM TypeCorrect == Spec => []TypeOK
  BY InitTypeInv, NextTypeInv, TypeInvTypeOK, PTL DEF Spec

-----------------------------------------------------------------------------
(* References.                                                              *)

LEMMA StepRefs ==
  ASSUME TypeInv, RefsHaveRows, NEW p \in Proc, Step(p)
  PROVE  RefsHaveRows'
<1>1. CASE UNCHANGED <<row, decision, io>>
  BY <1>1 DEF RefsHaveRows
<1>2. CASE InsertRow(p)
  BY <1>2 DEF InsertRow, Rows, RefsHaveRows
<1>3. CASE InsertCallIo(p)
  BY <1>3 DEF InsertCallIo, Rows, RefsHaveRows, TypeInv, TablesOK
<1>4. CASE PutArchiveDecision(p)
  <2>1. job[p].key \in Key /\ job[p].body = Content[job[p].key]
    BY <1>4 DEF PutArchiveDecision, TypeInv, LocalsOK, JobOK
  <2>2. QED
    BY <1>4, <2>1 DEF PutArchiveDecision, RefsHaveRows, TypeInv, TablesOK
<1>5. CASE MarkExpandedRecorded(p)
  <2>1. \A k \in Key : decision'[k] # None => decision[k] # None
    BY <1>5 DEF MarkExpandedRecorded, Live
  <2>2. QED
    BY <1>5, <2>1 DEF MarkExpandedRecorded, RefsHaveRows
<1>6. CASE PurgeCallsOlderThan(p)
  <2>1. /\ row' = row \ DoomedArchives
        /\ io' = [c \in Call |-> IF age[c] = "old" THEN {} ELSE io[c]]
        /\ decision' = decision
    BY <1>6 DEF PurgeCallsOlderThan
  <2>2. ASSUME NEW c \in Call PROVE io'[c] \subseteq row'
    BY <2>1 DEF DoomedArchives, RefsHaveRows
  <2>3. ASSUME NEW k \in Key, decision[k] # None PROVE Content[k] \in row'
    BY <2>1, <2>3 DEF DoomedArchives, RefsHaveRows
  <2>4. QED
    BY <2>1, <2>2, <2>3 DEF RefsHaveRows
<1>7. QED
  BY <1>1, <1>2, <1>3, <1>4, <1>5, <1>6
  DEF Step, StartPut, StartRemember, StartRewrite, StartCall, ProbeFile, RenameFile,
      WriteFails, InsertRowFails, InsertCallIoFails, CleanupCheck, Unlink,
      PutReadCache, PutFails, StartExpand, ReadArchiveFile, MarkExpandedFails,
      Crash, tables

(* No interleaving of writers, expands and purges leaves a call or a        *)
(* live-zone decision pointing at an archive row that is gone.              *)
THEOREM ReferencesHaveRows == Spec => []RefsHaveRows
<1>1. Init => RefsHaveRows
  BY DEF Init, RefsHaveRows
<1>2. TypeInv /\ RefsHaveRows /\ [Next]_vars => RefsHaveRows'
  <2> SUFFICES ASSUME TypeInv, RefsHaveRows, [Next]_vars PROVE RefsHaveRows'
    OBVIOUS
  <2>1. CASE \E p \in Proc : Step(p)
    BY <2>1, StepRefs
  <2>2. CASE UNCHANGED <<row, decision, io>>
    BY <2>2 DEF RefsHaveRows
  <2>3. QED
    BY <2>1, <2>2 DEF Next, ClearReadCache, AgeCall, vars, tables
<1>3. QED
  BY <1>1, <1>2, InitTypeInv, NextTypeInv, PTL DEF Spec

-----------------------------------------------------------------------------
(* Refinement of LiveZone.                                                  *)

(* Only two steps touch the decisions or the ledger.                        *)
LEMMA ZoneSteps ==
  ASSUME [Next]_vars
  PROVE  \/ UNCHANGED <<decision, expandRows>>
         \/ \E p \in Proc : PutArchiveDecision(p) \/ MarkExpandedRecorded(p)
  BY DEF Next, Step, StartPut, StartRemember, StartRewrite, StartCall, ProbeFile,
         RenameFile, WriteFails, InsertRow, InsertRowFails, InsertCallIo,
         InsertCallIoFails, CleanupCheck, Unlink, PutReadCache, PutFails,
         StartExpand, ReadArchiveFile, MarkExpandedFails, PurgeCallsOlderThan,
         Crash, ClearReadCache, AgeCall, vars, tables

LEMMA DecideRefines ==
  ASSUME TypeInv, NEW p \in Proc, PutArchiveDecision(p)
  PROVE  Zone!Next \/ UNCHANGED <<decision, expandRows>>
<1> DEFINE k == job[p].key
           t == job[p].turn
<1>1. k \in Key /\ t \in Turn
  BY DEF PutArchiveDecision, TypeInv, LocalsOK, JobOK
<1>2. decision \in [Key -> Decisions \cup {None}] /\ expandRows' = expandRows
  BY DEF PutArchiveDecision, TypeInv, TablesOK
<1>3. CASE job[p].body \in row /\ decision[k] = None
  <2>1. decision' = [decision EXCEPT ![k] = [turn |-> t, expanded |-> FALSE]]
    BY <1>3 DEF PutArchiveDecision
  <2>2. Zone!Decide(k, t)
    BY <1>2, <1>3, <2>1 DEF Zone!Decide
  <2>3. QED
    BY <1>1, <2>2 DEF Zone!Next
<1>4. CASE job[p].body \notin row \/ decision[k] # None
  <2>1. decision' = decision
    BY <1>1, <1>2, <1>4 DEF PutArchiveDecision
  <2>2. QED
    BY <1>2, <2>1
<1>5. QED
  BY <1>3, <1>4

LEMMA FreezeRefines ==
  ASSUME TypeInv, NEW p \in Proc, MarkExpandedRecorded(p)
  PROVE  Zone!Next \/ UNCHANGED <<decision, expandRows>>
<1> DEFINE b == job[p].body
<1>1. b \in Body
  BY DEF MarkExpandedRecorded, TypeInv, LocalsOK, JobOK
<1>2. Zone!Followers(b) = Live(b)
  BY DEF Zone!Followers, Live
<1>3. /\ decision' = [k \in Key |-> IF k \in Live(b)
                                    THEN [decision[k] EXCEPT !.expanded = TRUE]
                                    ELSE decision[k]]
      /\ expandRows' = [expandRows EXCEPT ![b] = IF Live(b) = {} THEN @ ELSE @ + 1]
  BY DEF MarkExpandedRecorded
<1>4. decision \in [Key -> Decisions \cup {None}] /\ expandRows \in [Body -> Nat]
  BY DEF TypeInv, TablesOK
<1>5. CASE Live(b) = {}
  <2>1. decision' = decision
    BY <1>3, <1>4, <1>5
  <2>2. expandRows' = expandRows
    BY <1>3, <1>4, <1>5
  <2>3. QED
    BY <2>1, <2>2
<1>6. CASE Live(b) # {}
  <2>1. expandRows' = [expandRows EXCEPT ![b] = @ + 1]
    BY <1>3, <1>6
  <2>2. Zone!Freeze(b)
    BY <1>2, <1>3, <1>6, <2>1 DEF Zone!Freeze
  <2>3. QED
    BY <1>1, <2>2 DEF Zone!Next
<1>7. QED
  BY <1>5, <1>6

(* The store's decisions and ledger behave as LiveZone says, under every    *)
(* interleaving and failure: a persisted pointer is never replaced or       *)
(* dropped, and every expand freezes all its followers at once.             *)
THEOREM ImplementsLiveZone == Spec => ZoneRefined
<1>1. Init => Zone!Init
  BY DEF Init, Zone!Init
<1>2. TypeInv /\ [Next]_vars => [Zone!Next]_<<decision, expandRows>>
  BY ZoneSteps, DecideRefines, FreezeRefines
<1>3. QED
  BY <1>1, <1>2, InitTypeInv, NextTypeInv, PTL DEF Spec, ZoneRefined, Zone!Spec

-----------------------------------------------------------------------------
(* The ledger.                                                              *)

LEMMA FrozenFinite ==
  ASSUME NEW b \in Body
  PROVE  IsFiniteSet(Frozen(b)) /\ Cardinality(Frozen(b)) \in Nat
<1>1. Frozen(b) \subseteq Key
  BY DEF Frozen
<1>2. QED
  BY <1>1, ConstantsAssumption, FS_Subset, FS_CardinalityType

LEMMA SameLedger ==
  ASSUME LedgerMatchesFreeze, expandRows' = expandRows,
         \A b \in Body : Frozen(b)' = Frozen(b)
  PROVE  LedgerMatchesFreeze'
  BY DEF LedgerMatchesFreeze

LEMMA DecideLedger ==
  ASSUME TypeInv, LedgerMatchesFreeze, NEW p \in Proc, PutArchiveDecision(p)
  PROVE  LedgerMatchesFreeze'
<1>1. job[p].key \in Key /\ decision \in [Key -> Decisions \cup {None}]
  BY DEF PutArchiveDecision, TypeInv, TablesOK, LocalsOK, JobOK
<1>2. ASSUME NEW k \in Key
      PROVE  \/ decision'[k] = decision[k]
             \/ decision[k] = None /\ ~decision'[k].expanded
  BY <1>1 DEF PutArchiveDecision
<1>3. ASSUME NEW b \in Body PROVE Frozen(b)' = Frozen(b)
  BY <1>2 DEF Frozen
<1>4. expandRows' = expandRows
  BY DEF PutArchiveDecision
<1>5. QED
  BY <1>3, <1>4, SameLedger

LEMMA FreezeLedger ==
  ASSUME TypeInv, LedgerMatchesFreeze, NEW p \in Proc, MarkExpandedRecorded(p)
  PROVE  LedgerMatchesFreeze'
<1>1. PICK b \in Body : b = job[p].body
  BY DEF MarkExpandedRecorded, TypeInv, LocalsOK, JobOK
<1>2. /\ decision' = [k \in Key |-> IF k \in Live(b)
                                    THEN [decision[k] EXCEPT !.expanded = TRUE]
                                    ELSE decision[k]]
      /\ expandRows' = [expandRows EXCEPT ![b] = IF Live(b) = {} THEN @ ELSE @ + 1]
  BY <1>1 DEF MarkExpandedRecorded
<1>3. decision \in [Key -> Decisions \cup {None}] /\ expandRows \in [Body -> Nat]
  BY DEF TypeInv, TablesOK
<1>4. \A k \in Live(b) : decision'[k].expanded /\ decision'[k] # None
  <2>1. SUFFICES ASSUME NEW k \in Live(b)
                 PROVE  decision'[k].expanded /\ decision'[k] # None
    OBVIOUS
  <2>2. k \in Key /\ decision[k] \in Decisions /\ Content[k] = b
    BY <1>3, <2>1 DEF Live
  <2>3. decision'[k] = [decision[k] EXCEPT !.expanded = TRUE]
    BY <1>2, <2>2
  <2>4. decision'[k] \in Decisions /\ decision'[k].expanded
    BY <2>2, <2>3 DEF Decisions
  <2>5. QED
    BY <2>4, ConstantsAssumption DEF Decisions
<1>5. ASSUME NEW c \in Body, c # b
      PROVE  Frozen(c)' = Frozen(c) /\ expandRows'[c] = expandRows[c]
  BY <1>1, <1>2, <1>3, <1>5 DEF Frozen, Live
<1>6. CASE Live(b) = {}
  BY <1>2, <1>3, <1>6, SameLedger DEF Frozen
<1>7. CASE Live(b) # {}
  <2>1. Frozen(b) \subseteq Frozen(b)'
    <3>1. \A k \in Frozen(b) : decision'[k] = decision[k]
      BY <1>2 DEF Frozen, Live
    <3>2. QED
      BY <3>1 DEF Frozen
  <2>2. PICK k \in Live(b) : TRUE
    BY <1>7
  <2>3. k \in Frozen(b)' /\ k \notin Frozen(b)
    BY <1>4, <2>2 DEF Frozen, Live
  <2>4. IsFiniteSet(Frozen(b)') /\ Cardinality(Frozen(b)') \in Nat
    <3>1. Frozen(b)' \subseteq Key
      BY DEF Frozen
    <3>2. QED
      BY <3>1, ConstantsAssumption, FS_Subset, FS_CardinalityType
  <2>5. Cardinality(Frozen(b)) + 1 <= Cardinality(Frozen(b)')
    <3>1. Cardinality(Frozen(b)) < Cardinality(Frozen(b)')
      <4>1. Frozen(b) \in SUBSET Frozen(b)' /\ Frozen(b) # Frozen(b)'
        BY <2>1, <2>3
      <4>2. /\ Cardinality(Frozen(b)) <= Cardinality(Frozen(b)')
            /\ Cardinality(Frozen(b)) # Cardinality(Frozen(b)')
        BY <2>4, <4>1, FS_Subset
      <4>3. QED
        BY <1>1, <2>4, <4>2, FrozenFinite
    <3>2. QED
      BY <1>1, <2>4, <3>1, FrozenFinite
  <2>6. expandRows'[b] = expandRows[b] + 1 /\ expandRows[b] \in Nat
    BY <1>1, <1>2, <1>3, <1>7
  <2>7. expandRows[b] <= Cardinality(Frozen(b)) /\ Cardinality(Frozen(b)) \in Nat
    BY <1>1, FrozenFinite DEF LedgerMatchesFreeze
  <2>8. expandRows'[b] >= 1 /\ expandRows'[b] <= Cardinality(Frozen(b)')
    BY <2>4, <2>5, <2>6, <2>7
  <2>9. QED
    BY <1>5, <2>8 DEF LedgerMatchesFreeze
<1>8. QED
  BY <1>6, <1>7

(* A freeze and its Measurement stand or fall together, and no expand is    *)
(* counted that froze nothing.                                              *)
THEOREM LedgerInStep == Spec => []LedgerMatchesFreeze
<1>1. Init => LedgerMatchesFreeze
  <2> SUFFICES ASSUME Init PROVE LedgerMatchesFreeze
    OBVIOUS
  <2>1. \A b \in Body : Frozen(b) = {} /\ expandRows[b] = 0
    BY DEF Init, Frozen
  <2>2. QED
    BY <2>1, FS_EmptySet DEF LedgerMatchesFreeze
<1>2. TypeInv /\ LedgerMatchesFreeze /\ [Next]_vars => LedgerMatchesFreeze'
  <2> SUFFICES ASSUME TypeInv, LedgerMatchesFreeze, [Next]_vars
               PROVE  LedgerMatchesFreeze'
    OBVIOUS
  <2>1. CASE UNCHANGED <<decision, expandRows>>
    BY <2>1, SameLedger DEF Frozen
  <2>2. CASE \E p \in Proc : PutArchiveDecision(p) \/ MarkExpandedRecorded(p)
    BY <2>2, DecideLedger, FreezeLedger
  <2>3. QED
    BY <2>1, <2>2, ZoneSteps
<1>3. QED
  BY <1>1, <1>2, InitTypeInv, NextTypeInv, PTL DEF Spec

-----------------------------------------------------------------------------
(* While operations do not overlap.                                         *)

(* Who has no role does nothing.                                            *)
RolesOK == \A p \in Proc : plan.role[p] = {} => pc[p] = "idle"

Staged(p, b) == \E i \in 1..Len(stage[p]) : stage[p][i] = b

(* What the one operation under way knows of files and rows: a body has its *)
(* file before it gets its row, and what is about to be removed has none.   *)
SoleOK(p) ==
  /\ pc[p] = "idle" => made[p] = {}
  /\ pc[p] \in {"probe", "rename"} => \A b \in job[p].refs : b \in file \/ Staged(p, b)
  /\ pc[p] = "insert" => job[p].refs \subseteq file
  /\ pc[p] \in {"probe", "rename", "insert"} /\ job[p].op \in {"remember", "rewrite"}
       => job[p].body \in job[p].refs
  /\ pc[p] \in {"probe", "rename", "insert", "cleanup", "unlink"} => made[p] \cap row = {}
  /\ pc[p] = "unlink" => doomed[p] \cap row = {}
  /\ pc[p] = "cache" => job[p].body \in row
  /\ pc[p] \in {"probe", "rename", "insert", "decide"} /\ job[p].op = "rewrite"
       => decision[job[p].key] = None

HoldersOK ==
  /\ row \subseteq file
  /\ \A s \in Slot : cache[s] # None => cache[s] \in row
  /\ \A k \in Key : sent[k] \subseteq {t \in Turn : decision[k] # None /\ t = decision[k].turn}

SoleInv == RolesOK /\ (Alone => HoldersOK /\ \A p \in Proc : SoleOK(p))

(* Steps of p are p's.                                                      *)
LEMMA StepFrame ==
  ASSUME TypeInv, NEW p \in Proc, Step(p)
  PROVE  /\ \A q \in Proc \ {p} : pc'[q] = pc[q] /\ made'[q] = made[q]
         /\ pc[p] # "idle" \/ plan.role[p] # {}
<1>. USE DEF TypeInv, LocalsOK
<1>1. CASE StartPut(p) \/ StartRemember(p) \/ StartRewrite(p) \/ StartCall(p) \/ StartExpand(p)
  BY <1>1 DEF StartPut, StartRemember, StartRewrite, StartCall, StartExpand, CanStart, Begin, locals
<1>2. CASE PurgeCallsOlderThan(p)
  BY <1>2 DEF PurgeCallsOlderThan, CanStart, locals
<1>3. CASE ProbeFile(p) \/ RenameFile(p) \/ WriteFails(p)
  BY <1>3 DEF ProbeFile, RenameFile, WriteFails, Finish
<1>4. CASE InsertRow(p) \/ InsertRowFails(p) \/ InsertCallIo(p) \/ InsertCallIoFails(p)
  BY <1>4 DEF InsertRow, InsertRowFails, InsertCallIo, InsertCallIoFails, Finish, Goto
<1>5. CASE CleanupCheck(p) \/ Unlink(p)
  BY <1>5 DEF CleanupCheck, Unlink, Finish
<1>6. CASE PutArchiveDecision(p) \/ PutReadCache(p) \/ PutFails(p)
  BY <1>6 DEF PutArchiveDecision, PutReadCache, PutFails, Finish
<1>7. CASE ReadArchiveFile(p) \/ MarkExpandedRecorded(p) \/ MarkExpandedFails(p) \/ Crash(p)
  BY <1>7 DEF ReadArchiveFile, MarkExpandedRecorded, MarkExpandedFails, Crash, Finish, Goto
<1>. QED
  BY <1>1, <1>2, <1>3, <1>4, <1>5, <1>6, <1>7 DEF Step

LEMMA OthersRest ==
  ASSUME TypeInv, RolesOK, Alone, NEW p \in Proc, Step(p), \A q \in Proc : SoleOK(q)
  PROVE  \A q \in Proc \ {p} : SoleOK(q)'
<1>1. plan.role[p] # {}
  BY StepFrame DEF RolesOK
<1>2. ASSUME NEW q \in Proc \ {p} PROVE pc[q] = "idle"
  BY <1>1 DEF Alone, RolesOK
<1>. QED
  BY <1>2, StepFrame DEF SoleOK

(* A beginning: what is to be archived is staged, nothing is made yet.      *)
LEMMA BeginSole ==
  ASSUME TypeInv, HoldersOK, NEW p \in Proc, SoleOK(p), pc[p] = "idle",
         NEW at \in {"probe", "insert", "read"}, NEW j \in Jobs, NEW bodies,
         Begin(p, at, j, bodies), UNCHANGED <<file, row, cache, decision, sent>>,
         at = "probe" => \A b \in j.refs : \E i \in 1..Len(bodies) : bodies[i] = b,
         at = "insert" => j.refs = {},
         j.op \in {"remember", "rewrite"} => j.body \in j.refs,
         j.op = "rewrite" => decision[j.key] = None
  PROVE  HoldersOK' /\ SoleOK(p)'
<1>1. pc'[p] = at /\ job'[p] = j /\ stage'[p] = bodies /\ made'[p] = {}
  BY DEF Begin, TypeInv, LocalsOK, SoleOK
<1>2. HoldersOK'
  BY DEF HoldersOK
<1>. QED
  BY <1>1, <1>2 DEF SoleOK, Staged

LEMMA FinishSole ==
  ASSUME TypeInv, NEW p \in Proc, Finish(p)
  PROVE  SoleOK(p)'
BY DEF Finish, SoleOK, TypeInv, LocalsOK

LEMMA StartSole ==
  ASSUME TypeInv, HoldersOK, NEW p \in Proc, SoleOK(p),
         StartPut(p) \/ StartRemember(p) \/ StartRewrite(p) \/ StartCall(p) \/ StartExpand(p)
  PROVE  HoldersOK' /\ SoleOK(p)'
<1>1. CASE StartPut(p)
  <2>1. PICK b \in Body :
          Begin(p, "probe", [NoJob EXCEPT !.op = "put", !.body = b, !.refs = {b}], <<b>>)
    BY <1>1 DEF StartPut
  <2> DEFINE j == [NoJob EXCEPT !.op = "put", !.body = b, !.refs = {b}]
  <2>2. j \in Jobs /\ j.op = "put" /\ j.refs = {b}
    BY DEF Jobs, NoJob, Operations
  <2>3. Begin(p, "probe", j, <<b>>)
    BY <2>1
  <2>4. pc[p] = "idle" /\ UNCHANGED <<file, row, cache, decision, sent>>
    BY <1>1 DEF StartPut, CanStart, tables
  <2>. HIDE DEF j
  <2>. QED
    BY <2>2, <2>3, <2>4, BeginSole
<1>2. CASE StartRemember(p)
  <2>1. PICK s \in Slot, b \in Body :
          Begin(p, "probe", [NoJob EXCEPT !.op = "remember", !.slot = s, !.body = b,
                                          !.refs = {b}], <<b>>)
    BY <1>2 DEF StartRemember
  <2> DEFINE j == [NoJob EXCEPT !.op = "remember", !.slot = s, !.body = b, !.refs = {b}]
  <2>2. j \in Jobs /\ j.op = "remember" /\ j.refs = {b} /\ j.body = b
    BY DEF Jobs, NoJob, Operations
  <2>3. Begin(p, "probe", j, <<b>>)
    BY <2>1
  <2>4. pc[p] = "idle" /\ UNCHANGED <<file, row, cache, decision, sent>>
    BY <1>2 DEF StartRemember, CanStart, tables
  <2>. HIDE DEF j
  <2>. QED
    BY <2>2, <2>3, <2>4, BeginSole
<1>3. CASE StartRewrite(p)
  <2>0. pc[p] = "idle" /\ UNCHANGED <<file, row, cache, decision>>
    BY <1>3 DEF StartRewrite, CanStart, tables
  <2>1. PICK k \in Key, t \in Turn :
          \/ /\ decision[k] # None
             /\ sent' = [sent EXCEPT ![k] = @ \cup {decision[k].turn}]
             /\ UNCHANGED locals
          \/ /\ decision[k] = None
             /\ Begin(p, "probe",
                      [NoJob EXCEPT !.op = "rewrite", !.key = k, !.turn = t,
                                    !.body = Content[k], !.refs = {Content[k]}],
                      <<Content[k]>>)
             /\ UNCHANGED sent
    BY <1>3 DEF StartRewrite
  <2>2. CASE /\ decision[k] # None /\ sent' = [sent EXCEPT ![k] = @ \cup {decision[k].turn}]
             /\ UNCHANGED locals
    <3>1. decision[k].turn \in Turn
      BY <2>2 DEF TypeInv, TablesOK, Decisions
    <3>2. HoldersOK'
      BY <2>0, <2>2, <3>1 DEF HoldersOK, TypeInv, TablesOK
    <3>. QED
      BY <2>0, <2>2, <3>2 DEF SoleOK, Staged, locals
  <2>3. CASE /\ decision[k] = None
             /\ Begin(p, "probe",
                      [NoJob EXCEPT !.op = "rewrite", !.key = k, !.turn = t,
                                    !.body = Content[k], !.refs = {Content[k]}],
                      <<Content[k]>>)
             /\ UNCHANGED sent
    <3> DEFINE j == [NoJob EXCEPT !.op = "rewrite", !.key = k, !.turn = t,
                                  !.body = Content[k], !.refs = {Content[k]}]
    <3>1. Content[k] \in Body
      BY ConstantsAssumption
    <3>2. /\ j \in Jobs /\ j.op = "rewrite" /\ j.key = k /\ j.body = Content[k]
          /\ j.refs = {Content[k]}
      BY <3>1 DEF Jobs, NoJob, Operations
    <3>3. Begin(p, "probe", j, <<Content[k]>>)
      BY <2>3
    <3>. HIDE DEF j
    <3>. QED
      BY <2>0, <2>3, <3>2, <3>3, BeginSole
  <2>. QED
    BY <2>1, <2>2, <2>3
<1>4. CASE StartCall(p)
  <2>1. PICK c \in Call, req \in Body \cup {None}, res \in Body \cup {None} :
          Begin(p, IF {req, res} = {None} THEN "insert" ELSE "probe",
                [NoJob EXCEPT !.op = "call", !.call = c, !.refs = {req, res} \ {None}],
                IF req = None THEN IF res = None THEN << >> ELSE <<res>>
                ELSE IF res = None THEN <<req>> ELSE <<req, res>>)
    BY <1>4 DEF StartCall
  <2> DEFINE at == IF {req, res} = {None} THEN "insert" ELSE "probe"
             j  == [NoJob EXCEPT !.op = "call", !.call = c, !.refs = {req, res} \ {None}]
             bodies == IF req = None THEN IF res = None THEN << >> ELSE <<res>>
                       ELSE IF res = None THEN <<req>> ELSE <<req, res>>
  <2>2. j \in Jobs /\ j.op = "call" /\ j.refs = {req, res} \ {None}
    BY DEF Jobs, NoJob, Operations
  <2>3. /\ at \in {"probe", "insert", "read"}
        /\ at = "insert" => {req, res} \ {None} = {}
        /\ \A b \in {req, res} \ {None} : \E i \in 1..Len(bodies) : bodies[i] = b
    <3>1. ASSUME NEW b \in {req, res} \ {None} PROVE \E i \in 1..Len(bodies) : bodies[i] = b
      <4>1. CASE req = None
        <5>1. bodies = <<b>>
          BY <4>1
        <5>. QED
          BY <5>1
      <4>2. CASE req # None /\ res = None
        <5>1. bodies = <<b>>
          BY <4>2
        <5>. QED
          BY <5>1
      <4>3. CASE req # None /\ res # None
        <5>1. bodies = <<req, res>>
          BY <4>3
        <5>. QED
          BY <5>1
      <4>. QED
        BY <4>1, <4>2, <4>3
    <3>. QED
      BY <3>1
  <2>4. Begin(p, at, j, bodies)
    BY <2>1
  <2>5. pc[p] = "idle" /\ UNCHANGED <<file, row, cache, decision, sent>>
    BY <1>4 DEF StartCall, CanStart
  <2>. HIDE DEF j, at, bodies
  <2>. QED
    BY <2>2, <2>3, <2>4, <2>5, BeginSole
<1>5. CASE StartExpand(p)
  <2>1. PICK b \in row :
          Begin(p, "read", [NoJob EXCEPT !.op = "expand", !.body = b], << >>)
    BY <1>5 DEF StartExpand
  <2> DEFINE j == [NoJob EXCEPT !.op = "expand", !.body = b]
  <2>2. j \in Jobs /\ j.op = "expand"
    BY DEF Jobs, NoJob, Operations, TypeInv, TablesOK
  <2>3. Begin(p, "read", j, << >>)
    BY <2>1
  <2>4. pc[p] = "idle" /\ UNCHANGED <<file, row, cache, decision, sent>>
    BY <1>5 DEF StartExpand, CanStart, tables
  <2>. HIDE DEF j
  <2>. QED
    BY <2>2, <2>3, <2>4, BeginSole
<1>. QED
  BY <1>1, <1>2, <1>3, <1>4, <1>5

(* Files come before rows.                                                  *)
LEMMA WriteSole ==
  ASSUME TypeInv, HoldersOK, NEW p \in Proc, SoleOK(p),
         ProbeFile(p) \/ RenameFile(p)
  PROVE  HoldersOK' /\ SoleOK(p)'
<1>0. stage[p] \in Seq(Body) /\ (pc[p] \in {"probe", "rename"} => stage[p] # << >>)
  BY DEF TypeInv, LocalsOK, JobOK
<1>1. CASE ProbeFile(p)
  <2>1. /\ pc[p] = "probe" /\ pc'[p] = "rename" /\ UNCHANGED <<job, stage, doomed, file, tables, sent>>
        /\ made'[p] = IF Head(stage[p]) \in file THEN made[p] ELSE made[p] \cup {Head(stage[p])}
    BY <1>1 DEF ProbeFile, TypeInv, LocalsOK
  <2>. QED
    BY <2>1 DEF SoleOK, Staged, HoldersOK, tables
<1>2. CASE RenameFile(p)
  <2>1. /\ pc[p] = "rename" /\ file' = file \cup {Head(stage[p])} /\ stage'[p] = Tail(stage[p])
        /\ pc'[p] = (IF Len(stage[p]) = 1 THEN "insert" ELSE "probe")
        /\ UNCHANGED <<job, made, doomed, tables, sent>>
    BY <1>2 DEF RenameFile, TypeInv, LocalsOK
  <2>2. ASSUME NEW b, Staged(p, b)
        PROVE  \/ b = Head(stage[p])
               \/ Len(stage[p]) # 1 /\ Staged(p, b)'
    <3>1. PICK i \in 1..Len(stage[p]) : stage[p][i] = b
      BY <2>2 DEF Staged
    <3>2. /\ Len(stage[p]) \in Nat /\ Head(stage[p]) = stage[p][1]
          /\ i # 1 => /\ i - 1 \in 1..Len(Tail(stage[p]))
                      /\ Tail(stage[p])[i - 1] = stage[p][i]
      BY <1>0, <2>1, HeadTailProperties
    <3>. QED
      BY <2>1, <3>1, <3>2 DEF Staged
  <2>3. HoldersOK'
    BY <2>1 DEF HoldersOK, tables
  <2>. QED
    BY <2>1, <2>2, <2>3 DEF SoleOK, tables
<1>. QED
  BY <1>1, <1>2

LEMMA InsertSole ==
  ASSUME TypeInv, HoldersOK, NEW p \in Proc, SoleOK(p),
         InsertRow(p) \/ InsertCallIo(p)
  PROVE  HoldersOK' /\ SoleOK(p)'
<1>1. /\ pc[p] = "insert" /\ row' = row \cup job[p].refs /\ UNCHANGED <<file, decision, cache, sent>>
      /\ job[p].refs \subseteq file
  BY DEF InsertRow, InsertCallIo, Rows, SoleOK
<1>2. HoldersOK'
  BY <1>1 DEF HoldersOK
<1>3. CASE Finish(p)
  BY <1>2, <1>3, FinishSole
<1>4. CASE job[p].op = "remember" /\ Goto(p, "cache")
  <2>1. pc'[p] = "cache" /\ UNCHANGED <<job, stage, made, doomed>>
    BY <1>4 DEF Goto, TypeInv, LocalsOK
  <2>. QED
    BY <1>1, <1>2, <1>4, <2>1 DEF SoleOK
<1>5. CASE job[p].op = "rewrite" /\ Goto(p, "decide")
  <2>1. pc'[p] = "decide" /\ UNCHANGED <<job, stage, made, doomed>>
    BY <1>5 DEF Goto, TypeInv, LocalsOK
  <2>. QED
    BY <1>1, <1>2, <1>5, <2>1 DEF SoleOK
<1>. QED
  BY <1>3, <1>4, <1>5 DEF InsertRow, InsertCallIo

(* Only files without a row go.                                             *)
LEMMA RemoveSole ==
  ASSUME TypeInv, HoldersOK, NEW p \in Proc, SoleOK(p),
         InsertRowFails(p) \/ InsertCallIoFails(p) \/ CleanupCheck(p) \/ Unlink(p)
  PROVE  HoldersOK' /\ SoleOK(p)'
<1>0. UNCHANGED <<row, decision, cache, sent>>
  BY DEF InsertRowFails, InsertCallIoFails, CleanupCheck, Unlink, tables
<1>1. HoldersOK'
  BY <1>0 DEF HoldersOK, SoleOK, InsertRowFails, InsertCallIoFails, CleanupCheck, Unlink
<1>2. CASE Finish(p)
  BY <1>1, <1>2, FinishSole
<1>3. CASE InsertRowFails(p) /\ ~Finish(p)
  <2>1. /\ pc'[p] = "unlink" /\ doomed'[p] = made[p] /\ UNCHANGED made /\ pc[p] = "insert"
    BY <1>3 DEF InsertRowFails, TypeInv, LocalsOK
  <2>. QED
    BY <1>0, <1>1, <2>1 DEF SoleOK
<1>4. CASE InsertCallIoFails(p) /\ ~Finish(p)
  <2>1. pc'[p] = "cleanup" /\ UNCHANGED made /\ pc[p] = "insert"
    BY <1>4 DEF InsertCallIoFails, Goto, TypeInv, LocalsOK
  <2>. QED
    BY <1>0, <1>1, <2>1 DEF SoleOK
<1>5. CASE CleanupCheck(p) /\ ~Finish(p)
  <2>1. /\ pc[p] = "cleanup" /\ made'[p] \subseteq made[p]
        /\ \/ pc'[p] = "cleanup"
           \/ pc'[p] = "unlink" /\ doomed'[p] \cap row = {}
    <3>1. /\ pc \in [Proc -> Points] /\ made \in [Proc -> SUBSET Body]
          /\ doomed \in [Proc -> SUBSET Body]
      BY DEF TypeInv, LocalsOK
    <3>2. PICK b \in made[p] :
            \/ made' = [made EXCEPT ![p] = made[p] \ {b}] /\ UNCHANGED <<pc, job, stage, doomed>>
            \/ /\ b \notin row /\ made' = [made EXCEPT ![p] = made[p] \ {b}]
               /\ doomed' = [doomed EXCEPT ![p] = {b}] /\ pc' = [pc EXCEPT ![p] = "unlink"]
      BY <1>5 DEF CleanupCheck
    <3>3. pc[p] = "cleanup"
      BY <1>5 DEF CleanupCheck
    <3>. QED
      BY <3>1, <3>2, <3>3
  <2>. QED
    BY <1>0, <1>1, <2>1 DEF SoleOK
<1>6. CASE Unlink(p) /\ ~Finish(p)
  <2>1. /\ pc[p] = "unlink" /\ made'[p] = made[p] /\ doomed'[p] \subseteq doomed[p]
        /\ pc'[p] \in {"cleanup", "unlink"}
    BY <1>6 DEF Unlink, TypeInv, LocalsOK
  <2>. QED
    BY <1>0, <1>1, <2>1 DEF SoleOK
<1>. QED
  BY <1>2, <1>3, <1>4, <1>5, <1>6

LEMMA EndSole ==
  ASSUME TypeInv, HoldersOK, NEW p \in Proc, SoleOK(p),
         \/ WriteFails(p) \/ PutArchiveDecision(p) \/ PutReadCache(p) \/ PutFails(p)
         \/ ReadArchiveFile(p) \/ MarkExpandedRecorded(p) \/ MarkExpandedFails(p) \/ Crash(p)
  PROVE  HoldersOK' /\ SoleOK(p)'
<1>1. CASE WriteFails(p) \/ PutFails(p) \/ MarkExpandedFails(p) \/ Crash(p)
  <2>1. Finish(p) /\ HoldersOK'
    BY <1>1 DEF WriteFails, PutFails, MarkExpandedFails, Crash, HoldersOK, tables
  <2>. QED
    BY <2>1, FinishSole
<1>2. CASE PutArchiveDecision(p)
  <2>1. /\ Finish(p) /\ UNCHANGED <<file, row, cache>> /\ pc[p] = "decide"
        /\ job[p].op = "rewrite" /\ job[p].key \in Key /\ job[p].turn \in Turn
        /\ decision[job[p].key] = None
    BY <1>2 DEF PutArchiveDecision, TypeInv, LocalsOK, JobOK, SoleOK
  <2> DEFINE new == [turn |-> job[p].turn, expanded |-> FALSE]
  <2>2. \/ UNCHANGED <<decision, sent>>
        \/ /\ decision' = [decision EXCEPT ![job[p].key] = new]
           /\ sent' = [sent EXCEPT ![job[p].key] = @ \cup {job[p].turn}]
    BY <1>2, <2>1 DEF PutArchiveDecision
  <2>3. new # None /\ new.turn = job[p].turn
    <3>1. new \in [turn: Turn, expanded: BOOLEAN]
      BY <2>1
    <3>. QED
      BY <3>1, ConstantsAssumption
  <2>4. sent \in [Key -> SUBSET Turn] /\ decision \in [Key -> Decisions \cup {None}]
    BY DEF TypeInv, TablesOK
  <2>5. sent[job[p].key] = {}
    BY <2>1 DEF HoldersOK
  <2>6. HoldersOK'
    <3>. HIDE DEF new
    <3>1. \A k \in Key : sent'[k] \subseteq {t \in Turn : decision'[k] # None /\ t = decision'[k].turn}
      BY <2>1, <2>2, <2>3, <2>4, <2>5 DEF HoldersOK
    <3>. QED
      BY <2>1, <3>1 DEF HoldersOK
  <2>. QED
    BY <2>1, <2>6, FinishSole
<1>3. CASE PutReadCache(p)
  <2>1. /\ Finish(p) /\ pc[p] = "cache" /\ cache' = [cache EXCEPT ![job[p].slot] = job[p].body]
        /\ UNCHANGED <<file, row, decision, sent>>
    BY <1>3 DEF PutReadCache
  <2>2. HoldersOK'
    BY <2>1 DEF HoldersOK, SoleOK, TypeInv, TablesOK
  <2>. QED
    BY <2>1, <2>2, FinishSole
<1>4. CASE ReadArchiveFile(p)
  <2>1. HoldersOK'
    BY <1>4 DEF ReadArchiveFile, HoldersOK, tables
  <2>2. pc'[p] = "freeze" \/ Finish(p)
    BY <1>4 DEF ReadArchiveFile, Goto, TypeInv, LocalsOK
  <2>3. CASE pc'[p] = "freeze"
    BY <2>1, <2>3 DEF SoleOK
  <2>. QED
    BY <2>1, <2>2, <2>3, FinishSole
<1>5. CASE MarkExpandedRecorded(p)
  <2>1. Finish(p) /\ UNCHANGED <<file, row, cache, sent>>
    BY <1>5 DEF MarkExpandedRecorded
  <2>2. ASSUME NEW k \in Key, decision[k] # None
        PROVE  decision'[k] # None /\ decision'[k].turn = decision[k].turn
    <3>1. decision[k] \in Decisions
      BY <2>2 DEF TypeInv, TablesOK
    <3>2. decision'[k] \in {decision[k], [decision[k] EXCEPT !.expanded = TRUE]}
      BY <1>5 DEF MarkExpandedRecorded
    <3>3. decision'[k] \in Decisions /\ decision'[k].turn = decision[k].turn
      BY <3>1, <3>2 DEF Decisions
    <3>. QED
      BY <3>3, ConstantsAssumption DEF Decisions
  <2>3. HoldersOK'
    BY <2>1, <2>2 DEF HoldersOK
  <2>. QED
    BY <2>1, <2>3, FinishSole
<1>. QED
  BY <1>1, <1>2, <1>3, <1>4, <1>5

LEMMA PurgeSole ==
  ASSUME TypeInv, HoldersOK, NEW p \in Proc, SoleOK(p), PurgeCallsOlderThan(p)
  PROVE  HoldersOK' /\ SoleOK(p)'
<1>1. /\ pc[p] = "idle" /\ made[p] = {} /\ row' = row \ DoomedArchives
      /\ UNCHANGED <<file, decision, cache, sent, made>>
      /\ \/ UNCHANGED locals
         \/ pc'[p] = "unlink" /\ doomed'[p] = DoomedArchives
  BY DEF PurgeCallsOlderThan, CanStart, SoleOK, TypeInv, LocalsOK, locals
<1>2. HoldersOK'
  BY <1>1 DEF HoldersOK, DoomedArchives
<1>3. CASE UNCHANGED locals
  BY <1>1, <1>2, <1>3 DEF SoleOK, locals
<1>4. CASE pc'[p] = "unlink" /\ doomed'[p] = DoomedArchives
  BY <1>1, <1>2, <1>4 DEF SoleOK
<1>. QED
  BY <1>1, <1>3, <1>4

LEMMA SoleNext == TypeInv /\ SoleInv /\ [Next]_vars => SoleInv'
<1>. SUFFICES ASSUME TypeInv, SoleInv, [Next]_vars PROVE SoleInv'
  OBVIOUS
<1>0. plan' = plan /\ (Alone' <=> Alone)
  BY DEF Next, vars, Alone
<1>1. ASSUME NEW p \in Proc, Step(p) PROVE SoleInv'
  <2>1. RolesOK'
    BY <1>0, <1>1, StepFrame DEF SoleInv, RolesOK
  <2>2. ASSUME Alone PROVE HoldersOK' /\ \A q \in Proc : SoleOK(q)'
    <3>1. HoldersOK /\ (\A q \in Proc : SoleOK(q)) /\ RolesOK
      BY <2>2 DEF SoleInv
    <3>2. HoldersOK' /\ SoleOK(p)'
      BY <1>1, <3>1, StartSole, WriteSole, InsertSole, RemoveSole, EndSole, PurgeSole DEF Step
    <3>. QED
      BY <1>1, <2>2, <3>1, <3>2, OthersRest
  <2>. QED
    BY <1>0, <2>1, <2>2 DEF SoleInv
<1>2. ASSUME NEW s \in Slot, ClearReadCache(s) PROVE SoleInv'
  <2>1. cache' = [cache EXCEPT ![s] = None] /\ UNCHANGED <<file, row, decision, sent, locals>>
    BY <1>2 DEF ClearReadCache
  <2>2. HoldersOK => HoldersOK'
    BY <2>1 DEF HoldersOK, TypeInv, TablesOK
  <2>. QED
    BY <1>0, <2>1, <2>2 DEF SoleInv, RolesOK, SoleOK, Staged, locals
<1>3. CASE (\E c \in Call : AgeCall(c)) \/ UNCHANGED vars
  <2>1. UNCHANGED <<file, row, cache, decision, sent, locals>>
    BY <1>3 DEF AgeCall, vars, tables
  <2>. QED
    BY <1>0, <2>1 DEF SoleInv, RolesOK, HoldersOK, SoleOK, Staged, locals
<1>. QED
  BY <1>1, <1>2, <1>3 DEF Next

LEMMA SoleAlways == Spec => []SoleInv
<1>1. Init => SoleInv
  BY DEF Init, SoleInv, RolesOK, HoldersOK, SoleOK
<1>. QED
  BY <1>1, SoleNext, InitTypeInv, NextTypeInv, PTL DEF Spec

(* While operations do not overlap, whatever fails or crashes and whatever  *)
(* the purge removes, an archive row has its file and a read_cache row its  *)
(* archive row.                                                             *)
THEOREM RowsAreThere == Spec => []RowsHaveFiles
<1>1. SoleInv => RowsHaveFiles
  BY DEF SoleInv, HoldersOK, RowsHaveFiles
<1>. QED
  BY <1>1, SoleAlways, PTL

(* While requests do not overlap, one tool result is replaced by one pointer *)
(* in all the requests that replace it (archive/mod.rs, rewrite_block).     *)
THEOREM PointerStays == Spec => []PointerNeverChanges
<1>1. SoleInv => PointerNeverChanges
  <2>. SUFFICES ASSUME SoleInv, Alone, NEW k \in Key PROVE Cardinality(sent[k]) <= 1
    BY DEF PointerNeverChanges
  <2>1. sent[k] \subseteq {decision[k].turn}
    BY DEF SoleInv, HoldersOK
  <2>2. CASE sent[k] = {}
    BY <2>2, FS_EmptySet
  <2>3. CASE sent[k] = {decision[k].turn}
    <3>1. Cardinality({decision[k].turn}) = 1
      BY FS_Singleton
    <3>. QED
      BY <2>3, <3>1
  <2>. QED
    BY <2>1, <2>2, <2>3
<1>. QED
  BY <1>1, SoleAlways, PTL
=============================================================================
