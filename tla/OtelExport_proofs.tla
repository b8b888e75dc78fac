-------------------------- MODULE OtelExport_proofs --------------------------
(***************************************************************************)
(* What the export guarantees whatever the sessions, the calls, the        *)
(* flushes and the hooks that spawn them, and whichever faults happen.     *)
(***************************************************************************)
EXTENDS OtelExport, FiniteSetTheorems, FunctionTheorems, NaturalsInduction,
        WellFoundedInduction, TLAPS

-----------------------------------------------------------------------------
(* Largest elements.                                                        *)

LEMMA LeastNatural ==
  ASSUME NEW T \in SUBSET Nat, T # {}
  PROVE  \E m \in T : \A n \in T : m <= n
<1>. DEFINE R == OpToRel(<, Nat)
<1>1. IsWellFoundedOn(R, Nat)
  BY NatLessThanWellFounded
<1>2. PICK m \in T : \A n \in T : <<n, m>> \notin R
  BY <1>1, WFMin
<1>3. \A n \in T : ~ (n < m)
  BY <1>2 DEF OpToRel
<1>. QED
  BY <1>3

LEMMA MaxOfBounded ==
  ASSUME NEW S \in SUBSET Nat, S # {}, NEW b \in Nat, \A x \in S : x <= b
  PROVE  Max(S) \in S /\ \A x \in S : x <= Max(S)
<1>. DEFINE T == {b - x : x \in S}
<1>1. \A x \in S : b - x \in Nat
  OBVIOUS
<1>2. T \subseteq Nat
  BY <1>1
<1>3. PICK z \in S : TRUE
  OBVIOUS
<1>4. b - z \in T
  OBVIOUS
<1>5. T \in SUBSET Nat /\ T # {}
  BY <1>2, <1>4
<1>6. PICK m \in T : \A n \in T : m <= n
  BY <1>5, LeastNatural
<1>7. PICK y \in S : m = b - y
  BY <1>6
<1>8. \A x \in S : y >= x
  <2>. TAKE x \in S
  <2>1. m <= b - x
    BY <1>6
  <2>. QED
    BY <2>1, <1>7
<1>. QED
  BY <1>8 DEF Max

LEMMA MinOfTwo ==
  ASSUME NEW a \in Nat, NEW b \in Nat
  PROVE  Min({a, b}) \in Nat /\ Min({a, b}) <= a /\ Min({a, b}) <= b
<1>1. CASE a <= b
  BY <1>1 DEF Min
<1>2. CASE ~(a <= b)
  BY <1>2 DEF Min
<1>. QED
  BY <1>1, <1>2

-----------------------------------------------------------------------------
(* Types, as far as the proofs need them.                                   *)

WideLoads == [ends: SUBSET (Nat \X Session), calls: SUBSET Nat, smark: Nat, stail: Nat]

TablesOK ==
  /\ plan \in Plans /\ clock \in Nat
  /\ ended \in [Session -> Nat] /\ stamp \in [Session -> Nat]
  /\ hook \in [Session -> HookSteps]
  /\ rows \in Nat
  /\ sent \subseteq Nat \X Session /\ sentCalls \subseteq Nat

(* No time is ahead of the clock.                                           *)
TimesOK ==
  /\ \A s \in Session : ended[s] <= clock /\ stamp[s] <= clock
  /\ \A f \in Flusher : \A e \in load[f].ends : e[1] <= clock

FlushesOK ==
  /\ cmark \in Nat /\ smark \in Nat /\ stail \in Nat
  /\ flushLock \in Flusher \cup {None}
  /\ queueLock \in Flusher \cup Session \cup {None}
  /\ pc \in [Flusher -> FlushSteps]
  /\ load \in [Flusher -> WideLoads]

(* Which steps have something loaded.                                       *)
LoadsOK ==
  \A f \in Flusher :
    /\ load[f].calls \subseteq 1..rows
    /\ pc[f] = "calls" => load[f].calls # {}
    /\ pc[f] \in {"mark", "tail"} => load[f].ends # {}
    /\ pc[f] = "post" => load[f].calls # {} \/ load[f].ends # {}

TypeInv == TablesOK /\ TimesOK /\ FlushesOK /\ LoadsOK

LEMMA PlansType ==
  ASSUME plan \in Plans
  PROVE  plan.batch \in Nat \ {0} /\ plan.past \subseteq Session
         /\ plan.spawn \subseteq Child
  BY OtelAssumption

LEMMA InitTypeInv == Init => TypeInv
<1>. SUFFICES ASSUME Init PROVE TypeInv
  OBVIOUS
<1>1. plan \in Plans /\ plan.past \subseteq Session
  BY PlansType DEF Init
<1>2. IsFiniteSet(plan.past) /\ Cardinality(plan.past) \in Nat
  BY <1>1, OtelAssumption, FS_Subset, FS_CardinalityType
<1>3. TablesOK
  BY <1>1 DEF Init, TablesOK, HookSteps
<1>4. Empty \in WideLoads
  BY DEF Empty, WideLoads
<1>5. FlushesOK
  BY <1>2, <1>4 DEF Init, FlushesOK, FlushSteps
<1>6. TimesOK /\ LoadsOK
  BY DEF Init, TimesOK, LoadsOK, Empty
<1>. QED
  BY <1>3, <1>5, <1>6 DEF TypeInv

(* What is sent is loaded, and the last second of it is a second of it.     *)
LEMMA LastSecFacts ==
  ASSUME TypeInv, NEW f \in Flusher, load[f].ends # {}
  PROVE  /\ LastSec(load[f]) \in Nat
         /\ \E e \in load[f].ends : e[1] = LastSec(load[f])
         /\ \A e \in load[f].ends : e[1] <= LastSec(load[f])
<1>. DEFINE S == {e[1] : e \in load[f].ends}
<1>1. load[f].ends \subseteq Nat \X Session
  BY DEF TypeInv, FlushesOK, WideLoads
<1>2. S \in SUBSET Nat /\ S # {}
  BY <1>1
<1>3. clock \in Nat /\ \A x \in S : x <= clock
  BY DEF TypeInv, TablesOK, TimesOK
<1>4. Max(S) \in S /\ \A x \in S : x <= Max(S)
  BY <1>2, <1>3, MaxOfBounded
<1>. QED
  BY <1>2, <1>4 DEF LastSec

LEMMA LastCallFacts ==
  ASSUME TypeInv, NEW f \in Flusher, load[f].calls # {}
  PROVE  /\ Max(load[f].calls) \in load[f].calls
         /\ \A c \in load[f].calls : c <= Max(load[f].calls)
<1>1. rows \in Nat /\ load[f].calls \subseteq 1..rows
  BY DEF TypeInv, TablesOK, LoadsOK
<1>2. load[f].calls \in SUBSET Nat /\ \A c \in load[f].calls : c <= rows
  BY <1>1
<1>. QED
  BY <1>1, <1>2, MaxOfBounded

LEMMA EndsFinite ==
  ASSUME TypeInv, NEW f \in Flusher, NEW S \in SUBSET load[f].ends
  PROVE  IsFiniteSet(S) /\ Cardinality(S) \in Nat
<1>1. clock \in Nat /\ IsFiniteSet(0..clock) /\ IsFiniteSet(Session)
  BY FS_Interval, OtelAssumption DEF TypeInv, TablesOK
<1>2. IsFiniteSet((0..clock) \X Session)
  BY <1>1, FS_Product
<1>3. load[f].ends \subseteq (0..clock) \X Session
  BY DEF TypeInv, TablesOK, TimesOK, FlushesOK, WideLoads
<1>. QED
  BY <1>2, <1>3, FS_Subset, FS_CardinalityType

LEMMA CallsAfterFacts ==
  ASSUME TypeInv
  PROVE  /\ CallsAfter \subseteq 1..rows
         /\ \A c \in CallsAfter : c > cmark /\ cmark + 1 .. c \subseteq CallsAfter
         /\ \A c \in CallsAfter : ~InFlight(c)
<1>1. cmark \in Nat /\ rows \in Nat /\ plan.batch \in Nat
  BY PlansType DEF TypeInv, TablesOK, FlushesOK
<1>. DEFINE top == Min({cmark + plan.batch, rows})
<1>2. top \in Nat /\ top <= rows
  BY <1>1, MinOfTwo
<1>. QED
  BY <1>1, <1>2 DEF CallsAfter

-----------------------------------------------------------------------------
(* The environment and the hooks.                                           *)

LEMMA WorldTypeInv ==
  ASSUME TypeInv,
         \/ Tick \/ RecordCall
         \/ \E c \in 1..rows : SetCallMs(c) \/ Age(c)
         \/ \E s \in Session : \/ Stamp(s) \/ Hook(s) \/ EndSessionFails(s) \/ HookDies(s)
  PROVE  TypeInv'
<1>. USE DEF TypeInv
<1>1. CASE Tick
  <2>1. clock \in Nat /\ clock' = clock + 1
    BY <1>1 DEF Tick, TablesOK
  <2>2. /\ \A s \in Session : ended[s] \in Nat /\ stamp[s] \in Nat
        /\ \A f \in Flusher : \A e \in load[f].ends : e[1] \in Nat
    BY DEF TablesOK, FlushesOK, WideLoads
  <2>3. TimesOK'
    BY <1>1, <2>1, <2>2 DEF Tick, TimesOK, store
  <2>. QED
    BY <1>1, <2>1, <2>3 DEF Tick, TablesOK, FlushesOK, LoadsOK, store, marks, locks, ours, history
<1>2. CASE RecordCall
  BY <1>2 DEF RecordCall, TablesOK, TimesOK, FlushesOK, LoadsOK, marks, locks, ours, history
<1>3. CASE \E c \in 1..rows : SetCallMs(c) \/ Age(c)
  BY <1>3 DEF SetCallMs, Age, TablesOK, TimesOK, FlushesOK, LoadsOK, marks, locks, ours, history
<1>4. ASSUME NEW s \in Session, Stamp(s)
      PROVE  TypeInv'
  BY <1>4 DEF Stamp, HookAt, HookSteps, TablesOK, TimesOK, FlushesOK, LoadsOK,
              store, marks, locks, ours, history
<1>5. ASSUME NEW s \in Session, EndSession(s)
      PROVE  TypeInv'
  BY <1>5 DEF EndSession, HookAt, HookSteps, TablesOK, TimesOK, FlushesOK, LoadsOK,
              marks, locks, ours, history
<1>6. ASSUME NEW s \in Session, EndSessionFails(s)
      PROVE  TypeInv'
  BY <1>6 DEF EndSessionFails, HookAt, HookSteps, TablesOK, TimesOK, FlushesOK, LoadsOK,
              store, marks, locks, ours
<1>7. ASSUME NEW s \in Session, Probe(s) \/ Unprobe(s)
      PROVE  TypeInv'
  BY <1>7 DEF Probe, Unprobe, HookAt, HookSteps, TablesOK, TimesOK, FlushesOK, LoadsOK,
              store, marks, ours, history
<1>8. ASSUME NEW s \in Session, SpawnChild(s)
      PROVE  TypeInv'
  BY <1>8, PlansType DEF SpawnChild, HookAt, HookSteps, FlushSteps, Flusher, TablesOK, TimesOK,
              FlushesOK, LoadsOK, store, marks, locks, ours, history
<1>9. ASSUME NEW s \in Session, HookDies(s)
      PROVE  TypeInv'
  BY <1>9 DEF HookDies, HookSteps, TablesOK, TimesOK, FlushesOK, LoadsOK, store, marks, ours
<1>. QED
  BY <1>1, <1>2, <1>3, <1>4, <1>5, <1>6, <1>7, <1>8, <1>9 DEF Hook

(* The flushes.                                                             *)
LEMMA LoadTypeInv ==
  ASSUME TypeInv, NEW f \in Flusher, Load(f)
  PROVE  TypeInv'
<1>. DEFINE got == [ends  |-> {<<ended[s], s>> : s \in Oldest(Pending)},
                    calls |-> CallsAfter, smark |-> smark, stail |-> stail]
<1>1. Oldest(Pending) \subseteq Session
  BY DEF Oldest, Pending
<1>2. got.ends \subseteq Nat \X Session /\ \A e \in got.ends : e[1] <= clock
  BY <1>1 DEF TypeInv, TablesOK, TimesOK
<1>3. got.calls \subseteq 1..rows /\ rows \in Nat
  BY CallsAfterFacts DEF TypeInv, TablesOK
<1>4. got \in WideLoads
  BY <1>2, <1>3 DEF WideLoads, TypeInv, FlushesOK
<1>5. UNCHANGED <<plan, clock, store, marks, locks, hook, stamp, ours, history>>
  BY DEF Load
<1>6. \/ Goto(f, "load", "unlock") /\ UNCHANGED load
      \/ /\ got.ends # {} \/ got.calls # {}
         /\ Goto(f, "load", "post") /\ load' = [load EXCEPT ![f] = got]
  BY DEF Load, Read
<1>. HIDE DEF got
<1>7. CASE Goto(f, "load", "unlock") /\ UNCHANGED load
  BY <1>5, <1>7 DEF Goto, FlushSteps, TypeInv, TablesOK, TimesOK, FlushesOK, LoadsOK,
                    store, marks, locks, ours, history
<1>8. CASE /\ got.ends # {} \/ got.calls # {}
           /\ Goto(f, "load", "post") /\ load' = [load EXCEPT ![f] = got]
  BY <1>2, <1>3, <1>4, <1>5, <1>8 DEF Goto, FlushSteps, TypeInv, TablesOK, TimesOK, FlushesOK,
                    LoadsOK, store, marks, locks, ours, history
<1>. QED
  BY <1>6, <1>7, <1>8

LEMMA FlushTypeInv ==
  ASSUME TypeInv, NEW f \in Flusher,
         StartTimer(f) \/ Flush(f) \/ PostFails(f) \/ StoreFails(f) \/ FlushDies(f)
  PROVE  TypeInv'
<1>1. Empty \in WideLoads /\ Empty.calls = {} /\ Empty.ends = {}
  BY DEF Empty, WideLoads
<1>2. load[f] \in WideLoads
  BY DEF TypeInv, FlushesOK
<1>. USE DEF TypeInv, Goto, FlushSteps
<1>3. CASE StartTimer(f)
  BY <1>3 DEF StartTimer, TablesOK, TimesOK, FlushesOK, LoadsOK, store, marks, locks, ours, history
<1>4. CASE TryQueue(f) \/ TakeLock(f) \/ Unqueue(f) \/ Unlock(f)
  BY <1>4 DEF TryQueue, TakeLock, Unqueue, Unlock, TablesOK, TimesOK, FlushesOK, LoadsOK, store,
              marks, ours, history
<1>5. CASE Load(f)
  BY <1>5, LoadTypeInv
<1>6. CASE Post(f)
  BY <1>2, <1>6 DEF Post, Takes, TablesOK, TimesOK, FlushesOK, LoadsOK, WideLoads, store, marks,
              locks, history
<1>7. CASE PostFails(f)
  BY <1>1, <1>2, <1>7 DEF PostFails, Takes, TablesOK, TimesOK, FlushesOK, LoadsOK, WideLoads, store,
              marks, locks, ours
<1>8. CASE AdvanceCalls(f)
  <2>1. Max(load[f].calls) \in Nat
    BY <1>8, LastCallFacts DEF AdvanceCalls, FlushesOK, LoadsOK, TablesOK
  <2>. QED
    BY <1>1, <1>8, <2>1 DEF AdvanceCalls, TablesOK, TimesOK, FlushesOK, LoadsOK, store, locks,
              ours, history
<1>9. CASE AdvanceMark(f)
  <2>1. LastSec(load[f]) \in Nat
    BY <1>9, LastSecFacts DEF AdvanceMark, LoadsOK
  <2>. QED
    BY <1>9, <2>1 DEF AdvanceMark, TablesOK, TimesOK, FlushesOK, LoadsOK, store, locks,
              ours, history
<1>10. CASE AdvanceTail(f)
  <2>1. NewTail(load[f]) \in Nat
    BY <1>2, EndsFinite DEF NewTail, AtLast, FlushesOK, WideLoads
  <2>. QED
    BY <1>1, <1>10, <2>1 DEF AdvanceTail, TablesOK, TimesOK, FlushesOK, LoadsOK, store, locks,
              ours, history
<1>11. CASE StoreFails(f)
  BY <1>1, <1>11 DEF StoreFails, TablesOK, TimesOK, FlushesOK, LoadsOK, store, marks, locks, ours
<1>12. CASE FlushDies(f)
  BY <1>1, <1>12 DEF FlushDies, TablesOK, TimesOK, FlushesOK, LoadsOK, store, marks, ours
<1>. QED
  BY <1>3, <1>4, <1>5, <1>6, <1>7, <1>8, <1>9, <1>10, <1>11, <1>12 DEF Flush

LEMMA NextTypeInv == TypeInv /\ [Next]_vars => TypeInv'
<1>. SUFFICES ASSUME TypeInv, [Next]_vars PROVE TypeInv'
  OBVIOUS
<1>1. CASE UNCHANGED vars
  BY <1>1 DEF vars, TypeInv, TablesOK, TimesOK, FlushesOK, LoadsOK, store, marks, locks, ours, history
<1>2. CASE Next
  BY <1>2, WorldTypeInv, FlushTypeInv DEF Next
<1>. QED
  BY <1>1, <1>2

-----------------------------------------------------------------------------
(* The two locks.                                                           *)

(* Who runs has the flush lock; a child that waits for it, one that just    *)
(* got it and a hook that probes have the queue lock.                       *)
LocksOK ==
  /\ \A f \in Running : flushLock = f
  /\ \A f \in Child : pc[f] = "lock" => queueLock = f
  /\ \A f \in Flusher : pc[f] = "unqueue" => queueLock = f
  /\ \A s \in Session : hook[s] = "probing" => queueLock = s

LEMMA Apart ==
  /\ \A f \in Flusher, s \in Session : f # s
  /\ \A f \in Flusher : f # None
  /\ \A s \in Session : s # None
  /\ Child \subseteq Flusher /\ Timer \subseteq Flusher
  /\ \A f \in Timer : f \notin Child
  BY OtelAssumption DEF Flusher

LEMMA InitLocks == Init => LocksOK
  BY Apart DEF Init, LocksOK, Running

LEMMA NextLocks == TypeInv /\ LocksOK /\ [Next]_vars => LocksOK'
<1>. SUFFICES ASSUME TypeInv, LocksOK, [Next]_vars PROVE LocksOK'
  OBVIOUS
<1>. USE Apart DEF LocksOK, Running
<1>0. /\ pc \in [Flusher -> FlushSteps] /\ hook \in [Session -> HookSteps]
      /\ plan.spawn \subseteq Child
  BY PlansType DEF TypeInv, FlushesOK, TablesOK
<1>1. CASE UNCHANGED <<locks, hook, pc>>
  BY <1>1 DEF locks
<1>2. ASSUME NEW s \in Session, Stamp(s) \/ EndSession(s) \/ EndSessionFails(s)
      PROVE  LocksOK'
  BY <1>0, <1>2 DEF Stamp, EndSession, EndSessionFails, HookAt, locks
<1>3. ASSUME NEW s \in Session, Probe(s)
      PROVE  LocksOK'
  BY <1>0, <1>3 DEF Probe, HookAt
<1>4. ASSUME NEW s \in Session, Unprobe(s)
      PROVE  LocksOK'
  BY <1>0, <1>4 DEF Unprobe, HookAt
<1>5. ASSUME NEW s \in Session, SpawnChild(s)
      PROVE  LocksOK'
  BY <1>0, <1>5 DEF SpawnChild, HookAt, locks
<1>6. ASSUME NEW s \in Session, HookDies(s)
      PROVE  LocksOK'
  BY <1>0, <1>6 DEF HookDies
<1>7. ASSUME NEW f \in Flusher, StartTimer(f)
      PROVE  LocksOK'
  BY <1>0, <1>7 DEF StartTimer, Goto, locks
<1>8. ASSUME NEW f \in Flusher, TryQueue(f)
      PROVE  LocksOK'
  BY <1>0, <1>8 DEF TryQueue, Goto
<1>9. ASSUME NEW f \in Flusher, TakeLock(f)
      PROVE  LocksOK'
  BY <1>0, <1>9 DEF TakeLock, Goto
<1>10. ASSUME NEW f \in Flusher, Unqueue(f)
       PROVE  LocksOK'
  BY <1>0, <1>10 DEF Unqueue, Goto
<1>11. ASSUME NEW f \in Flusher, Unlock(f)
       PROVE  LocksOK'
  BY <1>0, <1>11 DEF Unlock, Goto
<1>12. ASSUME NEW f \in Flusher, Load(f) \/ Post(f) \/ PostFails(f)
       PROVE  LocksOK'
  BY <1>0, <1>12 DEF Load, Read, Post, PostFails, Goto, locks
<1>13. ASSUME NEW f \in Flusher, AdvanceCalls(f) \/ AdvanceMark(f) \/ AdvanceTail(f)
       PROVE  LocksOK'
  BY <1>0, <1>13 DEF AdvanceCalls, AdvanceMark, AdvanceTail, Goto, locks
<1>14. ASSUME NEW f \in Flusher, StoreFails(f)
       PROVE  LocksOK'
  BY <1>0, <1>14 DEF StoreFails, locks
<1>15. ASSUME NEW f \in Flusher, FlushDies(f)
       PROVE  LocksOK'
  BY <1>0, <1>15 DEF FlushDies
<1>16. CASE Tick \/ RecordCall \/ \E c \in 1..rows : SetCallMs(c) \/ Age(c)
  BY <1>1, <1>16 DEF Tick, RecordCall, SetCallMs, Age
<1>17. CASE UNCHANGED vars
  BY <1>1, <1>17 DEF vars
<1>. QED
  BY <1>2, <1>3, <1>4, <1>5, <1>6, <1>7, <1>8, <1>9, <1>10, <1>11, <1>12, <1>13, <1>14, <1>15,
     <1>16, <1>17 DEF Next, Hook, Flush

LEMMA LocksInvariant == Spec => [](TypeInv /\ LocksOK)
<1>1. Init => TypeInv /\ LocksOK
  BY InitTypeInv, InitLocks
<1>2. (TypeInv /\ LocksOK) /\ [Next]_vars => (TypeInv /\ LocksOK)'
  BY NextTypeInv, NextLocks
<1>. QED
  BY <1>1, <1>2, PTL DEF Spec

(* One flush runs at a time and at most one spawned flush waits for it,     *)
(* whatever dies and however many hooks spawn and probe.                    *)
THEOREM FlushesCoalesce == Spec => []Coalesced
<1>1. LocksOK => Coalesced
  BY DEF LocksOK, Coalesced
<1>. QED
  BY <1>1, LocksInvariant, PTL

-----------------------------------------------------------------------------
(* The watermark of the calls.                                              *)

(* What is loaded continues the watermark without a gap, is not running     *)
(* any more, and was sent by the time the watermark moves.                  *)
CallsOK ==
  /\ CallsNotSkipped
  /\ \A f \in Flusher :
       /\ pc[f] \in {"post", "calls"} =>
            \A c \in load[f].calls : c > cmark /\ cmark + 1 .. c \subseteq load[f].calls
       /\ pc[f] = "post" => \A c \in load[f].calls : ~InFlight(c)
       /\ pc[f] = "calls" => load[f].calls \subseteq sentCalls

LEMMA InitCalls == Init => CallsOK
  BY DEF Init, CallsOK, CallsNotSkipped, CallsComplete

(* Steps that only add rows, ms or ages, and those that leave or stay at a  *)
(* step that has nothing to do with calls.                                  *)
LEMMA KeepCalls ==
  ASSUME TypeInv, CallsOK, cmark' = cmark, sentCalls' = sentCalls,
         finished \subseteq finished', aged \subseteq aged',
         \A f \in Flusher : pc'[f] \in {"post", "calls"} =>
                              pc'[f] = pc[f] /\ load'[f] = load[f]
  PROVE  CallsOK'
  BY DEF CallsOK, CallsNotSkipped, CallsComplete, InFlight

LEMMA NextCalls == TypeInv /\ LocksOK /\ CallsOK /\ [Next]_vars => CallsOK'
<1>. SUFFICES ASSUME TypeInv, LocksOK, CallsOK, [Next]_vars PROVE CallsOK'
  OBVIOUS
<1>0. /\ pc \in [Flusher -> FlushSteps] /\ load \in [Flusher -> WideLoads]
      /\ plan.spawn \subseteq Flusher
  BY PlansType, Apart DEF TypeInv, FlushesOK, TablesOK
<1>1. ASSUME UNCHANGED <<cmark, sentCalls, pc, load>>, finished \subseteq finished', aged \subseteq aged'
      PROVE  CallsOK'
  BY <1>1, KeepCalls
<1>2. CASE Tick \/ RecordCall \/ \E c \in 1..rows : SetCallMs(c) \/ Age(c)
  BY <1>1, <1>2 DEF Tick, RecordCall, SetCallMs, Age, store, marks, ours
<1>3. ASSUME NEW s \in Session, \/ Stamp(s) \/ EndSession(s) \/ EndSessionFails(s) \/ Probe(s)
                                \/ Unprobe(s) \/ HookDies(s)
      PROVE  CallsOK'
  BY <1>1, <1>3 DEF Stamp, EndSession, EndSessionFails, Probe, Unprobe, HookDies, store, marks, ours
<1>4. ASSUME NEW s \in Session, SpawnChild(s)
      PROVE  CallsOK'
  BY <1>0, <1>4, KeepCalls DEF SpawnChild, store, marks, ours
<1>5. ASSUME NEW f \in Flusher, \/ StartTimer(f) \/ TryQueue(f) \/ TakeLock(f) \/ Unqueue(f)
                                \/ Unlock(f) \/ AdvanceMark(f) \/ AdvanceTail(f)
      PROVE  CallsOK'
  BY <1>0, <1>5, KeepCalls DEF StartTimer, TryQueue, TakeLock, Unqueue, Unlock, AdvanceMark,
     AdvanceTail, Goto, store, marks, ours
<1>6. ASSUME NEW f \in Flusher, StoreFails(f) \/ FlushDies(f)
      PROVE  CallsOK'
  BY <1>0, <1>6, KeepCalls DEF StoreFails, FlushDies, store, marks, ours
<1>7. ASSUME NEW f \in Flusher, Load(f)
      PROVE  CallsOK'
  <2>1. /\ UNCHANGED <<cmark, sentCalls, finished, aged>>
        /\ \A g \in Flusher \ {f} : pc'[g] = pc[g] /\ load'[g] = load[g]
        /\ pc'[f] = "unlock" \/ (pc'[f] = "post" /\ load'[f].calls = CallsAfter)
    BY <1>0, <1>7 DEF Load, Read, Goto, store, marks, ours
  <2>. QED
    BY <2>1, CallsAfterFacts DEF CallsOK, CallsNotSkipped, CallsComplete, InFlight
<1>8. ASSUME NEW f \in Flusher, Post(f)
      PROVE  CallsOK'
  <2>1. /\ pc[f] = "post" /\ pc'[f] \in {"calls", "mark"}
        /\ UNCHANGED <<cmark, finished, aged, load>>
        /\ \A g \in Flusher \ {f} : pc'[g] = pc[g]
        /\ sentCalls' = sentCalls \cup load[f].calls
    BY <1>0, <1>8 DEF Post, Takes, Goto, store, marks
  <2>. QED
    BY <2>1 DEF CallsOK, CallsNotSkipped, CallsComplete, InFlight
<1>9. ASSUME NEW f \in Flusher, PostFails(f)
      PROVE  CallsOK'
  <2>1. /\ pc[f] = "post" /\ pc'[f] = "unlock"
        /\ UNCHANGED <<cmark, finished, aged>>
        /\ \A g \in Flusher \ {f} : pc'[g] = pc[g] /\ load'[g] = load[g]
        /\ sentCalls' = sentCalls \/ sentCalls' = sentCalls \cup load[f].calls
    BY <1>0, <1>9 DEF PostFails, Takes, Goto, store, marks, ours
  <2>. QED
    BY <2>1 DEF CallsOK, CallsNotSkipped, CallsComplete, InFlight
<1>10. ASSUME NEW f \in Flusher, AdvanceCalls(f)
       PROVE  CallsOK'
  <2>1. /\ pc[f] = "calls" /\ pc'[f] \in {"mark", "unlock"}
        /\ UNCHANGED <<sentCalls, finished, aged>>
        /\ \A g \in Flusher \ {f} : pc'[g] = pc[g]
        /\ cmark' = Max(load[f].calls)
    BY <1>0, <1>10 DEF AdvanceCalls, Goto, store, ours
  <2>2. \A g \in Flusher \ {f} : pc[g] \notin {"post", "calls"}
    BY <2>1 DEF LocksOK, Running
  <2>3. load[f].calls # {} /\ load[f].calls \subseteq sentCalls /\ cmark \in Nat
    BY <2>1 DEF CallsOK, TypeInv, LoadsOK, FlushesOK
  <2>4. Max(load[f].calls) \in load[f].calls
    BY <2>3, LastCallFacts
  <2>5. load[f].calls \subseteq Nat
    BY <1>0 DEF WideLoads
  <2>6. cmark + 1 .. cmark' \subseteq sentCalls /\ 1..cmark \subseteq sentCalls /\ cmark' \in Nat
    BY <2>1, <2>3, <2>4, <2>5 DEF CallsOK, CallsNotSkipped
  <2>7. 1..cmark' \subseteq sentCalls
    BY <2>3, <2>6
  <2>. QED
    BY <2>1, <2>2, <2>7 DEF CallsOK, CallsNotSkipped, CallsComplete, InFlight
<1>11. CASE UNCHANGED vars
  BY <1>1, <1>11 DEF vars, store, marks, ours
<1>. QED
  BY <1>2, <1>3, <1>4, <1>5, <1>6, <1>7, <1>8, <1>9, <1>10, <1>11 DEF Next, Hook, Flush

LEMMA CallsInvariant == Spec => []CallsOK
<1>1. Init => TypeInv /\ LocksOK /\ CallsOK
  BY InitTypeInv, InitLocks, InitCalls
<1>2. (TypeInv /\ LocksOK /\ CallsOK) /\ [Next]_vars => (TypeInv /\ LocksOK /\ CallsOK)'
  BY NextTypeInv, NextLocks, NextCalls
<1>. QED
  BY <1>1, <1>2, PTL DEF Spec

(* The watermark of the calls passes nothing that was not sent, whichever   *)
(* answers are lost and whoever dies between the post and its mark, and no  *)
(* call is sent while it runs.                                              *)
THEOREM NoCallSkipped == Spec => []CallsNotSkipped
<1>1. CallsOK => CallsNotSkipped
  BY DEF CallsOK
<1>. QED
  BY <1>1, CallsInvariant, PTL

-----------------------------------------------------------------------------
(* The calls as an outbox.                                                  *)

Box == <<rows, finished \cup aged, sentCalls, cmark>>

(* What a flush has read and not yet marked is what follows the mark.       *)
LEMMA LoadedCalls ==
  ASSUME TypeInv, CallsOK, NEW f \in Flusher, pc[f] \in {"post", "calls"}, load[f].calls # {}
  PROVE  /\ Max(load[f].calls) \in 1..rows
         /\ Max(load[f].calls) > cmark
         /\ load[f].calls = cmark + 1 .. Max(load[f].calls)
<1>1. rows \in Nat /\ cmark \in Nat /\ load[f].calls \subseteq 1..rows
  BY DEF TypeInv, TablesOK, FlushesOK, LoadsOK
<1>2. /\ Max(load[f].calls) \in load[f].calls
      /\ \A c \in load[f].calls : c <= Max(load[f].calls)
  BY LastCallFacts
<1>3. \A c \in load[f].calls : c > cmark /\ cmark + 1 .. c \subseteq load[f].calls
  BY DEF CallsOK
<1>. DEFINE n == Max(load[f].calls)
<1>. HIDE DEF n
<1>4. n \in 1..rows /\ n > cmark /\ cmark + 1 .. n \subseteq load[f].calls
  BY <1>1, <1>2, <1>3 DEF n
<1>5. \A c \in load[f].calls : c \in cmark + 1 .. n
  BY <1>1, <1>2, <1>3, <1>4 DEF n
<1>6. load[f].calls = cmark + 1 .. n
  BY <1>4, <1>5
<1>. QED
  BY <1>4, <1>6 DEF n

LEMMA TakesDelivers ==
  ASSUME TypeInv, CallsOK, NEW f \in Flusher, pc[f] = "post",
         Takes(load[f]), UNCHANGED <<store, cmark>>
  PROVE  [CallsBox!Next]_Box
<1>1. UNCHANGED <<rows, finished, aged, cmark>> /\ sentCalls' = sentCalls \cup load[f].calls
  BY DEF store, Takes
<1>2. CASE load[f].calls = {}
  BY <1>1, <1>2 DEF Box
<1>3. CASE load[f].calls # {}
  <2>. DEFINE n == Max(load[f].calls)
  <2>1. n \in 1..rows /\ n > cmark /\ load[f].calls = cmark + 1 .. n
    BY <1>3, LoadedCalls
  <2>2. load[f].calls \subseteq finished \cup aged
    BY DEF CallsOK, InFlight
  <2>3. rows \in Nat /\ n <= rows
    BY <2>1 DEF TypeInv, TablesOK
  <2>4. CallsBox!Deliver(n)
    BY <1>1, <2>1, <2>2, <2>3 DEF CallsBox!Deliver
  <2>. QED
    BY <2>1, <2>4 DEF CallsBox!Next
<1>. QED
  BY <1>2, <1>3

LEMMA AdvanceAdvances ==
  ASSUME TypeInv, CallsOK, NEW f \in Flusher, AdvanceCalls(f)
  PROVE  [CallsBox!Next]_Box
<1>. DEFINE n == Max(load[f].calls)
<1>1. pc[f] = "calls" /\ UNCHANGED <<rows, finished, aged, sentCalls>> /\ cmark' = n
  BY DEF AdvanceCalls, Goto, store, ours
<1>2. load[f].calls # {} /\ load[f].calls \subseteq sentCalls
  BY <1>1 DEF TypeInv, LoadsOK, CallsOK
<1>3. n \in 1..rows /\ n > cmark /\ load[f].calls = cmark + 1 .. n
  BY <1>1, <1>2, LoadedCalls
<1>4. CallsBox!Advance(n)
  BY <1>1, <1>2, <1>3 DEF CallsBox!Advance
<1>. QED
  BY <1>3, <1>4 DEF CallsBox!Next

LEMMA NextBox == TypeInv /\ CallsOK /\ [Next]_vars => [CallsBox!Next]_Box
<1>. SUFFICES ASSUME TypeInv, CallsOK, [Next]_vars PROVE [CallsBox!Next]_Box
  OBVIOUS
<1>1. ASSUME UNCHANGED <<rows, finished, aged, sentCalls, cmark>>
      PROVE  [CallsBox!Next]_Box
  BY <1>1 DEF Box
<1>2. CASE RecordCall
  <2>1. CallsBox!Make
    BY <1>2 DEF RecordCall, CallsBox!Make, marks, ours
  <2>. QED
    BY <2>1 DEF CallsBox!Next
<1>3. ASSUME NEW c \in 1..rows, SetCallMs(c) \/ Age(c)
      PROVE  [CallsBox!Next]_Box
  <2>1. UNCHANGED <<rows, sentCalls, cmark>> /\ (finished \cup aged)' = (finished \cup aged) \cup {c}
    BY <1>3 DEF SetCallMs, Age, marks, ours
  <2>2. CallsBox!FallDue(c)
    BY <2>1 DEF CallsBox!FallDue
  <2>. QED
    BY <2>2 DEF CallsBox!Next
<1>4. ASSUME NEW s \in Session, Stamp(s) \/ Hook(s) \/ EndSessionFails(s) \/ HookDies(s)
      PROVE  [CallsBox!Next]_Box
  BY <1>1, <1>4 DEF Hook, Stamp, EndSession, EndSessionFails, Probe, Unprobe, SpawnChild, HookDies,
     store, marks, ours
<1>5. ASSUME NEW f \in Flusher, \/ StartTimer(f) \/ TryQueue(f) \/ TakeLock(f) \/ Unqueue(f)
                                \/ Load(f) \/ Unlock(f) \/ AdvanceMark(f) \/ AdvanceTail(f)
      PROVE  [CallsBox!Next]_Box
  BY <1>1, <1>5 DEF StartTimer, TryQueue, TakeLock, Unqueue, Load, Unlock, AdvanceMark, AdvanceTail,
     store, marks, ours
<1>6. ASSUME NEW f \in Flusher, StoreFails(f) \/ FlushDies(f)
      PROVE  [CallsBox!Next]_Box
  BY <1>1, <1>6 DEF StoreFails, FlushDies, store, marks, ours
<1>7. ASSUME NEW f \in Flusher, Post(f)
      PROVE  [CallsBox!Next]_Box
  <2>1. pc[f] = "post" /\ Takes(load[f]) /\ UNCHANGED <<store, cmark>>
    BY <1>7 DEF Post, Goto, marks
  <2>. QED
    BY <2>1, TakesDelivers
<1>8. ASSUME NEW f \in Flusher, PostFails(f)
      PROVE  [CallsBox!Next]_Box
  <2>1. pc[f] = "post" /\ (Takes(load[f]) \/ UNCHANGED ours) /\ UNCHANGED <<store, cmark>>
    BY <1>8 DEF PostFails, Goto, marks
  <2>. QED
    BY <1>1, <2>1, TakesDelivers DEF ours, store
<1>9. ASSUME NEW f \in Flusher, AdvanceCalls(f)
      PROVE  [CallsBox!Next]_Box
  BY <1>9, AdvanceAdvances
<1>10. CASE Tick \/ UNCHANGED vars
  BY <1>1, <1>10 DEF Tick, vars, store, marks, ours
<1>. QED
  BY <1>2, <1>3, <1>4, <1>5, <1>6, <1>7, <1>8, <1>9, <1>10 DEF Next, Flush

(* Flushes of any number of processes, under every fault, are one outbox of *)
(* calls: what is posted follows the mark of that moment without a gap and  *)
(* is not in flight, and the mark only moves on, over what was posted.      *)
THEOREM ImplementsOutbox == Spec => CallsDelivered
<1>1. Init => CallsBox!Init
  BY DEF Init, CallsBox!Init
<1>2. TypeInv /\ CallsOK /\ [Next]_vars => [CallsBox!Next]_<<rows, finished \cup aged, sentCalls, cmark>>
  BY NextBox DEF Box
<1>. QED
  BY <1>1, <1>2, LocksInvariant, CallsInvariant, PTL DEF Spec, CallsDelivered, CallsBox!Spec

-----------------------------------------------------------------------------
(* The watermark of the sessions: while sessions end in the order of        *)
(* (ended_at, id), what is behind (mark, tail) was sent.                    *)

Loaded(f) == pc[f] \in {"post", "calls", "mark", "tail"}

(* L is the first k sessions, by id, of those that ended in the second sec, *)
(* and they were sent.                                                      *)
Prefix(L, k, sec) ==
  /\ L \in SUBSET Session /\ Cardinality(L) = k
  /\ \A r \in L : /\ sec > 0 /\ ended[r] = sec /\ <<sec, r>> \in sent
                  /\ \A q \in Session : ended[q] = sec /\ q < r => q \in L

(* What a flush has loaded comes right after the marks it read.             *)
Chunk(L, l) ==
  /\ Prefix(L, l.stail, l.smark)
  /\ \A e \in l.ends :
       /\ e[2] \notin L /\ ended[e[2]] = e[1] /\ e[1] > 0 /\ e[1] >= l.smark
       /\ \A q \in Session : ended[q] # 0 /\ Before(q, e[2]) =>
            <<ended[q], q>> \in l.ends \/ q \in L \/ ended[q] < l.smark

FlushOK(f) ==
  /\ stail = load[f].stail
  /\ smark = IF pc[f] = "tail" THEN LastSec(load[f]) ELSE load[f].smark
  /\ \E L \in SUBSET Session : Chunk(L, load[f])
  /\ pc[f] # "post" => load[f].ends \subseteq sent

(* The inductive invariant, as long as the marks were not torn apart.       *)
MarkOK == smark = 0 \/ \E r \in Session : ended[r] = smark
OldOK  == \A s \in Session : ended[s] # 0 /\ ended[s] < smark => <<ended[s], s>> \in sent
TailOK == \/ \E f \in Flusher : pc[f] = "tail"
          \/ \E L \in SUBSET Session : Prefix(L, stail, smark)
EndsOK == torn \/ (MarkOK /\ OldOK /\ TailOK /\ \A f \in Flusher : Loaded(f) => FlushOK(f))

-----------------------------------------------------------------------------
(* Counting.                                                                *)

LEMMA SomeSessions ==
  ASSUME NEW S \in SUBSET Session
  PROVE  IsFiniteSet(S) /\ Cardinality(S) \in Nat
  BY OtelAssumption, FS_Subset, FS_CardinalityType

(* In a prefix of k sessions are those whose place is at most k.            *)
LEMMA PrefixPlaces ==
  ASSUME NEW L, NEW k \in Nat, NEW sec \in Nat, Prefix(L, k, sec),
         NEW s \in Session, ended[s] = sec
  PROVE  s \in L <=> Place(s) <= k
<1>. DEFINE P == {r \in Session : ended[r] = ended[s] /\ r <= s}
<1>0. Session \subseteq Nat
  BY OtelAssumption
<1>1. L \in SUBSET Session /\ P \in SUBSET Session /\ L \cup {s} \in SUBSET Session
  BY DEF Prefix
<1>2. IsFiniteSet(L) /\ IsFiniteSet(P) /\ Cardinality(L) \in Nat /\ Cardinality(P) \in Nat
  BY <1>1, SomeSessions
<1>3. ASSUME s \in L PROVE Cardinality(P) <= k
  <2>1. \A r \in P : r \in Nat /\ s \in Nat /\ (r = s \/ r < s)
    BY <1>0
  <2>2. \A q \in Session : ended[q] = sec /\ q < s => q \in L
    BY <1>3 DEF Prefix
  <2>3. P \subseteq L
    BY <1>3, <2>1, <2>2
  <2>. QED
    BY <1>2, <2>3, FS_Subset DEF Prefix
<1>4. ASSUME s \notin L PROVE Cardinality(P) > k
  <2>1. ASSUME NEW r \in L PROVE r \in Session /\ ended[r] = ended[s] /\ r <= s
    <3>1. r \in Session /\ r \in Nat /\ s \in Nat /\ ended[r] = sec
      BY <1>0, <1>1 DEF Prefix
    <3>2. ~(s < r)
      BY <1>4 DEF Prefix
    <3>. QED
      BY <3>1, <3>2
  <2>2. L \cup {s} \subseteq P
    BY <1>0, <2>1
  <2>3. Cardinality(L \cup {s}) = Cardinality(L) + 1
    BY <1>2, <1>4, FS_AddElement
  <2>4. Cardinality(L \cup {s}) <= Cardinality(P)
    BY <1>2, <2>2, FS_Subset
  <2>. QED
    BY <1>2, <2>3, <2>4 DEF Prefix
<1>. HIDE DEF P
<1>5. Place(s) = Cardinality(P)
  BY DEF Place, P
<1>6. k \in Nat
  BY <1>2 DEF Prefix
<1>. QED
  BY <1>2, <1>3, <1>4, <1>5, <1>6

(* The sessions of a second that were loaded, counted by advance_sessions.  *)
LEMMA LoadedAtLast ==
  ASSUME NEW l, l.ends \subseteq Nat \X Session
  PROVE  AtLast(l) = Cardinality({r \in Session : <<LastSec(l), r>> \in l.ends})
<1>. DEFINE sec == LastSec(l)
            T == {r \in Session : <<sec, r>> \in l.ends}
            S == {e \in l.ends : e[1] = sec}
            F == [r \in T |-> <<sec, r>>]
<1>1. IsFiniteSet(T)
  BY SomeSessions
<1>2. AtLast(l) = Cardinality(S)
  BY DEF AtLast
<1>. HIDE DEF sec
<1>3. F \in [T -> S] /\ \A a, b \in T : F[a] = F[b] => a = b
  OBVIOUS
<1>4. \A e \in S : \E r \in T : F[r] = e
  <2>. TAKE e \in S
  <2>1. e = <<sec, e[2]>> /\ e[2] \in Session
    OBVIOUS
  <2>. QED
    BY <2>1
<1>5. ExistsBijection(T, S)
  BY <1>3, <1>4, Fun_IsBij DEF ExistsBijection
<1>6. Cardinality(S) = Cardinality(T)
  <2>. HIDE DEF T, S
  <2>. QED
    BY <1>1, <1>5, FS_Bijection
<1>. QED
  BY <1>2, <1>6 DEF sec

LEMMA AtLastCounts ==
  ASSUME TypeInv, NEW f \in Flusher, NEW sec, sec = LastSec(load[f])
  PROVE  AtLast(load[f]) = Cardinality({r \in Session : <<sec, r>> \in load[f].ends})
<1>1. load[f].ends \subseteq Nat \X Session
  BY DEF TypeInv, FlushesOK, WideLoads
<1>. QED
  BY <1>1, LoadedAtLast

(* A batch of the oldest pending sessions leaves no older one behind.       *)
LEMMA OldestFirst ==
  ASSUME TypeInv, NEW r \in Oldest(Pending), NEW q \in Pending, Before(q, r)
  PROVE  q \in Oldest(Pending)
<1>. DEFINE Q == {p \in Pending : Before(p, q)}
            R == {p \in Pending : Before(p, r)}
<1>1. Pending \subseteq Session /\ Session \subseteq Nat /\ r \in Pending
  BY OtelAssumption DEF Pending, Oldest
<1>2. ended \in [Session -> Nat] /\ plan.batch \in Nat
  BY PlansType DEF TypeInv, TablesOK
<1>3. ASSUME NEW p \in Q PROVE p \in R
  <2>1. /\ p \in Nat /\ q \in Nat /\ r \in Nat
        /\ ended[p] \in Nat /\ ended[q] \in Nat /\ ended[r] \in Nat
    BY <1>1, <1>2
  <2>2. Before(p, q) /\ Before(q, r)
    OBVIOUS
  <2>3. Before(p, r)
    BY <2>1, <2>2 DEF Before
  <2>. QED
    BY <2>3
<1>4. IsFiniteSet(R) /\ Cardinality(R) \in Nat /\ Cardinality(Q) \in Nat
  BY <1>1, SomeSessions
<1>5. Cardinality(Q) <= Cardinality(R)
  <2>1. Q \in SUBSET R
    BY <1>3
  <2>. QED
    BY <1>4, <2>1, FS_Subset
<1>6. Cardinality(R) < plan.batch
  BY DEF Oldest
<1>. HIDE DEF Q, R
<1>7. Cardinality(Q) < plan.batch
  BY <1>2, <1>4, <1>5, <1>6
<1>. QED
  BY <1>7 DEF Oldest, Q

-----------------------------------------------------------------------------
(* The steps of sessions that matter to the marks.                          *)

LEMMA InitEnds == Init => EndsOK
<1>. SUFFICES ASSUME Init PROVE EndsOK
  OBVIOUS
<1>1. plan.past \in SUBSET Session
  BY PlansType DEF Init
<1>2. \A f \in Flusher : ~Loaded(f)
  BY DEF Init, Loaded
<1>3. ended = [s \in Session |-> IF s \in plan.past THEN 1 ELSE 0] /\ sent = {1} \X plan.past
  BY DEF Init
<1>4. smark = (IF plan.past = {} THEN 0 ELSE 1) /\ stail = Cardinality(plan.past)
  BY DEF Init
<1>5. MarkOK /\ OldOK
  BY <1>1, <1>3, <1>4 DEF MarkOK, OldOK
<1>6. Prefix(plan.past, stail, smark)
  BY <1>1, <1>3, <1>4 DEF Prefix
<1>. QED
  BY <1>1, <1>2, <1>5, <1>6 DEF EndsOK, TailOK

(* A session that ends in its order comes after all that have ended.        *)
LEMMA EndsLast ==
  ASSUME TypeInv, InOrder, NEW s \in Session, EndSession(s)
  PROVE  /\ ended[s] = 0 /\ ended'[s] = stamp[s] /\ stamp[s] > 0
         /\ \A r \in Session \ {s} : ended'[r] = ended[r]
         /\ \A r \in Session : ended[r] < stamp[s] \/ (ended[r] = stamp[s] /\ r < s)
         /\ sent' = sent
<1>1. ended \in [Session -> Nat] /\ stamp \in [Session -> Nat] /\ Session \subseteq Nat
  BY OtelAssumption DEF TypeInv, TablesOK
<1>2. InItsOrder(s) /\ ended' = [ended EXCEPT ![s] = stamp[s]] /\ UNCHANGED ours
  BY DEF EndSession
<1>. QED
  BY <1>1, <1>2 DEF InItsOrder, ours

LEMMA EndKeepsPrefix ==
  ASSUME TypeInv, InOrder, NEW s \in Session, EndSession(s),
         NEW L, NEW k \in Nat, NEW sec \in Nat, Prefix(L, k, sec)
  PROVE  Prefix(L, k, sec)' /\ s \notin L
<1>1. Session \subseteq Nat /\ ended \in [Session -> Nat] /\ stamp \in [Session -> Nat]
  BY OtelAssumption DEF TypeInv, TablesOK
<1>2. s \notin L
  <2>1. ended[s] = 0
    BY EndsLast
  <2>2. \A r \in L : ended[r] > 0
    BY DEF Prefix
  <2>. QED
    BY <2>1, <2>2
<1>3. ASSUME NEW r \in L PROVE ended[r] = sec /\ (stamp[s] = sec => ~(s < r))
  <2>1. r \in Session /\ ended[r] = sec
    BY DEF Prefix
  <2>2. ended[r] < stamp[s] \/ r < s
    BY <2>1, EndsLast
  <2>3. r \in Nat /\ s \in Nat /\ stamp[s] \in Nat
    BY <1>1, <2>1
  <2>. QED
    BY <2>1, <2>2, <2>3
<1>. QED
  BY <1>1, <1>2, <1>3, EndsLast DEF Prefix

LEMMA EndKeepsChunk ==
  ASSUME TypeInv, InOrder, NEW s \in Session, EndSession(s), NEW f \in Flusher,
         NEW L, Chunk(L, load[f])
  PROVE  Chunk(L, load[f])'
<1>1. /\ Session \subseteq Nat /\ ended \in [Session -> Nat] /\ stamp \in [Session -> Nat]
      /\ load' = load /\ load[f].ends \subseteq Nat \X Session
  BY OtelAssumption DEF TypeInv, TablesOK, FlushesOK, WideLoads, EndSession
<1>2. Prefix(L, load[f].stail, load[f].smark)'
  <2>1. load[f].stail \in Nat /\ load[f].smark \in Nat
    BY DEF TypeInv, FlushesOK, WideLoads
  <2>. QED
    BY <1>1, <2>1, EndKeepsPrefix DEF Chunk
<1>3. ASSUME NEW e \in load[f].ends
      PROVE  e[2] \in Session /\ e[2] # s /\ ended'[e[2]] = ended[e[2]] /\ ~Before(s, e[2])'
  <2>1. e[2] \in Session /\ ended[e[2]] > 0
    BY <1>1 DEF Chunk
  <2>2. e[2] # s
    BY <2>1, EndsLast
  <2>3. ended'[e[2]] = ended[e[2]] /\ ended'[s] = stamp[s]
    BY <2>1, <2>2, EndsLast
  <2>4. ended[e[2]] < stamp[s] \/ (ended[e[2]] = stamp[s] /\ e[2] < s)
    BY <2>1, EndsLast
  <2>5. ended[e[2]] \in Nat /\ stamp[s] \in Nat /\ e[2] \in Nat /\ s \in Nat
    BY <1>1, <2>1
  <2>. QED
    BY <2>1, <2>2, <2>3, <2>4, <2>5 DEF Before
<1>4. ASSUME NEW e \in load[f].ends, NEW q \in Session, ended'[q] # 0, Before(q, e[2])'
      PROVE  <<ended'[q], q>> \in load[f].ends \/ q \in L \/ ended'[q] < load[f].smark
  <2>1. q # s /\ ended'[q] = ended[q] /\ Before(q, e[2])
    BY <1>3, <1>4, EndsLast DEF Before
  <2>. QED
    BY <1>4, <2>1 DEF Chunk
<1>. QED
  BY <1>1, <1>2, <1>3, <1>4 DEF Chunk

LEMMA EndKeepsEnds ==
  ASSUME TypeInv, EndsOK, InOrder, NEW s \in Session, EndSession(s)
  PROVE  EndsOK'
<1>0. UNCHANGED <<torn, smark, stail, sent, pc, load>>
  BY DEF EndSession, marks, ours, history
<1>1. CASE torn
  BY <1>0, <1>1 DEF EndsOK
<1>2. CASE ~torn
  <2>1. MarkOK /\ OldOK /\ TailOK /\ \A f \in Flusher : Loaded(f) => FlushOK(f)
    BY <1>2 DEF EndsOK
  <2>2. ended \in [Session -> Nat] /\ stamp \in [Session -> Nat] /\ smark \in Nat
    BY DEF TypeInv, TablesOK, FlushesOK
  <2>3. MarkOK'
    BY <1>0, <2>1, <2>2, EndsLast DEF MarkOK
  <2>4. OldOK'
    BY <1>0, <2>1, <2>2, EndsLast DEF MarkOK, OldOK
  <2>5. TailOK'
    <3>1. stail \in Nat
      BY DEF TypeInv, FlushesOK
    <3>. QED
      BY <1>0, <2>1, <2>2, <3>1, EndKeepsPrefix DEF TailOK
  <2>6. ASSUME NEW f \in Flusher, Loaded(f)' PROVE FlushOK(f)'
    <3>1. Loaded(f) /\ FlushOK(f)
      BY <1>0, <2>1, <2>6 DEF Loaded
    <3>2. PICK L \in SUBSET Session : Chunk(L, load[f])
      BY <3>1 DEF FlushOK
    <3>3. Chunk(L, load[f])'
      BY <3>2, EndKeepsChunk
    <3>. QED
      BY <1>0, <3>1, <3>3 DEF FlushOK, LastSec
  <2>. QED
    BY <2>3, <2>4, <2>5, <2>6 DEF EndsOK
<1>. QED
  BY <1>1, <1>2

-----------------------------------------------------------------------------
(* Steps that leave the marks and the ends of sessions alone.               *)

LEMMA SamePrefix ==
  ASSUME NEW L, NEW k, NEW sec, Prefix(L, k, sec), ended' = ended, sent \subseteq sent'
  PROVE  Prefix(L, k, sec)'
  BY DEF Prefix

LEMMA SameChunk ==
  ASSUME NEW L, NEW l, Chunk(L, l), ended' = ended, sent \subseteq sent'
  PROVE  Chunk(L, l)'
<1>1. Prefix(L, l.stail, l.smark)'
  BY SamePrefix DEF Chunk
<1>. QED
  BY <1>1 DEF Chunk, Before

LEMMA KeepEnds ==
  ASSUME TypeInv, EndsOK, UNCHANGED <<ended, smark, stail>>, torn => torn', sent \subseteq sent',
         \A f \in Flusher :
           /\ pc[f] = "tail" <=> pc'[f] = "tail"
           /\ Loaded(f)' => /\ Loaded(f) /\ load'[f] = load[f]
                            /\ pc'[f] = "post" \/ load[f].ends \subseteq sent'
  PROVE  EndsOK'
<1>1. CASE torn'
  BY <1>1 DEF EndsOK
<1>2. CASE ~torn'
  <2>1. MarkOK /\ OldOK /\ TailOK /\ \A f \in Flusher : Loaded(f) => FlushOK(f)
    BY <1>2 DEF EndsOK
  <2>2. MarkOK' /\ OldOK'
    BY <2>1 DEF MarkOK, OldOK
  <2>3. TailOK'
    BY <2>1, SamePrefix DEF TailOK
  <2>4. ASSUME NEW f \in Flusher, Loaded(f)' PROVE FlushOK(f)'
    <3>1. Loaded(f) /\ FlushOK(f) /\ load'[f] = load[f]
      BY <2>1, <2>4
    <3>2. PICK L \in SUBSET Session : Chunk(L, load[f])
      BY <3>1 DEF FlushOK
    <3>3. Chunk(L, load[f])'
      BY <3>1, <3>2, SameChunk
    <3>. QED
      BY <2>4, <3>1, <3>3 DEF FlushOK, LastSec
  <2>. QED
    BY <2>2, <2>3, <2>4 DEF EndsOK
<1>. QED
  BY <1>1, <1>2

-----------------------------------------------------------------------------
(* Load: what is pending comes right after the prefix that was sent.        *)

LEMMA LoadChunk ==
  ASSUME TypeInv, NEW f \in Flusher, Load(f), Loaded(f)',
         NEW L, Prefix(L, stail, smark)
  PROVE  Chunk(L, load'[f]) /\ load'[f].stail = stail /\ load'[f].smark = smark
<1>1. /\ Session \subseteq Nat /\ ended \in [Session -> Nat] /\ smark \in Nat /\ stail \in Nat
      /\ pc \in [Flusher -> FlushSteps] /\ load \in [Flusher -> WideLoads]
  BY OtelAssumption DEF TypeInv, TablesOK, FlushesOK
<1>2. /\ load'[f].ends = {<<ended[s], s>> : s \in Oldest(Pending)}
      /\ load'[f].stail = stail /\ load'[f].smark = smark
  BY <1>1 DEF Load, Read, Goto, Loaded
<1>3. \A s \in Oldest(Pending) : s \in Pending
  BY DEF Oldest
<1>4. ASSUME NEW s \in Pending
      PROVE  s \in Session /\ s \notin L /\ ended[s] > 0 /\ ended[s] >= smark
  <2>1. s \in Session /\ ended[s] \in Nat /\ ended[s] # 0 /\ ~Behind(s)
    BY <1>1 DEF Pending
  <2>2. ended[s] >= smark
    BY <1>1, <2>1 DEF Behind
  <2>3. s \notin L
    <3>1. SUFFICES ASSUME s \in L PROVE FALSE
      OBVIOUS
    <3>2. ended[s] = smark /\ smark > 0
      BY <3>1 DEF Prefix
    <3>3. Place(s) <= stail
      BY <1>1, <2>1, <3>1, <3>2, PrefixPlaces
    <3>. QED
      BY <2>1, <3>2, <3>3 DEF Behind
  <2>. QED
    BY <2>1, <2>2, <2>3
<1>5. ASSUME NEW s \in Oldest(Pending), NEW q \in Session, ended[q] # 0, Before(q, s)
      PROVE  q \in Oldest(Pending) \/ q \in L \/ ended[q] < smark
  <2>1. CASE q \in Pending
    BY <1>5, <2>1, OldestFirst
  <2>2. CASE ~(q \in Pending)
    <3>1. Behind(q) /\ ended[q] \in Nat
      BY <1>1, <1>5, <2>2 DEF Pending
    <3>2. CASE ended[q] = smark /\ smark > 0 /\ Place(q) <= stail
      BY <1>1, <3>2, PrefixPlaces
    <3>3. CASE ended[q] \in 1..(smark - 1)
      BY <1>1, <3>3
    <3>. QED
      BY <3>1, <3>2, <3>3 DEF Behind
  <2>. QED
    BY <2>1, <2>2
<1>6. ASSUME NEW e \in load'[f].ends
      PROVE  \E s \in Oldest(Pending) : e = <<ended[s], s>> /\ e[2] = s /\ e[1] = ended[s]
  BY <1>2, <1>6
<1>7. ASSUME NEW e \in load'[f].ends
      PROVE  /\ e[2] \notin L /\ ended[e[2]] = e[1] /\ e[1] > 0 /\ e[1] >= smark
             /\ \A q \in Session : ended[q] # 0 /\ Before(q, e[2]) =>
                  <<ended[q], q>> \in load'[f].ends \/ q \in L \/ ended[q] < smark
  <2>1. PICK s \in Oldest(Pending) : e = <<ended[s], s>> /\ e[2] = s /\ e[1] = ended[s]
    BY <1>6, <1>7
  <2>2. s \in Pending
    BY <1>3
  <2>3. ASSUME NEW q \in Session, ended[q] # 0, Before(q, s)
        PROVE  <<ended[q], q>> \in load'[f].ends \/ q \in L \/ ended[q] < smark
    <3>1. q \in Oldest(Pending) \/ q \in L \/ ended[q] < smark
      BY <1>5, <2>3
    <3>. QED
      BY <1>2, <3>1
  <2>. QED
    BY <1>4, <2>1, <2>2, <2>3
<1>. QED
  BY <1>2, <1>7 DEF Chunk

(* advance_sessions, first statement: what is older than the last second of *)
(* the batch was sent, now or before.                                       *)
LEMMA MarkOld ==
  ASSUME TypeInv, OldOK, NEW f \in Flusher, load[f].ends # {}, FlushOK(f), pc[f] = "mark",
         NEW s \in Session, ended[s] # 0, ended[s] < LastSec(load[f])
  PROVE  <<ended[s], s>> \in sent
<1>1. PICK e \in load[f].ends : e[1] = LastSec(load[f])
  BY LastSecFacts
<1>2. PICK L \in SUBSET Session : Chunk(L, load[f])
  BY DEF FlushOK
<1>3. Before(s, e[2])
  BY <1>1, <1>2 DEF Chunk, Before
<1>4. <<ended[s], s>> \in load[f].ends \/ s \in L \/ ended[s] < load[f].smark
  BY <1>2, <1>3 DEF Chunk
<1>5. s \in L => <<ended[s], s>> \in sent
  BY <1>2 DEF Chunk, Prefix
<1>6. load[f].ends \subseteq sent /\ smark = load[f].smark
  BY DEF FlushOK
<1>. QED
  BY <1>4, <1>5, <1>6 DEF OldOK

(* The second one: the tail counts a prefix of the new second.              *)
LEMMA NewPrefix ==
  ASSUME TypeInv, NEW f \in Flusher, load[f].ends # {}, FlushOK(f), pc[f] = "tail"
  PROVE  \E L \in SUBSET Session :
           /\ Prefix(L, NewTail(load[f]), smark)
           /\ \A r \in Session : <<smark, r>> \in load[f].ends => r \in L
<1>. DEFINE sec == LastSec(load[f])
            N == {r \in Session : <<sec, r>> \in load[f].ends}
<1>1. PICK L \in SUBSET Session : Chunk(L, load[f])
  BY DEF FlushOK
<1>2. /\ load[f].smark \in Nat /\ load[f].stail \in Nat /\ sec \in Nat
      /\ Session \subseteq Nat /\ ended \in [Session -> Nat]
  BY LastSecFacts, OtelAssumption DEF TypeInv, TablesOK, FlushesOK, WideLoads
<1>3. /\ smark = sec /\ load[f].ends \subseteq sent
      /\ \E e \in load[f].ends : e[1] = sec
  BY LastSecFacts DEF FlushOK
<1>4. sec > 0 /\ sec >= load[f].smark
  BY <1>1, <1>3 DEF Chunk
<1>5. IsFiniteSet(N) /\ Cardinality(N) \in Nat /\ AtLast(load[f]) = Cardinality(N)
  BY SomeSessions, AtLastCounts
<1>6. \A r \in N : ended[r] = sec /\ <<sec, r>> \in sent /\ r \notin L
  BY <1>1, <1>3 DEF Chunk
<1>7. ASSUME NEW r \in N, NEW q \in Session, ended[q] = sec, q < r
      PROVE  q \in N \/ q \in L
  <2>1. ended[q] # 0 /\ Before(q, r)
    BY <1>4, <1>6, <1>7 DEF Before
  <2>2. <<ended[q], q>> \in load[f].ends \/ q \in L \/ ended[q] < load[f].smark
    BY <1>1, <1>7, <2>1 DEF Chunk
  <2>. QED
    BY <1>2, <1>4, <1>7, <2>2
<1>8. CASE sec > load[f].smark
  <2>1. NewTail(load[f]) = Cardinality(N)
    BY <1>2, <1>5, <1>8 DEF NewTail
  <2>2. \A r \in L : ended[r] = load[f].smark
    BY <1>1 DEF Chunk, Prefix
  <2>3. \A r \in N, q \in Session : ended[q] = sec /\ q < r => q \in N
    BY <1>2, <1>7, <1>8, <2>2
  <2>4. Prefix(N, Cardinality(N), sec)
    BY <1>4, <1>6, <2>3 DEF Prefix
  <2>. QED
    BY <1>3, <2>1, <2>4
<1>9. CASE ~(sec > load[f].smark)
  <2>1. sec = load[f].smark /\ Prefix(L, load[f].stail, sec)
    BY <1>1, <1>2, <1>4, <1>9 DEF Chunk
  <2>2. NewTail(load[f]) = Cardinality(N) + Cardinality(L)
    BY <1>2, <1>5, <1>9, <2>1 DEF NewTail, Prefix
  <2>3. IsFiniteSet(L) /\ N \cap L = {}
    BY <1>6, SomeSessions
  <2>4. Cardinality(N \cup L) = Cardinality(N) + Cardinality(L)
    <3>1. Cardinality(N \cap L) = 0
      BY <2>3, FS_EmptySet
    <3>2. Cardinality(N \cup L) = Cardinality(N) + Cardinality(L) - Cardinality(N \cap L)
      BY <1>5, <2>3, FS_Union
    <3>3. Cardinality(L) \in Nat
      BY SomeSessions
    <3>. HIDE DEF N
    <3>. QED
      BY <1>5, <3>1, <3>2, <3>3
  <2>5. Prefix(N \cup L, Cardinality(N) + Cardinality(L), sec)
    BY <1>4, <1>6, <1>7, <2>1, <2>4 DEF Prefix
  <2>. QED
    BY <1>3, <2>2, <2>5
<1>. QED
  BY <1>8, <1>9

-----------------------------------------------------------------------------
(* The invariant.                                                           *)

(* A flush at "tail" that gives up without tearing the marks: they cover    *)
(* what they covered before.                                                *)
LEMMA OldPrefix ==
  ASSUME TypeInv, NEW f \in Flusher, load[f].ends # {}, FlushOK(f), pc[f] = "tail", ~Tears(f)
  PROVE  \E L \in SUBSET Session : Prefix(L, stail, smark)
<1>1. PICK L \in SUBSET Session : Chunk(L, load[f])
  BY DEF FlushOK
<1>2. load[f].smark \in Nat /\ stail \in Nat /\ smark \in Nat /\ stail = load[f].stail
  BY DEF TypeInv, FlushesOK, WideLoads, FlushOK
<1>3. smark >= load[f].smark
  BY <1>1, LastSecFacts DEF Chunk, FlushOK
<1>4. CASE smark = load[f].smark
  BY <1>1, <1>2, <1>4 DEF Chunk
<1>5. CASE stail = 0
  <2>1. Prefix({}, stail, smark)
    BY <1>5, FS_EmptySet DEF Prefix
  <2>. QED
    BY <2>1
<1>. QED
  BY <1>2, <1>3, <1>4, <1>5 DEF Tears

LEMMA Others ==
  ASSUME LocksOK, NEW f \in Flusher, f \in Running
  PROVE  \A g \in Flusher \ {f} : ~Loaded(g) /\ pc[g] # "tail"
  BY DEF LocksOK, Running, Loaded

LEMMA LoadKeepsEnds ==
  ASSUME TypeInv, LocksOK, EndsOK, NEW f \in Flusher, Load(f)
  PROVE  EndsOK'
<1>0. /\ pc \in [Flusher -> FlushSteps] /\ load \in [Flusher -> WideLoads]
      /\ UNCHANGED <<ended, smark, stail, sent, torn>>
      /\ pc[f] = "load" /\ pc'[f] \in {"post", "unlock"}
      /\ \A g \in Flusher \ {f} : pc'[g] = pc[g] /\ load'[g] = load[g]
  BY DEF Load, Read, Goto, TypeInv, FlushesOK, store, marks, ours, history
<1>1. \A g \in Flusher \ {f} : ~Loaded(g) /\ pc[g] # "tail"
  BY <1>0, Others DEF Running
<1>2. CASE torn
  BY <1>0, <1>2 DEF EndsOK
<1>3. CASE ~torn
  <2>1. MarkOK /\ OldOK /\ TailOK
    BY <1>3 DEF EndsOK
  <2>2. PICK L \in SUBSET Session : Prefix(L, stail, smark)
    BY <1>0, <1>1, <2>1 DEF TailOK
  <2>3. MarkOK' /\ OldOK' /\ TailOK'
    BY <1>0, <2>1, <2>2, SamePrefix DEF MarkOK, OldOK, TailOK
  <2>4. ASSUME NEW g \in Flusher, Loaded(g)' PROVE FlushOK(g)'
    <3>1. g = f /\ pc'[g] = "post"
      BY <1>0, <1>1, <2>4 DEF Loaded
    <3>2. PICK l : l = load'[f]
      OBVIOUS
    <3>3. Chunk(L, l) /\ l.stail = stail /\ l.smark = smark
      BY <2>2, <2>4, <3>1, <3>2, LoadChunk
    <3>4. Chunk(L, l)'
      BY <1>0, <3>3, SameChunk
    <3>. QED
      BY <1>0, <3>1, <3>2, <3>3, <3>4 DEF FlushOK
  <2>. QED
    BY <2>3, <2>4 DEF EndsOK
<1>. QED
  BY <1>2, <1>3

LEMMA MarkKeepsEnds ==
  ASSUME TypeInv, LocksOK, EndsOK, NEW f \in Flusher, AdvanceMark(f)
  PROVE  EndsOK'
<1>0. /\ pc \in [Flusher -> FlushSteps]
      /\ UNCHANGED <<ended, stail, sent, torn, load>>
      /\ pc[f] = "mark" /\ pc'[f] = "tail" /\ smark' = LastSec(load[f])
      /\ \A g \in Flusher \ {f} : pc'[g] = pc[g]
  BY DEF AdvanceMark, Goto, TypeInv, FlushesOK, store, ours, history
<1>1. \A g \in Flusher \ {f} : ~Loaded(g) /\ pc[g] # "tail"
  BY <1>0, Others DEF Running
<1>2. CASE torn
  BY <1>0, <1>2 DEF EndsOK
<1>3. CASE ~torn
  <2>1. OldOK /\ FlushOK(f) /\ load[f].ends # {}
    BY <1>0, <1>3 DEF EndsOK, Loaded, TypeInv, LoadsOK
  <2>2. PICK L \in SUBSET Session : Chunk(L, load[f])
    BY <2>1 DEF FlushOK
  <2>3. MarkOK'
    <3>1. PICK e \in load[f].ends : e[1] = LastSec(load[f])
      BY <2>1, LastSecFacts
    <3>2. ended[e[2]] = e[1] /\ e[2] \in Session
      BY <2>2 DEF Chunk, TypeInv, FlushesOK, WideLoads
    <3>. QED
      BY <1>0, <3>1, <3>2 DEF MarkOK
  <2>4. OldOK'
    BY <1>0, <2>1, MarkOld DEF OldOK
  <2>5. TailOK'
    BY <1>0 DEF TailOK
  <2>6. ASSUME NEW g \in Flusher, Loaded(g)' PROVE FlushOK(g)'
    <3>1. g = f
      BY <1>0, <1>1, <2>6 DEF Loaded
    <3>2. Chunk(L, load[f])'
      BY <1>0, <2>2 DEF Chunk, Prefix, Before
    <3>. QED
      BY <1>0, <2>1, <3>1, <3>2 DEF FlushOK, LastSec
  <2>. QED
    BY <2>3, <2>4, <2>5, <2>6 DEF EndsOK
<1>. QED
  BY <1>2, <1>3

(* The tail is written, or the flush gives up before it or dies.            *)
LEMMA TailKeepsEnds ==
  ASSUME TypeInv, LocksOK, EndsOK, NEW f \in Flusher, pc[f] = "tail",
         AdvanceTail(f) \/ StoreFails(f) \/ FlushDies(f)
  PROVE  EndsOK'
<1>0. /\ pc \in [Flusher -> FlushSteps]
      /\ UNCHANGED <<ended, smark, sent>>
      /\ pc'[f] \in {"unlock", "idle"}
      /\ \A g \in Flusher \ {f} : pc'[g] = pc[g]
      /\ \/ stail' = NewTail(load[f]) /\ torn' = torn
         \/ stail' = stail /\ torn' = (torn \/ Tears(f))
  BY DEF AdvanceTail, StoreFails, FlushDies, Goto, TypeInv, FlushesOK, store, marks, ours, history
<1>1. \A g \in Flusher \ {f} : ~Loaded(g) /\ pc[g] # "tail"
  BY <1>0, Others DEF Running
<1>2. CASE torn'
  BY <1>2 DEF EndsOK
<1>3. CASE ~torn'
  <2>0. ~torn /\ Loaded(f)
    <3>1. torn => torn'
      BY DEF AdvanceTail, StoreFails, FlushDies, history
    <3>. QED
      BY <1>3, <3>1 DEF Loaded
  <2>1. MarkOK /\ OldOK /\ FlushOK(f) /\ load[f].ends # {}
    BY <2>0 DEF EndsOK, TypeInv, LoadsOK
  <2>2. PICK L \in SUBSET Session : Prefix(L, stail', smark)
    BY <1>0, <1>3, <2>1, NewPrefix, OldPrefix
  <2>3. TailOK'
    <3>1. Prefix(L, stail, smark)'
      BY <1>0, <2>2 DEF Prefix
    <3>. QED
      BY <3>1 DEF TailOK
  <2>4. MarkOK' /\ OldOK'
    BY <1>0, <2>1 DEF MarkOK, OldOK
  <2>5. \A g \in Flusher : ~Loaded(g)'
    BY <1>0, <1>1 DEF Loaded
  <2>. QED
    BY <2>3, <2>4, <2>5 DEF EndsOK
<1>. QED
  BY <1>2, <1>3

LEMMA NextEnds ==
  ASSUME InOrder, TypeInv, LocksOK, EndsOK, [Next]_vars
  PROVE  EndsOK'
<1>0. /\ pc \in [Flusher -> FlushSteps] /\ load \in [Flusher -> WideLoads]
      /\ plan.spawn \subseteq Flusher
      /\ \A f \in Flusher : pc[f] \in {"calls", "mark", "tail"} => torn \/ load[f].ends \subseteq sent
  BY PlansType, Apart DEF TypeInv, FlushesOK, TablesOK, EndsOK, FlushOK, Loaded
<1>1. CASE torn
  <2>1. torn'
    BY <1>1 DEF Next, vars, history, Tick, RecordCall, SetCallMs, Age, Stamp, Hook, EndSession,
       EndSessionFails, Probe, Unprobe, SpawnChild, HookDies, StartTimer, Flush, TryQueue, TakeLock,
       Unqueue, Load, Post, PostFails, AdvanceCalls, AdvanceMark, AdvanceTail, Unlock, StoreFails,
       FlushDies
  <2>. QED
    BY <2>1 DEF EndsOK
<1>2. CASE ~torn
  <2>1. \A f \in Flusher : pc[f] \in {"calls", "mark", "tail"} => load[f].ends \subseteq sent
    BY <1>0, <1>2
  <2>2. ASSUME UNCHANGED <<ended, marks, sent, torn, pc, load>> PROVE EndsOK'
    BY <1>0, <2>1, <2>2, KeepEnds DEF marks, Loaded
  <2>3. CASE Tick \/ RecordCall \/ (\E c \in 1..rows : SetCallMs(c) \/ Age(c)) \/ UNCHANGED vars
    BY <2>2, <2>3 DEF Tick, RecordCall, SetCallMs, Age, vars, store, ours, history
  <2>4. ASSUME NEW s \in Session,
               Stamp(s) \/ EndSessionFails(s) \/ Probe(s) \/ Unprobe(s) \/ HookDies(s)
        PROVE  EndsOK'
    BY <2>2, <2>4 DEF Stamp, EndSessionFails, Probe, Unprobe, HookDies, store, ours, history
  <2>5. ASSUME NEW s \in Session, EndSession(s) PROVE EndsOK'
    BY <2>5, EndKeepsEnds
  <2>6. ASSUME NEW s \in Session, SpawnChild(s) PROVE EndsOK'
    BY <1>0, <2>1, <2>6, KeepEnds DEF SpawnChild, Loaded, store, marks, ours, history
  <2>7. ASSUME NEW f \in Flusher,
               StartTimer(f) \/ TryQueue(f) \/ TakeLock(f) \/ Unqueue(f) \/ Unlock(f)
        PROVE  EndsOK'
    BY <1>0, <2>1, <2>7, KeepEnds DEF StartTimer, TryQueue, TakeLock, Unqueue, Unlock, Goto, Loaded,
       store, marks, ours, history
  <2>8. ASSUME NEW f \in Flusher, Load(f) PROVE EndsOK'
    BY <2>8, LoadKeepsEnds
  <2>9. ASSUME NEW f \in Flusher, Post(f) \/ PostFails(f) PROVE EndsOK'
    BY <1>0, <2>1, <2>9, KeepEnds DEF Post, PostFails, Takes, Goto, Loaded, store, marks, ours, history
  <2>10. ASSUME NEW f \in Flusher, AdvanceCalls(f) PROVE EndsOK'
    BY <1>0, <2>1, <2>10, KeepEnds DEF AdvanceCalls, Goto, Loaded, store, ours, history
  <2>11. ASSUME NEW f \in Flusher, AdvanceMark(f) PROVE EndsOK'
    BY <2>11, MarkKeepsEnds
  <2>12. ASSUME NEW f \in Flusher, AdvanceTail(f) PROVE EndsOK'
    BY <2>12, TailKeepsEnds DEF AdvanceTail, Goto
  <2>13. ASSUME NEW f \in Flusher, StoreFails(f) \/ FlushDies(f) PROVE EndsOK'
    <3>1. CASE pc[f] = "tail"
      BY <2>13, <3>1, TailKeepsEnds
    <3>2. CASE pc[f] # "tail"
      <4>1. torn => torn'
        BY <2>13 DEF StoreFails, FlushDies
      <4>. QED
        BY <1>0, <2>1, <2>13, <3>2, <4>1, KeepEnds DEF StoreFails, FlushDies, Loaded, store, marks, ours
    <3>. QED
      BY <3>1, <3>2
  <2>. QED
    BY <2>3, <2>4, <2>5, <2>6, <2>7, <2>8, <2>9, <2>10, <2>11, <2>12, <2>13 DEF Next, Hook, Flush
<1>. QED
  BY <1>1, <1>2

LEMMA EndsSafe ==
  ASSUME TypeInv, EndsOK
  PROVE  SessionsNotSkipped
<1>. SUFFICES ASSUME ~torn, \A f \in Flusher : pc[f] # "tail", NEW s \in Session, Behind(s)
              PROVE  <<ended[s], s>> \in sent
  BY DEF SessionsNotSkipped
<1>1. OldOK /\ \E L \in SUBSET Session : Prefix(L, stail, smark)
  BY DEF EndsOK, TailOK
<1>2. stail \in Nat /\ smark \in Nat /\ ended[s] \in Nat
  BY DEF TypeInv, FlushesOK, TablesOK
<1>3. CASE ended[s] \in 1..(smark - 1)
  BY <1>1, <1>2, <1>3 DEF OldOK
<1>4. CASE ended[s] = smark /\ smark > 0 /\ Place(s) <= stail
  BY <1>1, <1>2, <1>4, PrefixPlaces DEF Prefix
<1>. QED
  BY <1>3, <1>4 DEF Behind

(* While sessions end in the order of (ended_at, id), no session is skipped *)
(* by the watermark, whatever the batch cuts, whichever sessions share a    *)
(* second, and whichever faults happen outside advance_sessions.            *)
THEOREM NoSessionSkipped ==
  ASSUME InOrder
  PROVE  Spec => []SessionsNotSkipped
<1>1. Init => TypeInv /\ LocksOK /\ EndsOK
  BY InitTypeInv, InitLocks, InitEnds
<1>2. (TypeInv /\ LocksOK /\ EndsOK) /\ [Next]_vars => (TypeInv /\ LocksOK /\ EndsOK)'
  BY NextTypeInv, NextLocks, NextEnds
<1>3. TypeInv /\ LocksOK /\ EndsOK => SessionsNotSkipped
  BY EndsSafe
<1>. QED
  BY <1>1, <1>2, <1>3, PTL DEF Spec
-----------------------------------------------------------------------------
(* Without mishaps nothing is posted twice: what was sent is behind the     *)
(* watermark, or in the batch that is about to move it.                     *)
Advancing(f) == pc[f] \in {"calls", "mark", "tail"}
Covers(s, k, sec) ==
  ended[s] \in 1..(sec - 1) \/ (ended[s] = sec /\ sec > 0 /\ Place(s) <= k)

CallsOnce ==
  \A c \in sentCalls : c <= cmark \/ \E f \in Flusher : pc[f] = "calls" /\ c \in load[f].calls

EndsOnce ==
  /\ \A e \in sent : e[1] > 0 /\ ended[e[2]] = e[1]
  /\ (\A f \in Flusher : ~Advancing(f)) => \A e \in sent : Covers(e[2], stail, smark)
  /\ \A f \in Flusher : Advancing(f) =>
       \A e \in sent : e \in load[f].ends \/ Covers(e[2], load[f].stail, load[f].smark)

OnceOK ==
  /\ mishaps \in Nat /\ ~twice
  /\ mishaps = 0 => ~torn /\ CallsOnce /\ EndsOnce

LEMMA InitOnce == Init => OnceOK
<1>. SUFFICES ASSUME Init PROVE OnceOK
  OBVIOUS
<1>1. plan.past \in SUBSET Session
  BY PlansType DEF Init
<1>2. /\ mishaps = 0 /\ ~twice /\ ~torn /\ sentCalls = {}
      /\ \A f \in Flusher : ~Advancing(f)
      /\ \A e \in sent : e[1] = 1 /\ e[2] \in plan.past /\ ended[e[2]] = 1
      /\ plan.past # {} => smark = 1
      /\ stail = Cardinality(plan.past)
  BY <1>1 DEF Init, Advancing
<1>3. ASSUME NEW e \in sent PROVE Covers(e[2], stail, smark)
  <2>1. smark = 1 /\ e[2] \in Session /\ ended[e[2]] = 1 /\ e[2] \in plan.past
    BY <1>1, <1>2
  <2>2. Prefix(plan.past, stail, 1)
    BY <1>1 DEF Prefix, Init
  <2>3. stail \in Nat
    BY <1>1, <1>2, SomeSessions
  <2>4. Place(e[2]) <= stail
    BY <2>1, <2>2, <2>3, PrefixPlaces
  <2>. QED
    BY <2>1, <2>4 DEF Covers
<1>. QED
  BY <1>2, <1>3 DEF OnceOK, CallsOnce, EndsOnce

(* What a flush has loaded was not sent before.                             *)
LEMMA LoadIsFresh ==
  ASSUME TypeInv, LocksOK, CallsOK, EndsOK, OnceOK, mishaps = 0,
         NEW f \in Flusher, pc[f] = "post"
  PROVE  load[f].ends \cap sent = {} /\ load[f].calls \cap sentCalls = {}
<1>1. ~torn /\ CallsOnce /\ EndsOnce /\ FlushOK(f)
  BY DEF OnceOK, EndsOK, Loaded
<1>2. \A g \in Flusher : ~Advancing(g)
  BY Others DEF Advancing, Running, Loaded
<1>3. PICK L \in SUBSET Session : Chunk(L, load[f])
  BY <1>1 DEF FlushOK
<1>4. /\ stail = load[f].stail /\ smark = load[f].smark /\ stail \in Nat /\ smark \in Nat
      /\ load[f].ends \subseteq Nat \X Session
      /\ load[f].calls \subseteq Nat /\ sentCalls \subseteq Nat /\ cmark \in Nat
  BY <1>1 DEF FlushOK, TypeInv, TablesOK, FlushesOK, WideLoads
<1>5. ASSUME NEW e \in load[f].ends PROVE e \notin sent
  <2>1. /\ e[2] \in Session /\ e[1] \in Nat /\ e[2] \notin L
        /\ ended[e[2]] = e[1] /\ e[1] >= smark
    BY <1>3, <1>4 DEF Chunk
  <2>2. e[1] = smark => ~(Place(e[2]) <= stail)
    BY <1>3, <1>4, <2>1, PrefixPlaces DEF Chunk
  <2>3. ~Covers(e[2], stail, smark)
    BY <1>4, <2>1, <2>2 DEF Covers
  <2>. QED
    BY <1>1, <1>2, <2>3 DEF EndsOnce
<1>6. ASSUME NEW c \in load[f].calls PROVE c \notin sentCalls
  <2>1. c > cmark /\ c \in Nat
    BY <1>4 DEF CallsOK
  <2>. QED
    BY <1>1, <1>2, <1>4, <2>1 DEF CallsOnce, Advancing
<1>. QED
  BY <1>5, <1>6

(* A mishap puts no row in twice, and after it nothing is claimed.          *)
LEMMA MishapsOnce ==
  ASSUME OnceOK, Mishap, twice' = twice
  PROVE  OnceOK'
  BY DEF OnceOK, Mishap

LEMMA KeepOnce ==
  ASSUME OnceOK,
         UNCHANGED <<ended, smark, stail, cmark, sent, sentCalls, twice, torn, mishaps>>,
         \A f \in Flusher : \/ ~Advancing(f) /\ ~Advancing(f)'
                            \/ pc'[f] = pc[f] /\ load'[f] = load[f]
  PROVE  OnceOK'
<1>1. \A f \in Flusher : Advancing(f)' <=> Advancing(f)
  BY DEF Advancing
<1>2. \A f \in Flusher : Advancing(f) => pc'[f] = pc[f] /\ load'[f] = load[f]
  OBVIOUS
<1>3. \A s, k, sec : Covers(s, k, sec)' <=> Covers(s, k, sec)
  BY DEF Covers, Place
<1>4. CallsOnce => CallsOnce'
  BY <1>2 DEF CallsOnce, Advancing
<1>5. EndsOnce => EndsOnce'
  BY <1>1, <1>2, <1>3 DEF EndsOnce
<1>. QED
  BY <1>4, <1>5 DEF OnceOK

(* A session that ends has not been sent, and pushes none that was sent     *)
(* past the tail.                                                           *)
LEMMA EndKeepsOnce ==
  ASSUME TypeInv, OnceOK, InOrder, NEW s \in Session, EndSession(s)
  PROVE  OnceOK'
<1>1. /\ Session \subseteq Nat /\ ended \in [Session -> Nat] /\ stamp \in [Session -> Nat]
      /\ sent \subseteq Nat \X Session
      /\ UNCHANGED <<smark, stail, cmark, sent, sentCalls, twice, torn, mishaps, pc, load>>
  BY OtelAssumption DEF TypeInv, TablesOK, EndSession, marks, ours, history
<1>2. ASSUME NEW r \in Session, ended[r] > 0 PROVE ended'[r] = ended[r] /\ Place(r)' = Place(r)
  <2>1. /\ r # s /\ ended'[r] = ended[r] /\ ended[s] = 0 /\ ended'[s] = stamp[s]
        /\ \A q \in Session \ {s} : ended'[q] = ended[q]
    BY <1>2, EndsLast
  <2>2. ended[r] < stamp[s] \/ (ended[r] = stamp[s] /\ r < s)
    BY EndsLast
  <2>3. ~(ended'[s] = ended'[r] /\ s <= r)
    BY <1>1, <2>1, <2>2
  <2>4. ~(ended[s] = ended[r])
    BY <1>2, <2>1
  <2>5. {q \in Session : ended'[q] = ended'[r] /\ q <= r} = {q \in Session : ended[q] = ended[r] /\ q <= r}
    BY <2>1, <2>3, <2>4
  <2>. QED
    BY <2>1, <2>5 DEF Place
<1>3. ASSUME EndsOnce PROVE EndsOnce'
  <2>1. \A e \in sent : e[2] \in Session /\ ended[e[2]] > 0
    BY <1>1, <1>3 DEF EndsOnce
  <2>2. \A e \in sent : ended'[e[2]] = ended[e[2]]
    BY <1>2, <2>1
  <2>3. ASSUME NEW e \in sent, NEW k, NEW sec, Covers(e[2], k, sec) PROVE Covers(e[2], k, sec)'
    BY <1>2, <2>1, <2>3 DEF Covers
  <2>. QED
    BY <1>1, <1>3, <2>2, <2>3 DEF EndsOnce, Advancing
<1>4. CallsOnce => CallsOnce'
  BY <1>1 DEF CallsOnce
<1>. QED
  BY <1>1, <1>3, <1>4 DEF OnceOK

(* The steps of a flush that send or move a watermark, in the absence of    *)
(* mishaps so far.                                                          *)
LEMMA PostOnce ==
  ASSUME TypeInv, LocksOK, CallsOK, EndsOK, OnceOK, NEW f \in Flusher, Post(f)
  PROVE  OnceOK'
<1>0. /\ pc \in [Flusher -> FlushSteps] /\ pc[f] = "post"
      /\ UNCHANGED <<ended, smark, stail, cmark, torn, mishaps, load>>
      /\ pc'[f] = (IF load[f].calls # {} THEN "calls" ELSE "mark")
      /\ \A g \in Flusher \ {f} : pc'[g] = pc[g]
      /\ sent' = sent \cup load[f].ends /\ sentCalls' = sentCalls \cup load[f].calls
      /\ mishaps # 0 => ~twice'
  BY DEF Post, Takes, Goto, TypeInv, FlushesOK, OnceOK, store, marks, history
<1>1. CASE mishaps # 0
  BY <1>0, <1>1 DEF OnceOK
<1>2. CASE mishaps = 0
  <2>1. ~torn /\ CallsOnce /\ EndsOnce /\ FlushOK(f)
    BY <1>0, <1>2 DEF OnceOK, EndsOK, Loaded
  <2>2. ~twice'
    BY <1>2, <1>0, LoadIsFresh DEF Post, Takes, OnceOK
  <2>3. /\ \A g \in Flusher : ~Advancing(g)
        /\ \A g \in Flusher \ {f} : ~Advancing(g)'
    BY <1>0, Others DEF Advancing, Running, Loaded
  <2>4. CallsOnce'
    BY <1>0, <2>1, <2>3 DEF CallsOnce, Advancing
  <2>5. \A e \in load[f].ends : e[1] > 0 /\ ended[e[2]] = e[1]
    BY <2>1 DEF FlushOK, Chunk
  <2>6. stail = load[f].stail /\ smark = load[f].smark
    BY <1>0, <2>1 DEF FlushOK
  <2>7. \A s, k, sec : Covers(s, k, sec)' <=> Covers(s, k, sec)
    BY <1>0 DEF Covers, Place
  <2>8. Advancing(f)'
    BY <1>0 DEF Advancing
  <2>9. EndsOnce'
    <3>1. \A e \in sent' : e[1] > 0 /\ ended'[e[2]] = e[1]
      BY <1>0, <2>1, <2>5 DEF EndsOnce
    <3>2. \A e \in sent' : e \in load[f].ends \/ Covers(e[2], stail, smark)
      BY <1>0, <2>1, <2>3 DEF EndsOnce
    <3>3. \A e \in sent' : (e \in load[f].ends \/ Covers(e[2], load[f].stail, load[f].smark))'
      BY <1>0, <2>6, <2>7, <3>2
    <3>. QED
      BY <2>3, <2>8, <3>1, <3>3 DEF EndsOnce
  <2>. QED
    BY <1>0, <1>2, <2>1, <2>2, <2>4, <2>9 DEF OnceOK
<1>. QED
  BY <1>1, <1>2

LEMMA PostFailsOnce ==
  ASSUME TypeInv, LocksOK, CallsOK, EndsOK, OnceOK, NEW f \in Flusher, PostFails(f)
  PROVE  OnceOK'
<1>1. pc[f] = "post" /\ Mishap
  BY DEF PostFails, Goto
<1>2. mishaps = 0 => load[f].ends \cap sent = {} /\ load[f].calls \cap sentCalls = {}
  BY <1>1, LoadIsFresh
<1>3. ~twice'
  BY <1>2 DEF PostFails, Takes, OnceOK, ours
<1>. QED
  BY <1>1, <1>3 DEF OnceOK, Mishap

LEMMA CallsMarkOnce ==
  ASSUME TypeInv, LocksOK, CallsOK, EndsOK, OnceOK, NEW f \in Flusher, AdvanceCalls(f)
  PROVE  OnceOK'
<1>0. /\ pc \in [Flusher -> FlushSteps] /\ load \in [Flusher -> WideLoads] /\ pc[f] = "calls"
      /\ UNCHANGED <<ended, smark, stail, torn, mishaps, sent, sentCalls, twice>>
      /\ pc'[f] = (IF load[f].ends # {} THEN "mark" ELSE "unlock")
      /\ load[f].ends # {} => load' = load
      /\ \A g \in Flusher \ {f} : pc'[g] = pc[g] /\ load'[g] = load[g]
      /\ cmark' = Max(load[f].calls)
  BY DEF AdvanceCalls, Goto, TypeInv, FlushesOK, store, ours, history
<1>1. CASE mishaps # 0
  BY <1>0, <1>1 DEF OnceOK
<1>2. CASE mishaps = 0
  <2>1. ~torn /\ CallsOnce /\ EndsOnce /\ FlushOK(f)
    BY <1>0, <1>2 DEF OnceOK, EndsOK, Loaded
  <2>2. \A g \in Flusher \ {f} : ~Advancing(g) /\ ~Advancing(g)'
    BY <1>0, Others DEF Advancing, Running, Loaded
  <2>3. CallsOnce'
    <3>1. load[f].calls # {} /\ load[f].calls \subseteq Nat /\ cmark \in Nat /\ sentCalls \subseteq Nat
      BY <1>0 DEF TypeInv, LoadsOK, TablesOK, FlushesOK, WideLoads
    <3>2. cmark' \in load[f].calls /\ \A c \in load[f].calls : c <= cmark'
      BY <1>0, <3>1, LastCallFacts
    <3>3. cmark' > cmark /\ cmark' \in Nat
      BY <1>0, <3>1, <3>2 DEF CallsOK
    <3>4. ASSUME NEW c \in sentCalls PROVE c <= cmark \/ c \in load[f].calls
      BY <1>0, <2>1, <2>2 DEF CallsOnce, Advancing
    <3>5. \A c \in sentCalls : c <= cmark'
      BY <3>1, <3>2, <3>3, <3>4
    <3>. QED
      BY <1>0, <3>5 DEF CallsOnce
  <2>4. stail = load[f].stail /\ smark = load[f].smark
    BY <1>0, <2>1 DEF FlushOK
  <2>5. \A s, k, sec : Covers(s, k, sec)' <=> Covers(s, k, sec)
    BY <1>0 DEF Covers, Place
  <2>6. EndsOnce'
    <3>1. \A e \in sent : e \in load[f].ends \/ Covers(e[2], stail, smark)
      BY <1>0, <2>1, <2>4 DEF EndsOnce, Advancing
    <3>2. CASE load[f].ends # {}
      BY <1>0, <2>1, <2>2, <2>4, <2>5, <3>1, <3>2 DEF EndsOnce, Advancing
    <3>3. CASE load[f].ends = {}
      BY <1>0, <2>1, <2>2, <2>5, <3>1, <3>3 DEF EndsOnce, Advancing
    <3>. QED
      BY <3>2, <3>3
  <2>. QED
    BY <1>0, <1>2, <2>1, <2>3, <2>6 DEF OnceOK
<1>. QED
  BY <1>1, <1>2

LEMMA SessionsMarkOnce ==
  ASSUME TypeInv, LocksOK, EndsOK, OnceOK, NEW f \in Flusher, AdvanceMark(f)
  PROVE  OnceOK'
<1>0. /\ pc \in [Flusher -> FlushSteps] /\ pc[f] = "mark" /\ pc'[f] = "tail"
      /\ UNCHANGED <<ended, stail, cmark, torn, mishaps, sent, sentCalls, twice, load>>
      /\ \A g \in Flusher \ {f} : pc'[g] = pc[g]
  BY DEF AdvanceMark, Goto, TypeInv, FlushesOK, store, ours, history
<1>1. \A g \in Flusher : Advancing(g)' <=> Advancing(g)
  BY <1>0 DEF Advancing
<1>2. \A s, k, sec : Covers(s, k, sec)' <=> Covers(s, k, sec)
  BY <1>0 DEF Covers, Place
<1>3. CallsOnce => CallsOnce'
  BY <1>0 DEF CallsOnce
<1>4. EndsOnce => EndsOnce'
  <2>1. Advancing(f)
    BY <1>0 DEF Advancing
  <2>. QED
    BY <1>0, <1>1, <1>2, <2>1 DEF EndsOnce
<1>. QED
  BY <1>0, <1>3, <1>4 DEF OnceOK

(* The new tail reaches all of the batch in its last second, and what the   *)
(* old one reached.                                                         *)
LEMMA TailOnce ==
  ASSUME TypeInv, LocksOK, EndsOK, OnceOK, NEW f \in Flusher, AdvanceTail(f)
  PROVE  OnceOK'
<1>0. /\ pc \in [Flusher -> FlushSteps] /\ pc[f] = "tail" /\ pc'[f] = "unlock"
      /\ UNCHANGED <<ended, smark, cmark, torn, mishaps, sent, sentCalls, twice>>
      /\ \A g \in Flusher \ {f} : pc'[g] = pc[g] /\ load'[g] = load[g]
      /\ stail' = NewTail(load[f])
  BY DEF AdvanceTail, Goto, TypeInv, FlushesOK, store, ours, history
<1>1. CASE mishaps # 0
  BY <1>0, <1>1 DEF OnceOK
<1>2. CASE mishaps = 0
  <2>1. ~torn /\ CallsOnce /\ EndsOnce /\ FlushOK(f) /\ load[f].ends # {}
    BY <1>0, <1>2 DEF OnceOK, EndsOK, Loaded, TypeInv, LoadsOK
  <2>2. \A g \in Flusher : ~Advancing(g)'
    BY <1>0, Others DEF Advancing, Running, Loaded
  <2>3. CallsOnce'
    BY <1>0, <2>1 DEF CallsOnce
  <2>4. PICK L \in SUBSET Session : /\ Prefix(L, stail', smark)
                                    /\ \A r \in Session : <<smark, r>> \in load[f].ends => r \in L
    BY <1>0, <2>1, NewPrefix
  <2>5. /\ smark = LastSec(load[f]) /\ smark \in Nat /\ stail' \in Nat
        /\ ended \in [Session -> Nat] /\ sent \subseteq Nat \X Session
        /\ load[f].smark \in Nat /\ load[f].stail \in Nat
    <3>1. stail' \in Nat
      BY <2>4, SomeSessions DEF Prefix
    <3>. QED
      BY <1>0, <2>1, <3>1 DEF FlushOK, TypeInv, TablesOK, FlushesOK, WideLoads
  <2>6. smark >= load[f].smark
    BY <2>1, <2>5, LastSecFacts DEF FlushOK, Chunk
  <2>7. ASSUME NEW e \in sent PROVE Covers(e[2], stail', smark)
    <3>0. /\ e = <<e[1], e[2]>> /\ e[2] \in Session /\ e[1] \in Nat
          /\ e[1] > 0 /\ ended[e[2]] = e[1]
      BY <2>1, <2>5 DEF EndsOnce
    <3>1. CASE e \in load[f].ends
      <4>1. e[1] <= smark
        BY <2>1, <2>5, <3>1, LastSecFacts
      <4>2. e[1] = smark => Place(e[2]) <= stail'
        <5>1. SUFFICES ASSUME e[1] = smark PROVE Place(e[2]) <= stail'
          OBVIOUS
        <5>2. e[2] \in L
          BY <2>4, <3>0, <3>1, <5>1
        <5>. QED
          BY <2>4, <2>5, <3>0, <5>1, <5>2, PrefixPlaces
      <4>. QED
        BY <2>5, <3>0, <4>1, <4>2 DEF Covers
    <3>2. CASE Covers(e[2], load[f].stail, load[f].smark)
      <4>1. CASE e[1] < smark
        BY <2>5, <3>0, <4>1 DEF Covers
      <4>2. CASE ~(e[1] < smark)
        <5>1. e[1] = smark /\ smark = load[f].smark /\ Place(e[2]) <= load[f].stail
          BY <2>5, <2>6, <3>0, <3>2, <4>2 DEF Covers
        <5>2. AtLast(load[f]) \in Nat
          BY EndsFinite DEF AtLast
        <5>3. stail' = AtLast(load[f]) + load[f].stail
          BY <1>0, <2>5, <5>1 DEF NewTail
        <5>4. Place(e[2]) \in Nat
          BY SomeSessions DEF Place
        <5>. QED
          BY <2>5, <3>0, <5>1, <5>2, <5>3, <5>4 DEF Covers
      <4>. QED
        BY <4>1, <4>2
    <3>. QED
      BY <1>0, <2>1, <3>1, <3>2 DEF EndsOnce, Advancing
  <2>8. EndsOnce'
    <3>1. \A e \in sent' : Covers(e[2], stail, smark)'
      BY <1>0, <2>7 DEF Covers, Place
    <3>. QED
      BY <1>0, <2>1, <2>2, <3>1 DEF EndsOnce
  <2>. QED
    BY <1>0, <1>2, <2>1, <2>3, <2>8 DEF OnceOK
<1>. QED
  BY <1>1, <1>2

LEMMA NextOnce ==
  ASSUME InOrder, TypeInv, LocksOK, CallsOK, EndsOK, OnceOK, [Next]_vars
  PROVE  OnceOK'
<1>0. /\ pc \in [Flusher -> FlushSteps] /\ load \in [Flusher -> WideLoads]
      /\ plan.spawn \subseteq Flusher
  BY PlansType, Apart DEF TypeInv, FlushesOK, TablesOK
<1>1. ASSUME UNCHANGED <<ended, marks, ours, history, pc, load>> PROVE OnceOK'
  BY <1>0, <1>1, KeepOnce DEF marks, ours, history
<1>2. CASE Tick \/ RecordCall \/ (\E c \in 1..rows : SetCallMs(c) \/ Age(c)) \/ UNCHANGED vars
  BY <1>1, <1>2 DEF Tick, RecordCall, SetCallMs, Age, vars, store
<1>3. ASSUME NEW s \in Session, Stamp(s) \/ Probe(s) \/ Unprobe(s)
      PROVE  OnceOK'
  BY <1>1, <1>3 DEF Stamp, Probe, Unprobe, store
<1>4. ASSUME NEW s \in Session, EndSession(s) PROVE OnceOK'
  BY <1>4, EndKeepsOnce
<1>5. ASSUME NEW s \in Session, SpawnChild(s) PROVE OnceOK'
  BY <1>0, <1>5, KeepOnce DEF SpawnChild, Advancing, store, marks, ours, history
<1>6. ASSUME NEW f \in Flusher,
             StartTimer(f) \/ TryQueue(f) \/ TakeLock(f) \/ Unqueue(f) \/ Unlock(f)
      PROVE  OnceOK'
  BY <1>0, <1>6, KeepOnce DEF StartTimer, TryQueue, TakeLock, Unqueue, Unlock, Goto, Advancing,
     store, marks, ours, history
<1>7. ASSUME NEW f \in Flusher, Load(f) PROVE OnceOK'
  BY <1>0, <1>7, KeepOnce DEF Load, Read, Goto, Advancing, store, marks, ours, history
<1>8. ASSUME NEW f \in Flusher, Post(f) PROVE OnceOK'
  BY <1>8, PostOnce
<1>9. ASSUME NEW f \in Flusher, PostFails(f) PROVE OnceOK'
  BY <1>9, PostFailsOnce
<1>10. ASSUME NEW f \in Flusher, AdvanceCalls(f) \/ AdvanceMark(f) \/ AdvanceTail(f) PROVE OnceOK'
  BY <1>10, CallsMarkOnce, SessionsMarkOnce, TailOnce
<1>11. CASE \/ \E s \in Session : EndSessionFails(s) \/ HookDies(s)
            \/ \E f \in Flusher : StoreFails(f) \/ FlushDies(f)
  BY <1>11, MishapsOnce DEF EndSessionFails, HookDies, StoreFails, FlushDies, ours
<1>. QED
  BY <1>2, <1>3, <1>4, <1>5, <1>6, <1>7, <1>8, <1>9, <1>10, <1>11 DEF Next, Hook, Flush

(* Until the first mishap no end of a session and no call is posted twice,  *)
(* however the flushes of hooks and timers come together, wherever a batch  *)
(* is cut and whichever sessions end while it is on its way.                *)
THEOREM NothingPostedTwice ==
  ASSUME InOrder
  PROVE  Spec => []PostedOnce
<1>1. Init => TypeInv /\ LocksOK /\ CallsOK /\ EndsOK /\ OnceOK
  BY InitTypeInv, InitLocks, InitCalls, InitEnds, InitOnce
<1>2. (TypeInv /\ LocksOK /\ CallsOK /\ EndsOK /\ OnceOK) /\ [Next]_vars
        => (TypeInv /\ LocksOK /\ CallsOK /\ EndsOK /\ OnceOK)'
  BY NextTypeInv, NextLocks, NextCalls, NextEnds, NextOnce
<1>3. OnceOK => PostedOnce
  BY DEF OnceOK, PostedOnce
<1>. QED
  BY <1>1, <1>2, <1>3, PTL DEF Spec

-----------------------------------------------------------------------------
(* The type invariant.                                                      *)

LEMMA LoadedLastSec ==
  ASSUME NEW l, NEW b \in Nat, l.ends \subseteq Nat \X Session, l.ends # {},
         \A e \in l.ends : e[1] <= b
  PROVE  /\ LastSec(l) \in Nat
         /\ \E e \in l.ends : e[1] = LastSec(l)
<1>. DEFINE S == {e[1] : e \in l.ends}
<1>1. S \in SUBSET Nat /\ S # {} /\ \A x \in S : x <= b
  OBVIOUS
<1>2. Max(S) \in S
  BY <1>1, MaxOfBounded
<1>. QED
  BY <1>1, <1>2 DEF LastSec

(* The tail never counts more sessions than there are: those of the mark's  *)
(* second that are loaded come after as many as it counts already.          *)
LEMMA TailFits ==
  ASSUME TypeInv, NEW l, l.smark = smark, l.stail = stail, stail <= Cardinality(Session),
         l.ends = {<<ended[s], s>> : s \in Oldest(Pending)}, l.ends # {}
  PROVE  NewTail(l) <= Cardinality(Session)
<1>. DEFINE sec == LastSec(l)
            T == {r \in Session : <<sec, r>> \in l.ends}
            n == Cardinality(Session)
<1>1. /\ ended \in [Session -> Nat] /\ clock \in Nat /\ smark \in Nat /\ stail \in Nat
      /\ \A s \in Session : ended[s] <= clock
      /\ Session \subseteq Nat
  BY OtelAssumption DEF TypeInv, TablesOK, TimesOK, FlushesOK
<1>2. Oldest(Pending) \subseteq Pending /\ Pending \subseteq Session
  BY DEF Oldest, Pending
<1>3. l.ends \subseteq Nat \X Session /\ \A e \in l.ends : e[1] <= clock
  <2>1. \A s \in Oldest(Pending) : s \in Session /\ ended[s] \in Nat /\ ended[s] <= clock
    BY <1>1, <1>2
  <2>. QED
    BY <2>1
<1>4. sec \in Nat /\ \E e \in l.ends : e[1] = sec
  BY <1>1, <1>3, LoadedLastSec
<1>5. AtLast(l) = Cardinality(T)
  BY <1>3, LoadedAtLast
<1>6. NewTail(l) = Cardinality(T) + IF sec > smark THEN 0 ELSE stail
  BY <1>5 DEF NewTail
<1>. HIDE DEF sec
<1>7. \A r \in T : r \in Pending /\ ended[r] = sec
  BY <1>2
<1>8. T # {}
  BY <1>4, <1>2
<1>9. /\ IsFiniteSet(T) /\ Cardinality(T) \in Nat /\ IsFiniteSet(Session) /\ n \in Nat
      /\ Cardinality(T) <= n
  BY SomeSessions, FS_Subset, OtelAssumption
<1>10. CASE sec > smark
  BY <1>6, <1>9, <1>10
<1>11. CASE ~(sec > smark)
  <2>1. PICK m \in T : \A r \in T : m <= r
    <3>1. T \in SUBSET Nat
      BY <1>1
    <3>. QED
      BY <3>1, <1>8, LeastNatural
  <2>2. ended[m] = sec /\ sec # 0 /\ ~Behind(m) /\ m \in Session
    BY <1>7 DEF Pending
  <2>3. sec = smark /\ ~(Place(m) <= stail)
    BY <1>1, <1>4, <1>11, <2>2 DEF Behind
  <2>. DEFINE D == {r \in Session : ended[r] = sec /\ r < m}
  <2>4. Place(m) = Cardinality(D \cup {m})
    <3>1. ASSUME NEW r \in Session PROVE r <= m <=> r < m \/ r = m
      <4>1. r \in Nat /\ m \in Nat
        BY <1>1, <2>2
      <4>. QED
        BY <4>1
    <3>2. {r \in Session : ended[r] = ended[m] /\ r <= m} = D \cup {m}
      BY <2>2, <3>1
    <3>. QED
      BY <3>2 DEF Place
  <2>5. IsFiniteSet(D) /\ Cardinality(D) \in Nat /\ D \subseteq Session /\ m \notin D
    <3>1. m \notin D
      BY <1>1, <2>2
    <3>. QED
      BY <3>1, SomeSessions
  <2>6. D \cap T = {}
    <3>1. ASSUME NEW r \in T PROVE ~(r < m)
      <4>1. r \in Nat /\ m \in Nat /\ m <= r
        BY <1>1, <2>1, <2>2
      <4>. QED
        BY <4>1
    <3>. QED
      BY <3>1
  <2>. HIDE DEF D, T
  <2>7. Cardinality(D \cup {m}) = Cardinality(D) + 1
    BY <2>5, FS_AddElement
  <2>8. stail <= Cardinality(D)
    BY <1>1, <2>3, <2>4, <2>5, <2>7
  <2>9. Cardinality(D \cup T) = Cardinality(D) + Cardinality(T)
    <3>1. Cardinality(D \cap T) = 0
      BY <2>6, FS_EmptySet
    <3>2. Cardinality(D \cup T) = Cardinality(D) + Cardinality(T) - Cardinality(D \cap T)
      BY <1>9, <2>5, FS_Union
    <3>. QED
      BY <1>9, <2>5, <3>1, <3>2
  <2>10. Cardinality(D \cup T) <= n
    <3>1. (D \cup T) \in SUBSET Session
      BY <2>5 DEF T
    <3>. QED
      BY <1>9, <3>1, FS_Subset
  <2>. HIDE DEF n
  <2>11. NewTail(l) = Cardinality(T) + stail
    BY <1>6, <1>11
  <2>. QED
    BY <1>1, <1>9, <2>5, <2>8, <2>9, <2>10, <2>11 DEF n
<1>. QED
  BY <1>10, <1>11

(* What the type invariant says beyond that: what is counted stays within   *)
(* what there is.                                                           *)
TailsOK ==
  /\ stail <= Cardinality(Session)
  /\ \A f \in Flusher : load[f].ends # {} => NewTail(load[f]) <= Cardinality(Session)

SecondsOK ==
  /\ clock \in 1..MaxSec /\ smark <= clock /\ sent \subseteq Ends
  /\ \A f \in Flusher : load[f].smark <= clock /\ load[f].ends \subseteq Ends

CallRowsOK ==
  /\ rows <= plan.calls /\ finished \subseteq 1..rows /\ aged \subseteq 1..rows
  /\ sentCalls \subseteq 1..rows

FlagsOK == twice \in BOOLEAN /\ torn \in BOOLEAN /\ mishaps \in 0..MaxMishaps

BoundsOK == TailsOK /\ SecondsOK /\ CallRowsOK /\ FlagsOK

LEMMA InitBounds == Init => BoundsOK
<1>. SUFFICES ASSUME Init PROVE BoundsOK
  OBVIOUS
<1>1. plan \in Plans /\ plan.past \subseteq Session /\ plan.calls \in Nat
      /\ MaxSec \in Nat /\ MaxSec >= 1 /\ MaxMishaps \in Nat
  BY PlansType, OtelAssumption DEF Init
<1>2. Cardinality(plan.past) <= Cardinality(Session)
  BY <1>1, OtelAssumption, FS_Subset
<1>3. TailsOK
  BY <1>2 DEF Init, TailsOK, Empty
<1>4. SecondsOK
  BY <1>1 DEF Init, SecondsOK, Empty, Ends, Sec
<1>5. CallRowsOK
  BY <1>1 DEF Init, CallRowsOK
<1>6. FlagsOK
  <2>1. twice = FALSE /\ torn = FALSE /\ mishaps = 0
    BY DEF Init
  <2>2. 0 \in 0..MaxMishaps
    BY <1>1
  <2>. QED
    BY <2>1, <2>2 DEF FlagsOK
<1>. QED
  BY <1>3, <1>4, <1>5, <1>6 DEF BoundsOK

LEMMA MishapCounts ==
  ASSUME FlagsOK, Mishap
  PROVE  mishaps' \in 0..MaxMishaps
<1>1. MaxMishaps \in Nat
  BY OtelAssumption
<1>. QED
  BY <1>1 DEF FlagsOK, Mishap

(* The environment and the hooks.                                           *)
LEMMA WorldBounds ==
  ASSUME TypeInv, BoundsOK,
         \/ Tick \/ RecordCall
         \/ \E c \in 1..rows : SetCallMs(c) \/ Age(c)
         \/ \E s \in Session : \/ Stamp(s) \/ Hook(s) \/ EndSessionFails(s) \/ HookDies(s)
  PROVE  BoundsOK'
<1>1. UNCHANGED <<plan, smark, stail, load, sent, sentCalls, twice, torn>>
  BY DEF Tick, RecordCall, SetCallMs, Age, Stamp, Hook, EndSession, Probe, Unprobe, SpawnChild,
         EndSessionFails, HookDies, marks, ours, history
<1>2. /\ TailsOK /\ SecondsOK /\ CallRowsOK /\ FlagsOK
      /\ clock \in Nat /\ rows \in Nat /\ plan.calls \in Nat /\ MaxSec \in Nat
      /\ smark \in Nat /\ \A f \in Flusher : load[f].smark \in Nat
  BY OtelAssumption DEF BoundsOK, TypeInv, TablesOK, FlushesOK, WideLoads
<1>3. TailsOK'
  BY <1>1, <1>2 DEF TailsOK, NewTail, AtLast, LastSec
<1>4. clock' = clock \/ (clock < MaxSec /\ clock' = clock + 1)
  BY DEF Tick, RecordCall, SetCallMs, Age, Stamp, Hook, EndSession, Probe, Unprobe, SpawnChild,
         EndSessionFails, HookDies
<1>5. SecondsOK'
  BY <1>1, <1>2, <1>4 DEF SecondsOK
<1>6. \/ UNCHANGED <<rows, finished, aged>>
      \/ rows < plan.calls /\ rows' = rows + 1 /\ UNCHANGED <<finished, aged>>
      \/ UNCHANGED rows /\ \E c \in 1..rows : finished' \subseteq finished \cup {c}
                                              /\ aged' \subseteq aged \cup {c}
  BY DEF Tick, RecordCall, SetCallMs, Age, Stamp, Hook, EndSession, Probe, Unprobe, SpawnChild,
         EndSessionFails, HookDies, store
<1>7. CallRowsOK'
  BY <1>1, <1>2, <1>6 DEF CallRowsOK
<1>8. mishaps' = mishaps \/ Mishap
  BY DEF Tick, RecordCall, SetCallMs, Age, Stamp, Hook, EndSession, Probe, Unprobe, SpawnChild,
         EndSessionFails, HookDies, history
<1>9. FlagsOK'
  BY <1>1, <1>2, <1>8, MishapCounts DEF FlagsOK
<1>. QED
  BY <1>3, <1>5, <1>7, <1>9 DEF BoundsOK

(* The flushes.                                                             *)
LEMMA FlushBounds ==
  ASSUME TypeInv, BoundsOK, NEW f \in Flusher,
         StartTimer(f) \/ Flush(f) \/ PostFails(f) \/ StoreFails(f) \/ FlushDies(f)
  PROVE  BoundsOK'
<1>1. /\ TailsOK /\ SecondsOK /\ CallRowsOK /\ FlagsOK
      /\ clock \in Nat /\ rows \in Nat
      /\ smark \in Nat /\ stail \in Nat /\ load \in [Flusher -> WideLoads]
      /\ \A g \in Flusher : load[g].calls \subseteq 1..rows
  BY DEF BoundsOK, TypeInv, TablesOK, FlushesOK, LoadsOK
<1>2. UNCHANGED <<plan, clock, ended, rows, finished, aged>>
  BY DEF StartTimer, Flush, TryQueue, TakeLock, Unqueue, Load, Post, AdvanceCalls, AdvanceMark,
         AdvanceTail, Unlock, PostFails, StoreFails, FlushDies, store
<1>3. mishaps' \in 0..MaxMishaps
  <2>1. mishaps' = mishaps \/ Mishap
    BY DEF StartTimer, Flush, TryQueue, TakeLock, Unqueue, Load, Post, AdvanceCalls, AdvanceMark,
           AdvanceTail, Unlock, PostFails, StoreFails, FlushDies, history
  <2>. QED
    BY <1>1, <2>1, MishapCounts DEF FlagsOK
<1>4. twice' \in BOOLEAN
  <2>1. twice' = twice \/ Takes(load[f])
    BY DEF StartTimer, Flush, TryQueue, TakeLock, Unqueue, Load, Post, AdvanceCalls, AdvanceMark,
           AdvanceTail, Unlock, PostFails, StoreFails, FlushDies, ours
  <2>. QED
    BY <1>1, <2>1 DEF FlagsOK, Takes
<1>5. torn' \in BOOLEAN
  <2>1. torn' = torn \/ torn' = (torn \/ Tears(f))
    BY DEF StartTimer, Flush, TryQueue, TakeLock, Unqueue, Load, Post, AdvanceCalls, AdvanceMark,
           AdvanceTail, Unlock, PostFails, StoreFails, FlushDies, history
  <2>. QED
    BY <1>1, <2>1 DEF FlagsOK
<1>6. FlagsOK'
  BY <1>3, <1>4, <1>5 DEF FlagsOK
<1>7. sent' \subseteq sent \cup load[f].ends /\ sentCalls' \subseteq sentCalls \cup load[f].calls
  BY DEF StartTimer, Flush, TryQueue, TakeLock, Unqueue, Load, Post, AdvanceCalls, AdvanceMark,
         AdvanceTail, Unlock, PostFails, StoreFails, FlushDies, Takes, ours
<1>8. CallRowsOK'
  BY <1>1, <1>2, <1>7 DEF CallRowsOK
<1>9. sent' \subseteq Ends
  BY <1>1, <1>7 DEF SecondsOK
<1>10. CASE load' = load \/ load' = [load EXCEPT ![f] = Empty]
  <2>1. \A g \in Flusher : load'[g] = load[g] \/ load'[g] = Empty
    BY <1>1, <1>10
  <2>2. smark' <= clock /\ stail' <= Cardinality(Session)
    <3>1. CASE UNCHANGED <<smark, stail>>
      BY <1>1, <3>1 DEF TailsOK, SecondsOK
    <3>2. CASE AdvanceMark(f)
      <4>1. load[f].ends # {} /\ smark' = LastSec(load[f]) /\ UNCHANGED stail
        BY <3>2 DEF AdvanceMark, Goto, TypeInv, LoadsOK
      <4>2. \A e \in load[f].ends : e[1] <= clock
        BY DEF TypeInv, TimesOK
      <4>. QED
        BY <1>1, <4>1, <4>2, LastSecFacts DEF TailsOK
    <3>3. CASE AdvanceTail(f)
      <4>1. load[f].ends # {} /\ stail' = NewTail(load[f]) /\ UNCHANGED smark
        BY <3>3 DEF AdvanceTail, Goto, TypeInv, LoadsOK
      <4>. QED
        BY <1>1, <4>1 DEF TailsOK, SecondsOK
    <3>. QED
      BY <3>1, <3>2, <3>3 DEF StartTimer, Flush, TryQueue, TakeLock, Unqueue, Load, Post,
         AdvanceCalls, PostFails, StoreFails, FlushDies, Unlock, marks
  <2>3. Empty.ends = {} /\ Empty.smark = 0
    BY DEF Empty
  <2>4. TailsOK'
    BY <1>1, <2>1, <2>2, <2>3 DEF TailsOK, NewTail, AtLast, LastSec
  <2>5. SecondsOK'
    BY <1>1, <1>2, <1>9, <2>1, <2>2, <2>3 DEF SecondsOK
  <2>. QED
    BY <1>6, <1>8, <2>4, <2>5 DEF BoundsOK
<1>11. CASE Load(f) /\ load' # load
  <2>. DEFINE got == [ends  |-> {<<ended[s], s>> : s \in Oldest(Pending)},
                      calls |-> CallsAfter, smark |-> smark, stail |-> stail]
  <2>1. load' = [load EXCEPT ![f] = got] /\ UNCHANGED <<smark, stail>>
    BY <1>11 DEF Load, Read, marks
  <2>2. got.ends \subseteq Ends
    <3>1. ASSUME NEW s \in Oldest(Pending) PROVE s \in Session /\ ended[s] \in Sec
      BY <1>1, OtelAssumption
         DEF Oldest, Pending, TypeInv, TablesOK, TimesOK, SecondsOK, Sec
    <3>. QED
      BY <3>1 DEF Ends
  <2>3. got.ends # {} => NewTail(got) <= Cardinality(Session)
    BY <1>1, TailFits DEF TailsOK
  <2>4. got.smark = smark
    OBVIOUS
  <2>. HIDE DEF got
  <2>5. \A g \in Flusher : load'[g] = load[g] \/ load'[g] = got
    BY <1>1, <2>1
  <2>6. TailsOK'
    BY <1>1, <2>1, <2>3, <2>5 DEF TailsOK, NewTail, AtLast, LastSec
  <2>7. SecondsOK'
    BY <1>1, <1>2, <1>9, <2>1, <2>2, <2>4, <2>5 DEF SecondsOK
  <2>. QED
    BY <1>6, <1>8, <2>6, <2>7 DEF BoundsOK
<1>. QED
  BY <1>10, <1>11 DEF StartTimer, Flush, TryQueue, TakeLock, Unqueue, Load, Post, AdvanceCalls,
     AdvanceMark, AdvanceTail, Unlock, PostFails, StoreFails, FlushDies

LEMMA NextBounds == TypeInv /\ BoundsOK /\ [Next]_vars => BoundsOK'
<1>. SUFFICES ASSUME TypeInv, BoundsOK, [Next]_vars PROVE BoundsOK'
  OBVIOUS
<1>1. CASE UNCHANGED vars
  BY <1>1 DEF vars, BoundsOK, TailsOK, NewTail, AtLast, LastSec, SecondsOK, CallRowsOK, FlagsOK,
              store, marks, ours, history
<1>2. CASE Next
  BY <1>2, WorldBounds, FlushBounds DEF Next
<1>. QED
  BY <1>1, <1>2

LEMMA BoundsGiveTypes == TypeInv /\ BoundsOK /\ CallsNotSkipped => TypeOK
<1>. SUFFICES ASSUME TypeInv, BoundsOK, CallsNotSkipped PROVE TypeOK
  OBVIOUS
<1>1. TablesOK /\ TimesOK /\ FlushesOK /\ LoadsOK /\ TailsOK /\ SecondsOK /\ CallRowsOK /\ FlagsOK
  BY DEF TypeInv, BoundsOK
<1>2. MaxSec \in Nat /\ clock \in Nat /\ clock <= MaxSec
  BY <1>1, OtelAssumption DEF TablesOK, SecondsOK
<1>3. ended \in [Session -> 0..MaxSec] /\ stamp \in [Session -> 0..MaxSec]
  BY <1>1, <1>2 DEF TablesOK, TimesOK
<1>4. smark \in 0..MaxSec /\ stail \in 0..Cardinality(Session)
  <2>1. Cardinality(Session) \in Nat
    BY SomeSessions
  <2>. QED
    BY <1>1, <1>2, <2>1 DEF FlushesOK, SecondsOK, TailsOK
<1>5. cmark \in 0..rows
  <2>1. cmark \in Nat /\ rows \in Nat /\ 1..cmark \subseteq 1..rows
    BY <1>1 DEF FlushesOK, TablesOK, CallRowsOK, CallsNotSkipped
  <2>2. cmark = 0 \/ cmark \in 1..cmark
    BY <2>1
  <2>. QED
    BY <2>1, <2>2
<1>6. load \in [Flusher -> Loads]
  <2>1. load \in [Flusher -> WideLoads]
    BY <1>1 DEF FlushesOK
  <2>2. ASSUME NEW f \in Flusher PROVE load[f] \in Loads
    <3>1. load[f] \in WideLoads /\ load[f].smark \in 0..MaxSec /\ load[f].ends \subseteq Ends
          /\ load[f].calls \subseteq 1..rows
      BY <1>1, <1>2, <2>1 DEF SecondsOK, LoadsOK, WideLoads
    <3>. QED
      BY <3>1 DEF WideLoads, Loads
  <2>. QED
    BY <2>1, <2>2
<1>7. clock \in Sec
  BY <1>1 DEF SecondsOK, Sec
<1>8. rows \in 0..plan.calls
  <2>1. plan.calls \in Nat
    BY <1>1, OtelAssumption DEF TablesOK
  <2>. QED
    BY <1>1, <2>1 DEF TablesOK, CallRowsOK
<1>. QED
  BY <1>1, <1>3, <1>4, <1>5, <1>6, <1>7, <1>8
     DEF TypeOK, TablesOK, FlushesOK, SecondsOK, CallRowsOK, FlagsOK

(* The type invariant.  Beyond the types it says that no watermark passes   *)
(* what there is: the mark of the calls a row that was recorded, that of    *)
(* the sessions the clock, and the tail (advance_sessions adds what it sent *)
(* of the mark's second to what it counted before) the sessions there are,  *)
(* whatever is torn, sent twice or ends again.                              *)
THEOREM TypeCorrect == Spec => []TypeOK
<1>1. Init => TypeInv /\ BoundsOK
  BY InitTypeInv, InitBounds
<1>2. (TypeInv /\ BoundsOK) /\ [Next]_vars => (TypeInv /\ BoundsOK)'
  BY NextTypeInv, NextBounds
<1>. QED
  BY <1>1, <1>2, BoundsGiveTypes, NoCallSkipped, PTL DEF Spec

-----------------------------------------------------------------------------
(* An end that is not sent is in somebody's hands.                          *)

(* A hook that has yet to look for a queued flush or to spawn one; a flush  *)
(* that has yet to read; one that has read this end and not posted it.      *)
Spawning(s) == hook[s] \in {"written", "probing", "spawn"}
WillRead(f) == pc[f] \in {"queue", "lock", "unqueue", "load"}
Carries(f, s) == pc[f] = "post" /\ <<ended[s], s>> \in load[f].ends

InHand(s) == \/ <<ended[s], s>> \in sent
             \/ \E r \in Session : Spawning(r)
             \/ \E f \in Flusher : WillRead(f) \/ Carries(f, s)

(* Where the claim ends: with a mishap, or more ends than a batch takes, or *)
(* with no child to spawn.                                                  *)
Scarce == mishaps > 0 \/ plan.spawn = {} \/ plan.batch < Cardinality(plan.ends)
EndsInHand == Scarce \/ \A s \in Session : ended[s] # 0 => InHand(s)

(* Whoever holds the queue lock will read, or spawns one that will.         *)
QueueHeld == \/ queueLock = None
             \/ queueLock \in Session /\ hook[queueLock] = "probing"
             \/ queueLock \in Flusher /\ pc[queueLock] \in {"lock", "unqueue"}

(* Only sessions of the plan end again; the others were sent before.        *)
EndsPlanned ==
  \A s \in Session : /\ ended[s] # 0 /\ s \notin plan.ends => <<ended[s], s>> \in sent
                     /\ hook[s] = "stamped" => s \in plan.ends

HandOK == QueueHeld /\ EndsPlanned /\ EndsInHand

LEMMA InitHand == Init => HandOK
<1>. SUFFICES ASSUME Init PROVE HandOK
  OBVIOUS
<1>1. plan.past \subseteq Session
  BY PlansType DEF Init
<1>2. \A s \in Session : ended[s] # 0 => s \in plan.past /\ ended[s] = 1
  BY <1>1 DEF Init
<1>3. \A s \in Session : ended[s] # 0 => <<ended[s], s>> \in sent
  BY <1>2 DEF Init
<1>4. queueLock = None /\ \A s \in Session : hook[s] # "stamped"
  BY DEF Init
<1>. QED
  BY <1>3, <1>4 DEF HandOK, QueueHeld, EndsPlanned, EndsInHand, InHand

LEMMA NextQueueHeld == TypeInv /\ LocksOK /\ QueueHeld /\ [Next]_vars => QueueHeld'
<1>. SUFFICES ASSUME TypeInv, LocksOK, QueueHeld, [Next]_vars PROVE QueueHeld'
  OBVIOUS
<1>. USE Apart DEF QueueHeld
<1>0. /\ pc \in [Flusher -> FlushSteps] /\ hook \in [Session -> HookSteps]
      /\ plan.spawn \subseteq Flusher
  BY PlansType DEF TypeInv, FlushesOK, TablesOK
<1>1. CASE UNCHANGED <<queueLock, hook, pc>>
  BY <1>1
<1>2. CASE Tick \/ RecordCall \/ (\E c \in 1..rows : SetCallMs(c) \/ Age(c)) \/ UNCHANGED vars
  BY <1>1, <1>2 DEF Tick, RecordCall, SetCallMs, Age, vars, locks
<1>3. ASSUME NEW s \in Session, Stamp(s) \/ EndSession(s) \/ EndSessionFails(s) PROVE QueueHeld'
  BY <1>0, <1>3 DEF Stamp, EndSession, EndSessionFails, HookAt, locks
<1>4. ASSUME NEW s \in Session, Probe(s) PROVE QueueHeld'
  BY <1>0, <1>4 DEF Probe, HookAt
<1>5. ASSUME NEW s \in Session, Unprobe(s) \/ HookDies(s) PROVE QueueHeld'
  BY <1>0, <1>5 DEF Unprobe, HookDies, HookAt
<1>6. ASSUME NEW s \in Session, SpawnChild(s) PROVE QueueHeld'
  BY <1>0, <1>6 DEF SpawnChild, HookAt, locks
<1>7. ASSUME NEW f \in Flusher, StartTimer(f) PROVE QueueHeld'
  BY <1>0, <1>7 DEF StartTimer, Goto, locks
<1>8. ASSUME NEW f \in Flusher, TryQueue(f) PROVE QueueHeld'
  BY <1>0, <1>8 DEF TryQueue, Goto
<1>9. ASSUME NEW f \in Flusher, TakeLock(f) PROVE QueueHeld'
  BY <1>0, <1>9 DEF TakeLock, Goto
<1>10. ASSUME NEW f \in Flusher, Unqueue(f) \/ FlushDies(f) PROVE QueueHeld'
  BY <1>0, <1>10 DEF Unqueue, FlushDies, Goto
<1>11. ASSUME NEW f \in Flusher, Load(f) \/ Post(f) \/ PostFails(f) PROVE QueueHeld'
  BY <1>0, <1>11 DEF Load, Read, Post, PostFails, Goto, locks
<1>12. ASSUME NEW f \in Flusher, AdvanceCalls(f) \/ AdvanceMark(f) \/ AdvanceTail(f) \/ Unlock(f)
       PROVE  QueueHeld'
  BY <1>0, <1>12 DEF AdvanceCalls, AdvanceMark, AdvanceTail, Unlock, Goto, locks
<1>13. ASSUME NEW f \in Flusher, StoreFails(f) PROVE QueueHeld'
  BY <1>0, <1>13 DEF StoreFails, locks
<1>. QED
  BY <1>2, <1>3, <1>4, <1>5, <1>6, <1>7, <1>8, <1>9, <1>10, <1>11, <1>12, <1>13
     DEF Next, Hook, Flush

LEMMA NextPlanned == TypeInv /\ EndsPlanned /\ [Next]_vars => EndsPlanned'
<1>. SUFFICES ASSUME TypeInv, EndsPlanned, [Next]_vars PROVE EndsPlanned'
  OBVIOUS
<1>. USE DEF EndsPlanned
<1>0. hook \in [Session -> HookSteps] /\ ended \in [Session -> Nat]
  BY DEF TypeInv, TablesOK
<1>1. plan' = plan /\ sent \subseteq sent'
  BY DEF Next, vars, Tick, RecordCall, SetCallMs, Age, Stamp, Hook, EndSession, Probe, Unprobe,
     SpawnChild, EndSessionFails, HookDies, StartTimer, Flush, TryQueue, TakeLock, Unqueue, Load,
     Post, AdvanceCalls, AdvanceMark, AdvanceTail, Unlock, PostFails, StoreFails, FlushDies,
     Takes, ours
<1>2. ASSUME NEW s \in Session, EndSession(s) PROVE EndsPlanned'
  <2>1. ended' = [ended EXCEPT ![s] = stamp[s]] /\ s \in plan.ends
        /\ hook' = [hook EXCEPT ![s] = "written"]
    BY <1>2 DEF EndSession, HookAt
  <2>. QED
    BY <1>0, <1>1, <2>1
<1>3. ASSUME NEW s \in Session, Stamp(s) PROVE EndsPlanned'
  <2>1. UNCHANGED ended /\ s \in plan.ends /\ hook' = [hook EXCEPT ![s] = "stamped"]
    BY <1>3 DEF Stamp, HookAt, store
  <2>. QED
    BY <1>0, <1>1, <2>1
<1>4. ASSUME UNCHANGED ended, \A s \in Session : hook'[s] = "stamped" => hook[s] = "stamped"
      PROVE  EndsPlanned'
  BY <1>1, <1>4
<1>5. ASSUME NEW s \in Session,
             Probe(s) \/ Unprobe(s) \/ SpawnChild(s) \/ EndSessionFails(s) \/ HookDies(s)
      PROVE  EndsPlanned'
  BY <1>0, <1>4, <1>5 DEF Probe, Unprobe, SpawnChild, EndSessionFails, HookDies, HookAt, store
<1>6. CASE Tick \/ RecordCall \/ (\E c \in 1..rows : SetCallMs(c) \/ Age(c)) \/ UNCHANGED vars
  BY <1>4, <1>6 DEF Tick, RecordCall, SetCallMs, Age, vars, store
<1>7. ASSUME NEW f \in Flusher,
             StartTimer(f) \/ Flush(f) \/ PostFails(f) \/ StoreFails(f) \/ FlushDies(f)
      PROVE  EndsPlanned'
  BY <1>4, <1>7 DEF StartTimer, Flush, TryQueue, TakeLock, Unqueue, Load, Post, AdvanceCalls,
     AdvanceMark, AdvanceTail, Unlock, PostFails, StoreFails, FlushDies, store
<1>. QED
  BY <1>2, <1>3, <1>5, <1>6, <1>7 DEF Next, Hook

(* A load that is not cut takes all ends that were not sent.                *)
LEMMA LoadTakesAll ==
  ASSUME TypeInv, LocksOK, EndsOK, OnceOK, EndsPlanned, mishaps = 0, ~Scarce,
         NEW f \in Flusher, Load(f),
         NEW s \in Session, ended[s] # 0, <<ended[s], s>> \notin sent
  PROVE  pc'[f] = "post" /\ <<ended[s], s>> \in load'[f].ends
<1>0. /\ ended \in [Session -> Nat] /\ pc \in [Flusher -> FlushSteps]
      /\ load \in [Flusher -> WideLoads] /\ plan.batch \in Nat
  BY PlansType DEF TypeInv, TablesOK, FlushesOK
<1>1. pc[f] = "load" /\ \A g \in Flusher : ~Advancing(g)
  BY DEF Load, Read, Goto, LocksOK, Running, Advancing
<1>2. ~torn /\ EndsOnce
  BY DEF OnceOK
<1>3. SessionsNotSkipped
  BY EndsSafe
<1>4. s \in Pending
  <2>1. ~Behind(s)
    BY <1>1, <1>2, <1>3 DEF SessionsNotSkipped, Advancing
  <2>. QED
    BY <2>1 DEF Pending
<1>5. Pending \subseteq plan.ends
  <2>1. SUFFICES ASSUME NEW r \in Pending, r \notin plan.ends PROVE FALSE
    OBVIOUS
  <2>2. r \in Session /\ ended[r] # 0 /\ ~Behind(r)
    BY <2>1 DEF Pending
  <2>3. <<ended[r], r>> \in sent
    BY <2>1, <2>2 DEF EndsPlanned
  <2>4. Covers(r, stail, smark)
    BY <1>1, <1>2, <2>3 DEF EndsOnce
  <2>. QED
    BY <2>2, <2>4 DEF Covers, Behind
<1>6. /\ IsFiniteSet(Pending) /\ Cardinality(Pending) \in Nat /\ Cardinality(Pending) <= plan.batch
      /\ Pending \subseteq Session
  <2>1. plan.ends \subseteq Session /\ IsFiniteSet(plan.ends)
    BY OtelAssumption, FS_Subset DEF TypeInv, TablesOK
  <2>2. /\ IsFiniteSet(Pending) /\ Cardinality(Pending) <= Cardinality(plan.ends)
        /\ Cardinality(Pending) \in Nat /\ Cardinality(plan.ends) \in Nat
    BY <1>5, <2>1, FS_Subset, FS_CardinalityType
  <2>3. Cardinality(plan.ends) <= plan.batch
    BY <1>0, <2>2 DEF Scarce
  <2>. QED
    BY <1>0, <2>2, <2>3 DEF Pending
<1>7. s \in Oldest(Pending)
  <2> DEFINE older == {r \in Pending : Before(r, s)}
  <2>1. s \notin older
    BY <1>0, OtelAssumption DEF Before
  <2>2. /\ older \subseteq Pending \ {s} /\ IsFiniteSet(Pending \ {s})
        /\ Cardinality(Pending \ {s}) = Cardinality(Pending) - 1
    BY <1>4, <1>6, <2>1, FS_RemoveElement
  <2>3. Cardinality(older) <= Cardinality(Pending) - 1 /\ Cardinality(older) \in Nat
    BY <2>2, FS_Subset, FS_CardinalityType
  <2>4. Cardinality(older) < plan.batch
    BY <1>0, <1>6, <2>3
  <2>. QED
    BY <1>4, <2>4 DEF Oldest
<1> DEFINE got == [ends |-> {<<ended[r], r>> : r \in Oldest(Pending)},
                   calls |-> CallsAfter, smark |-> smark, stail |-> stail]
<1>8. <<ended[s], s>> \in got.ends
  BY <1>7
<1>9. Goto(f, "load", "post") /\ load' = [load EXCEPT ![f] = got]
  BY <1>8 DEF Load, Read
<1>. HIDE DEF got
<1>. QED
  BY <1>0, <1>8, <1>9 DEF Goto

LEMMA NextInHand ==
  ASSUME TypeInv, LocksOK, EndsOK, OnceOK, HandOK, [Next]_vars
  PROVE  EndsInHand'
<1>0. /\ pc \in [Flusher -> FlushSteps] /\ hook \in [Session -> HookSteps]
      /\ load \in [Flusher -> WideLoads] /\ ended \in [Session -> Nat]
      /\ plan.spawn \subseteq Flusher /\ mishaps \in Nat
  BY PlansType, Apart DEF TypeInv, FlushesOK, TablesOK, OnceOK
<1>1. plan' = plan /\ sent \subseteq sent' /\ (mishaps' = mishaps \/ mishaps' = mishaps + 1)
  BY <1>0 DEF Next, vars, Tick, RecordCall, SetCallMs, Age, Stamp, Hook, EndSession, Probe, Unprobe,
     SpawnChild, EndSessionFails, HookDies, StartTimer, Flush, TryQueue, TakeLock, Unqueue, Load,
     Post, AdvanceCalls, AdvanceMark, AdvanceTail, Unlock, PostFails, StoreFails, FlushDies,
     Takes, ours, history, Mishap
<1>. SUFFICES ASSUME ~Scarce', NEW s \in Session, ended'[s] # 0 PROVE InHand(s)'
  BY DEF EndsInHand, InHand, Spawning, WillRead, Carries
<1>2. mishaps = 0 /\ mishaps' = 0 /\ ~Scarce /\ plan.spawn # {}
  <2>1. ~(mishaps' > 0) /\ plan.spawn # {} /\ ~(plan.batch < Cardinality(plan.ends))
    BY <1>1 DEF Scarce
  <2>2. mishaps = 0 /\ mishaps' = 0
    BY <1>0, <1>1, <2>1
  <2>. QED
    BY <2>1, <2>2 DEF Scarce
<1>3. ASSUME NEW r \in Session, EndSession(r) PROVE InHand(s)'
  <2>1. hook'[r] = "written"
    BY <1>0, <1>3 DEF EndSession, HookAt
  <2>. QED
    BY <2>1 DEF InHand, Spawning
<1>4. SUFFICES ASSUME UNCHANGED ended, InHand(s) PROVE InHand(s)'
  <2>1. (\E r \in Session : EndSession(r)) \/ UNCHANGED ended
    BY DEF Next, vars, Tick, RecordCall, SetCallMs, Age, Stamp, Hook, Probe, Unprobe,
       SpawnChild, EndSessionFails, HookDies, StartTimer, Flush, TryQueue, TakeLock, Unqueue, Load,
       Post, AdvanceCalls, AdvanceMark, AdvanceTail, Unlock, PostFails, StoreFails, FlushDies, store
  <2>2. UNCHANGED ended => InHand(s)
    BY <1>2 DEF HandOK, EndsInHand
  <2>. QED
    BY <1>3, <1>4, <2>1, <2>2
<1>5. CASE <<ended[s], s>> \in sent
  BY <1>1, <1>4, <1>5 DEF InHand
<1>6. ASSUME \A r \in Session : Spawning(r) => Spawning(r)',
             \A f \in Flusher : (WillRead(f) => WillRead(f)') /\ (Carries(f, s) => Carries(f, s)')
      PROVE  InHand(s)'
  BY <1>1, <1>4, <1>6 DEF InHand
<1>7. CASE Tick \/ RecordCall \/ (\E c \in 1..rows : SetCallMs(c) \/ Age(c)) \/ UNCHANGED vars
  BY <1>6, <1>7 DEF Tick, RecordCall, SetCallMs, Age, vars, store, Spawning, WillRead, Carries
<1>8. ASSUME NEW r \in Session, Stamp(r) \/ Unprobe(r) PROVE InHand(s)'
  BY <1>0, <1>4, <1>6, <1>8 DEF Stamp, Unprobe, HookAt, Spawning, WillRead, Carries
<1>9. ASSUME NEW r \in Session, Probe(r) PROVE InHand(s)'
  <2>1. CASE queueLock = None
    BY <1>0, <1>4, <1>6, <1>9, <2>1 DEF Probe, HookAt, Spawning, WillRead, Carries
  <2>2. CASE queueLock \in Session /\ hook[queueLock] = "probing"
    <3>1. hook'[queueLock] = "probing"
      BY <1>0, <1>9, <2>2, Apart DEF Probe, HookAt
    <3>. QED
      BY <2>2, <3>1 DEF InHand, Spawning
  <2>3. CASE queueLock \in Flusher /\ pc[queueLock] \in {"lock", "unqueue"}
    BY <1>9, <2>3 DEF Probe, InHand, WillRead
  <2>. QED
    BY <2>1, <2>2, <2>3 DEF HandOK, QueueHeld
<1>10. ASSUME NEW r \in Session, SpawnChild(r) PROVE InHand(s)'
  <2>1. PICK f \in plan.spawn : pc[f] = "idle" /\ pc' = [pc EXCEPT ![f] = "queue"]
    BY <1>2, <1>10 DEF SpawnChild
  <2>. QED
    BY <1>0, <2>1 DEF InHand, WillRead
<1>11. ASSUME NEW f \in Flusher, StartTimer(f) \/ TakeLock(f) \/ Unqueue(f) PROVE InHand(s)'
  <2>1. pc'[f] \in {"lock", "unqueue", "load"}
    BY <1>0, <1>11 DEF StartTimer, TakeLock, Unqueue, Goto
  <2>. QED
    BY <2>1 DEF InHand, WillRead
<1>12. ASSUME NEW f \in Flusher, TryQueue(f) PROVE InHand(s)'
  <2>1. CASE queueLock = None
    BY <1>0, <1>12, <2>1 DEF TryQueue, Goto, InHand, WillRead
  <2>2. CASE queueLock \in Session /\ hook[queueLock] = "probing"
    BY <1>12, <2>2 DEF TryQueue, InHand, Spawning
  <2>3. CASE queueLock \in Flusher /\ pc[queueLock] \in {"lock", "unqueue"}
    <3>1. pc'[queueLock] = pc[queueLock]
      BY <1>0, <1>12, <2>3, Apart DEF TryQueue, Goto
    <3>. QED
      BY <2>3, <3>1 DEF InHand, WillRead
  <2>. QED
    BY <2>1, <2>2, <2>3 DEF HandOK, QueueHeld
<1>13. ASSUME NEW f \in Flusher, Load(f) PROVE InHand(s)'
  <2>1. CASE <<ended[s], s>> \in sent
    BY <1>5, <2>1
  <2>2. CASE <<ended[s], s>> \notin sent
    <3>1. pc'[f] = "post" /\ <<ended[s], s>> \in load'[f].ends
      BY <1>2, <1>4, <1>13, <2>2, LoadTakesAll DEF HandOK
    <3>. QED
      BY <1>4, <3>1 DEF InHand, Carries
  <2>. QED
    BY <2>1, <2>2
<1>14. ASSUME NEW f \in Flusher, Post(f) PROVE InHand(s)'
  <2>1. CASE Carries(f, s)
    <3>1. <<ended[s], s>> \in sent'
      BY <1>14, <2>1 DEF Post, Takes, Carries
    <3>. QED
      BY <1>4, <3>1 DEF InHand
  <2>2. CASE ~Carries(f, s)
    <3>1. UNCHANGED <<hook, load>> /\ pc[f] = "post" /\ \A g \in Flusher : g # f => pc'[g] = pc[g]
      BY <1>0, <1>14 DEF Post, Goto
    <3>. QED
      BY <1>4, <1>6, <2>2, <3>1 DEF Spawning, WillRead, Carries
  <2>. QED
    BY <2>1, <2>2
<1>15. ASSUME NEW f \in Flusher,
              AdvanceCalls(f) \/ AdvanceMark(f) \/ AdvanceTail(f) \/ Unlock(f)
       PROVE  InHand(s)'
  <2>1. /\ UNCHANGED hook /\ pc[f] \in {"calls", "mark", "tail", "unlock"}
        /\ \A g \in Flusher : g # f => pc'[g] = pc[g] /\ load'[g] = load[g]
    BY <1>0, <1>15 DEF AdvanceCalls, AdvanceMark, AdvanceTail, Unlock, Goto
  <2>. QED
    BY <1>4, <1>6, <2>1 DEF Spawning, WillRead, Carries
<1>16. CASE \/ \E r \in Session : EndSessionFails(r) \/ HookDies(r)
            \/ \E f \in Flusher : PostFails(f) \/ StoreFails(f) \/ FlushDies(f)
  BY <1>0, <1>2, <1>16 DEF EndSessionFails, HookDies, PostFails, StoreFails, FlushDies, Mishap
<1>. QED
  BY <1>3, <1>7, <1>8, <1>9, <1>10, <1>11, <1>12, <1>13, <1>14, <1>15, <1>16 DEF Next, Hook, Flush

(* What EventuallySent needs beside fairness: while nothing has gone wrong  *)
(* and a batch takes all ends, an end that is not sent is with a hook that  *)
(* is still to look for a queued flush or to spawn one, with a flush that   *)
(* is still to read, or in what one is about to post; so no end waits for a *)
(* timer, although a spawned flush leaves when another is queued.           *)
THEOREM NoEndWaitsForATimer ==
  ASSUME InOrder
  PROVE  Spec => []EndsInHand
<1> DEFINE Inv == TypeInv /\ LocksOK /\ CallsOK /\ EndsOK /\ OnceOK /\ HandOK
<1>1. Init => Inv
  BY InitTypeInv, InitLocks, InitCalls, InitEnds, InitOnce, InitHand
<1>2. Inv /\ [Next]_vars => Inv'
  BY NextTypeInv, NextLocks, NextCalls, NextEnds, NextOnce, NextQueueHeld, NextPlanned, NextInHand
     DEF HandOK
<1>3. Inv => EndsInHand
  BY DEF HandOK
<1>. QED
  BY <1>1, <1>2, <1>3, PTL DEF Spec
=============================================================================
