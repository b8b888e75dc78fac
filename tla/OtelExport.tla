------------------------------ MODULE OtelExport ------------------------------
(***************************************************************************)
(* The export of spans to a collector (src/otel/export.rs): hooks that end *)
(* sessions and spawn flushes, timers that flush, the two lock files that  *)
(* order them, and the watermarks of the calls and sessions that were      *)
(* sent (src/store/otel.rs).  A session is its id, in the order of the     *)
(* ids; time is in seconds, as ended_at is.                                *)
(***************************************************************************)
EXTENDS Naturals, FiniteSets, FiniteSetsExt

CONSTANTS
  Session,   \* numbers, for the order of ids
  Child,     \* flushes spawned by hooks that may be alive at once
  Timer,     \* flushes of `rtok proxy` and `rtok mcp`
  MaxSec,    \* bound: the clock
  Plans,     \* BATCH; sessions of the first second that were sent before;
             \* and bounds: how many calls there will be, which sessions end,
             \* the children that hooks can spawn
  None,
  InOrder,   \* sessions end in the order of (ended_at, id), each of them once
  Faults,    \* "store": a statement fails; "crash": a process dies;
             \* "refused", "lost": what the collector took or its answer
  MaxMishaps \* bound: how many of them

Flusher == Child \cup Timer
Sec == 1..MaxSec

ASSUME OtelAssumption ==
  /\ Session \subseteq Nat /\ IsFiniteSet(Session)
  /\ Child \cap Timer = {} /\ Flusher \cap Session = {}
  /\ None \notin Flusher \cup Session
  /\ MaxSec \in Nat \ {0} /\ MaxMishaps \in Nat
  /\ Plans \subseteq [batch: Nat \ {0}, calls: Nat, past: SUBSET Session, ends: SUBSET Session,
                     spawn: SUBSET Child]
  /\ InOrder \in BOOLEAN
  /\ Faults \subseteq {"store", "crash", "refused", "lost"}

VARIABLES
  plan, clock,
  ended,     \* sessions.ended_at, 0 for NULL
  rows, finished, aged, \* calls: how many; with ms; older than IN_FLIGHT_SECS
  cmark, smark, stail,  \* otel_export: "calls", "sessions", "sessions_tail"
  flushLock, queueLock, \* who holds <db>.otel-flush.lock, ...-queued.lock
  hook, stamp,          \* per session: where its SessionEnd is, the second it read
  pc, load,             \* per flush: where it is, what it has read
  sent, sentCalls,      \* what the collector has: ends of sessions, calls
  twice,     \* history: a post repeated a row, before any mishap
  torn,      \* history: the second mark was not written after the first
  mishaps

store   == <<ended, rows, finished, aged>>
marks   == <<cmark, smark, stail>>
locks   == <<flushLock, queueLock>>
ours    == <<sent, sentCalls, twice>>
history == <<torn, mishaps>>
vars == <<plan, clock, store, marks, locks, hook, stamp, pc, load, ours, history>>

Ends == Sec \X Session
Loads == [ends: SUBSET Ends, calls: SUBSET (1..rows), smark: 0..MaxSec, stail: Nat]
Empty == [ends |-> {}, calls |-> {}, smark |-> 0, stail |-> 0]

HookSteps == {"idle", "stamped", "written", "probing", "spawn"}
FlushSteps == {"idle", "queue", "lock", "unqueue", "load", "post",
               "calls", "mark", "tail", "unlock"}
Running == {f \in Flusher : pc[f] \notin {"idle", "queue", "lock"}}

TypeOK ==
  /\ plan \in Plans /\ clock \in Sec
  /\ ended \in [Session -> 0..MaxSec]
  /\ rows \in 0..plan.calls /\ {finished, aged} \subseteq SUBSET (1..rows)
  /\ cmark \in 0..rows /\ smark \in 0..MaxSec /\ stail \in 0..Cardinality(Session)
  /\ flushLock \in Flusher \cup {None}
  /\ queueLock \in Flusher \cup Session \cup {None}
  /\ hook \in [Session -> HookSteps] /\ stamp \in [Session -> 0..MaxSec]
  /\ pc \in [Flusher -> FlushSteps] /\ load \in [Flusher -> Loads]
  /\ sent \subseteq Ends /\ sentCalls \subseteq 1..rows
  /\ {twice, torn} \subseteq BOOLEAN
  /\ mishaps \in 0..MaxMishaps

Init ==
  /\ plan \in Plans /\ clock = 1
  /\ ended = [s \in Session |-> IF s \in plan.past THEN 1 ELSE 0]
  /\ rows = 0 /\ finished = {} /\ aged = {}
  /\ cmark = 0 /\ smark = (IF plan.past = {} THEN 0 ELSE 1) /\ stail = Cardinality(plan.past)
  /\ flushLock = None /\ queueLock = None
  /\ hook = [s \in Session |-> "idle"] /\ stamp = [s \in Session |-> 0]
  /\ pc = [f \in Flusher |-> "idle"] /\ load = [f \in Flusher |-> Empty]
  /\ sent = {1} \X plan.past /\ sentCalls = {} /\ twice = FALSE
  /\ torn = FALSE /\ mishaps = 0

Mishap == mishaps < MaxMishaps /\ mishaps' = mishaps + 1

-----------------------------------------------------------------------------
(* Time, and the other writers of calls: a row is inserted when the call    *)
(* begins and gets its ms when it ends, unless its process died.            *)
Tick ==
  /\ clock < MaxSec
  /\ clock' = clock + 1
  /\ UNCHANGED <<plan, store, marks, locks, hook, stamp, pc, load, ours, history>>

RecordCall ==
  /\ rows < plan.calls
  /\ rows' = rows + 1
  /\ UNCHANGED <<plan, clock, ended, finished, aged, marks, locks, hook, stamp, pc, load, ours, history>>

SetCallMs(c) ==
  /\ c \notin finished
  /\ finished' = finished \cup {c}
  /\ UNCHANGED <<plan, clock, ended, rows, aged, marks, locks, hook, stamp, pc, load, ours, history>>

Age(c) ==
  /\ c \notin finished \cup aged
  /\ aged' = aged \cup {c}
  /\ UNCHANGED <<plan, clock, ended, rows, finished, marks, locks, hook, stamp, pc, load, ours, history>>

-----------------------------------------------------------------------------
InItsOrder(s) ==
  /\ ended[s] = 0
  /\ \A r \in Session : ended[r] < stamp[s] \/ (ended[r] = stamp[s] /\ r < s)

(* SessionEnd in dispatch: the time is taken, the row is written, then a    *)
(* flush is spawned unless one is queued.  A session that was resumed ends  *)
(* again.                                                                   *)
HookAt(s, at, next) == hook[s] = at /\ hook' = [hook EXCEPT ![s] = next]

Stamp(s) ==
  /\ HookAt(s, "idle", "stamped")
  /\ s \in plan.ends /\ ended[s] < clock
  /\ stamp' = [stamp EXCEPT ![s] = clock]
  /\ UNCHANGED <<plan, clock, store, marks, locks, pc, load, ours, history>>

EndSession(s) ==
  /\ HookAt(s, "stamped", "written")
  /\ InOrder => InItsOrder(s)
  /\ ended' = [ended EXCEPT ![s] = stamp[s]]
  /\ stamp' = [stamp EXCEPT ![s] = 0]
  /\ UNCHANGED <<plan, clock, rows, finished, aged, marks, locks, pc, load, ours, history>>

(* A store locked for too long: the event is handed to a process that will  *)
(* run it again.                                                            *)
EndSessionFails(s) ==
  /\ "store" \in Faults /\ Mishap
  /\ HookAt(s, "stamped", "written")
  /\ stamp' = [stamp EXCEPT ![s] = 0]
  /\ UNCHANGED <<plan, clock, store, marks, locks, pc, load, ours, torn>>

(* queued_lock_held takes the lock to see whether it is free.               *)
Probe(s) ==
  /\ \/ queueLock # None /\ HookAt(s, "written", "idle") /\ UNCHANGED queueLock
     \/ queueLock = None /\ HookAt(s, "written", "probing") /\ queueLock' = s
  /\ UNCHANGED <<plan, clock, store, marks, flushLock, stamp, pc, load, ours, history>>

Unprobe(s) ==
  /\ HookAt(s, "probing", "spawn")
  /\ queueLock' = None
  /\ UNCHANGED <<plan, clock, store, marks, flushLock, stamp, pc, load, ours, history>>

SpawnChild(s) ==
  /\ HookAt(s, "spawn", "idle")
  /\ \/ \E f \in plan.spawn : pc[f] = "idle" /\ pc' = [pc EXCEPT ![f] = "queue"]
     \/ plan.spawn = {} /\ UNCHANGED pc
  /\ UNCHANGED <<plan, clock, store, marks, locks, stamp, load, ours, history>>

HookDies(s) ==
  /\ "crash" \in Faults /\ Mishap
  /\ hook[s] # "idle" /\ hook' = [hook EXCEPT ![s] = "idle"]
  /\ stamp' = [stamp EXCEPT ![s] = 0]
  /\ queueLock' = IF queueLock = s THEN None ELSE queueLock
  /\ UNCHANGED <<plan, clock, store, marks, flushLock, pc, load, ours, torn>>

Hook(s) == EndSession(s) \/ Probe(s) \/ Unprobe(s) \/ SpawnChild(s)

-----------------------------------------------------------------------------
(* flush and flush_coalesced.                                               *)
Goto(f, at, next) == pc[f] = at /\ pc' = [pc EXCEPT ![f] = next]

StartTimer(f) ==
  /\ f \in Timer
  /\ Goto(f, "idle", "lock")
  /\ UNCHANGED <<plan, clock, store, marks, locks, hook, stamp, load, ours, history>>

(* Broken variant: a child leaves whenever a flush runs.                    *)
TryQueueBusy(f) ==
  /\ \/ (queueLock # None \/ flushLock # None) /\ Goto(f, "queue", "idle") /\ UNCHANGED queueLock
     \/ queueLock = None /\ flushLock = None /\ Goto(f, "queue", "lock") /\ queueLock' = f
  /\ UNCHANGED <<plan, clock, store, marks, flushLock, hook, stamp, load, ours, history>>

(* A child that finds the slot taken leaves: the flush that has it has not  *)
(* begun to read.                                                           *)
TryQueue(f) ==
  /\ \/ queueLock # None /\ Goto(f, "queue", "idle") /\ UNCHANGED queueLock
     \/ queueLock = None /\ Goto(f, "queue", "lock") /\ queueLock' = f
  /\ UNCHANGED <<plan, clock, store, marks, flushLock, hook, stamp, load, ours, history>>

(* Broken variant: the lock is tried and its answer not looked at.          *)
TakeLockAtOnce(f) ==
  /\ Goto(f, "lock", IF queueLock = f THEN "unqueue" ELSE "load")
  /\ flushLock' = f
  /\ UNCHANGED <<plan, clock, store, marks, queueLock, hook, stamp, load, ours, history>>

TakeLock(f) ==
  /\ flushLock = None
  /\ Goto(f, "lock", IF queueLock = f THEN "unqueue" ELSE "load")
  /\ flushLock' = f
  /\ UNCHANGED <<plan, clock, store, marks, queueLock, hook, stamp, load, ours, history>>

Unqueue(f) ==
  /\ Goto(f, "unqueue", "load")
  /\ queueLock' = None
  /\ UNCHANGED <<plan, clock, store, marks, flushLock, hook, stamp, load, ours, history>>

(* sessions_pending_export: those after the mark's second, and of that      *)
(* second those whose place in the order of ids is past the tail.           *)
Place(s) == Cardinality({r \in Session : ended[r] = ended[s] /\ r <= s})
Behind(s) == \/ ended[s] \in 1..(smark - 1)
             \/ ended[s] = smark /\ smark > 0 /\ Place(s) <= stail
Pending == {s \in Session : ended[s] # 0 /\ ~Behind(s)}

Before(r, s) == ended[r] < ended[s] \/ (ended[r] = ended[s] /\ r < s)
Oldest(S) == {s \in S : Cardinality({r \in S : Before(r, s)}) < plan.batch}

(* calls_after, cut before the first row that is still running.             *)
InFlight(c) == c \notin finished \cup aged

(* Broken variants: no cut; only the running rows are left out.             *)
CallsAfterAll == cmark + 1 .. Min({cmark + plan.batch, rows})
CallsAfterFiltered == {c \in CallsAfterAll : ~InFlight(c)}

CallsAfter == {c \in cmark + 1 .. Min({cmark + plan.batch, rows}) :
                  \A d \in cmark + 1 .. c : ~InFlight(d)}

Read(f) ==
  LET got == [ends  |-> {<<ended[s], s>> : s \in Oldest(Pending)},
              calls |-> CallsAfter, smark |-> smark, stail |-> stail]
  IN IF got.ends = {} /\ got.calls = {}
     THEN Goto(f, "load", "unlock") /\ UNCHANGED load
     ELSE Goto(f, "load", "post") /\ load' = [load EXCEPT ![f] = got]

Load(f) ==
  /\ Read(f)
  /\ UNCHANGED <<plan, clock, store, marks, locks, hook, stamp, ours, history>>

(* The collector takes the spans.                                           *)
Takes(l) ==
  /\ twice' = (twice \/ (mishaps = 0 /\ (l.ends \cap sent # {} \/ l.calls \cap sentCalls # {})))
  /\ sent' = sent \cup l.ends
  /\ sentCalls' = sentCalls \cup l.calls

Post(f) ==
  /\ Goto(f, "post", IF load[f].calls # {} THEN "calls" ELSE "mark")
  /\ Takes(load[f])
  /\ UNCHANGED <<plan, clock, store, marks, locks, hook, stamp, load, history>>

(* Another status, no connection or no answer in time: the marks stay.      *)
PostFails(f) ==
  /\ Goto(f, "post", "unlock") /\ Mishap
  /\ \/ "refused" \in Faults /\ UNCHANGED ours
     \/ "lost" \in Faults /\ Takes(load[f])
  /\ load' = [load EXCEPT ![f] = Empty]
  /\ UNCHANGED <<plan, clock, store, marks, locks, hook, stamp, torn>>

(* Broken variant: the mark is the next id to send.                         *)
AdvanceCallsNext(f) ==
  /\ Goto(f, "calls", IF load[f].ends # {} THEN "mark" ELSE "unlock")
  /\ cmark' = Max(load[f].calls) + 1
  /\ load' = IF load[f].ends # {} THEN load ELSE [load EXCEPT ![f] = Empty]
  /\ UNCHANGED <<plan, clock, store, smark, stail, locks, hook, stamp, ours, history>>

AdvanceCalls(f) ==
  /\ Goto(f, "calls", IF load[f].ends # {} THEN "mark" ELSE "unlock")
  /\ cmark' = Max(load[f].calls)
  /\ load' = IF load[f].ends # {} THEN load ELSE [load EXCEPT ![f] = Empty]
  /\ UNCHANGED <<plan, clock, store, smark, stail, locks, hook, stamp, ours, history>>

(* advance_sessions.                                                        *)
LastSec(l) == Max({e[1] : e \in l.ends})
AtLast(l) == Cardinality({e \in l.ends : e[1] = LastSec(l)})

AdvanceMark(f) ==
  /\ Goto(f, "mark", "tail")
  /\ smark' = LastSec(load[f])
  /\ UNCHANGED <<plan, clock, store, cmark, stail, locks, hook, stamp, load, ours, history>>

(* Broken variants: the tail goes on counting, starts anew at every post.   *)
NewTailKept(l) == AtLast(l) + l.stail
NewTailReset(l) == AtLast(l)

NewTail(l) == AtLast(l) + IF LastSec(l) > l.smark THEN 0 ELSE l.stail

AdvanceTail(f) ==
  /\ Goto(f, "tail", "unlock")
  /\ stail' = NewTail(load[f])
  /\ load' = [load EXCEPT ![f] = Empty]
  /\ UNCHANGED <<plan, clock, store, cmark, smark, locks, hook, stamp, ours, history>>

Unlock(f) ==
  /\ Goto(f, "unlock", "idle")
  /\ flushLock' = None
  /\ UNCHANGED <<plan, clock, store, marks, queueLock, hook, stamp, load, ours, history>>

(* The old tail counts against the new second.                              *)
Tears(f) == pc[f] = "tail" /\ smark > load[f].smark /\ stail > 0

StoreFails(f) ==
  /\ "store" \in Faults /\ Mishap
  /\ pc[f] \in {"load", "calls", "mark", "tail"}
  /\ pc' = [pc EXCEPT ![f] = "unlock"]
  /\ load' = [load EXCEPT ![f] = Empty]
  /\ torn' = (torn \/ Tears(f))
  /\ UNCHANGED <<plan, clock, store, marks, locks, hook, stamp, ours>>

FlushDies(f) ==
  /\ "crash" \in Faults /\ Mishap
  /\ pc[f] # "idle" /\ pc' = [pc EXCEPT ![f] = "idle"]
  /\ load' = [load EXCEPT ![f] = Empty]
  /\ flushLock' = IF flushLock = f THEN None ELSE flushLock
  /\ queueLock' = IF queueLock = f THEN None ELSE queueLock
  /\ torn' = (torn \/ Tears(f))
  /\ UNCHANGED <<plan, clock, store, marks, hook, stamp, ours>>

Flush(f) ==
  \/ TryQueue(f) \/ TakeLock(f) \/ Unqueue(f) \/ Load(f) \/ Post(f)
  \/ AdvanceCalls(f) \/ AdvanceMark(f) \/ AdvanceTail(f) \/ Unlock(f)

Next ==
  \/ Tick \/ RecordCall
  \/ \E c \in 1..rows : SetCallMs(c) \/ Age(c)
  \/ \E s \in Session : Stamp(s) \/ Hook(s) \/ EndSessionFails(s) \/ HookDies(s)
  \/ \E f \in Flusher : StartTimer(f) \/ Flush(f) \/ PostFails(f) \/ StoreFails(f) \/ FlushDies(f)

(* Hooks and flushes that have begun go on.  No timer need ever fire.       *)
Fairness ==
  /\ \A s \in Session : WF_vars(Hook(s))
  /\ \A f \in Flusher : WF_vars(Flush(f))

Spec == Init /\ [][Next]_vars
FairSpec == Spec /\ Fairness
-----------------------------------------------------------------------------
(* What is behind the session watermark was sent, with the end that it has, *)
(* also where a batch was cut inside a second and where a session ends in   *)
(* the second that the watermark covers; unless the two statements that     *)
(* move the watermark were torn apart.                                      *)
SessionsNotSkipped ==
  torn \/ (\E f \in Flusher : pc[f] = "tail")
       \/ \A s \in Session : Behind(s) => <<ended[s], s>> \in sent

(* A call is passed by the watermark only when it was sent, and sent with   *)
(* its ms or after it cannot be running any more.                           *)
CallsComplete == \A c \in sentCalls : ~InFlight(c)
CallsNotSkipped == 1..cmark \subseteq sentCalls /\ CallsComplete

(* More than that, flushes that overlap, fail and die are one outbox of     *)
(* calls: every post continues the mark of that moment without a gap and    *)
(* with nothing that is still running, and the mark moves over what was     *)
(* posted and never back.                                                   *)
CallsBox == INSTANCE Outbox WITH made <- rows, due <- finished \cup aged,
                                 got <- sentCalls, mark <- cmark
CallsDelivered == CallsBox!Spec

(* Without mishaps every row is posted once, however many flushes overlap.  *)
PostedOnce == ~twice

(* One flush runs at a time, and of those that hooks spawn one waits.       *)
Coalesced ==
  /\ \A f, g \in Running : f = g
  /\ \A f, g \in Child : pc[f] = "lock" /\ pc[g] = "lock" => f = g

(* Without mishaps, a session that ends is sent soon by the flush its hook  *)
(* spawned or by the queued one it relied on, no timer needed.              *)
EventuallySent ==
  []<>(\/ mishaps > 0 \/ plan.batch < Cardinality(plan.ends)
       \/ \A s \in Session : ended[s] # 0 => <<ended[s], s>> \in sent)
=============================================================================
