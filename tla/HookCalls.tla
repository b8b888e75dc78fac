------------------------------- MODULE HookCalls ------------------------------
(***************************************************************************)
(* The hook calls of one agent, and how they push its messages.  A host    *)
(* starts a client (src/bin/rtok-hook.rs) for each event; the client       *)
(* hands the call to the resident (src/hooks/resident.rs), or runs         *)
(* `rtok hook` itself when no resident answers or one refuses.  So a call  *)
(* has two possible executions of dispatch (src/hooks/mod.rs), one by      *)
(* the resident and one of its own, and a client that stops waiting does   *)
(* not stop the resident's.                                                *)
(***************************************************************************)
EXTENDS Messages

CONSTANTS
  Client,    \* clients that may be at work at once: a host runs hooks in parallel
  Budgets,   \* [plugins.inject] budget_tokens to choose from, for each of Lengths
  Others,    \* lengths of what plugins inject beside the messages
  Marker,    \* length of the "dropped:" line
  MaxMishaps \* bound: calls cut short by a timeout, a kill or a resident that
             \* stops, store accesses of calls that fail

Exec == {"resident", "own"} \X Client
R(c) == <<"resident", c>>
O(c) == <<"own", c>>

ASSUME HookCallsAssumption ==
  /\ Client # {}
  /\ Budgets \in [Lengths -> SUBSET Nat] /\ Others \subseteq Nat /\ Marker \in Nat /\ MaxMishaps \in Nat

VARIABLES
  budget,
  up,        \* the resident accepts connections
  client,    \* per client: "idle", "asked" (the resident), "own" (runs rtok hook)
  at, out,   \* per execution: its step, and what it offers and emits
  cwd,       \* the working directory of the resident: whose call set it
  shown,     \* history: messages whose frame, or whose "more" line, the host got
  last, mixed, \* history: the newest frame shown; one came late or again
  rough,     \* history: calls have overlapped or a mark has failed
  lost,      \* history: the output of a call was lost
  mishaps    \* how many

calls == <<client, at, out, cwd, up>>
story == <<shown, last, mixed, rough, lost, mishaps>>
vars  == <<messages, budget, calls, story>>

(* What was offered, and what of it the budgeted path left.                 *)
Outs == [framed: SUBSET Msg, oversized: SUBSET Msg, frames: SUBSET Msg, more: BOOLEAN]
Nothing == [framed |-> {}, oversized |-> {}, frames |-> {}, more |-> FALSE]

Steps == {"none", "sent", "push", "settle", "answer"}

TypeOK ==
  /\ MessagesTypeOK
  /\ budget \in Budgets[length]
  /\ client \in [Client -> {"idle", "asked", "own"}]
  /\ at \in [Exec -> Steps]
  /\ out \in [Exec -> Outs]
  /\ cwd \in Client
  /\ shown \subseteq 1..sent /\ last \in 0..sent
  /\ {up, mixed, rough, lost} \subseteq BOOLEAN
  /\ mishaps \in 0..MaxMishaps

Init ==
  /\ MessagesInit
  /\ budget \in Budgets[length]
  /\ up \in BOOLEAN
  /\ client = [c \in Client |-> "idle"]
  /\ at = [e \in Exec |-> "none"]
  /\ out = [e \in Exec |-> Nothing]
  /\ cwd \in Client
  /\ shown = {} /\ last = 0 /\ mixed = FALSE /\ rough = FALSE /\ lost = FALSE
  /\ mishaps = 0

-----------------------------------------------------------------------------
Busy(c) == client[c] # "idle" \/ at[R(c)] # "none" \/ at[O(c)] # "none"
Running(e) == at[e] \in {"push", "settle", "answer"}

Goto(e, step) == at' = [at EXCEPT ![e] = step]
(* The history is kept as long as a property asks for it.                   *)
Notes(isRough, isLost) ==
  /\ rough' = (rough \/ isRough)
  /\ lost' = (lost \/ isLost)
  /\ shown' = IF lost' THEN {} ELSE shown
  /\ last' = IF rough' THEN 0 ELSE last
  /\ mixed' = (mixed /\ ~rough')

Mishap == mishaps < MaxMishaps /\ mishaps' = mishaps + 1
NoMishap == UNCHANGED mishaps

Ends(e) == /\ at' = [at EXCEPT ![e] = "none"]
           /\ out' = [out EXCEPT ![e] = Nothing]

(* The budgeted path: how much of a push of length t survives beside o of   *)
(* other text.  On a prompt the others come first (inject::apply); after a  *)
(* tool the push leads (cap_budget).                                        *)
Minus(a, b) == IF a < b THEN 0 ELSE a - b

OnPrompt(t, o) == IF o >= budget THEN 0
                  ELSE IF t <= budget THEN t ELSE Minus(budget, o + Marker)
AfterTool(t, o) == IF t + o <= budget THEN t ELSE Minus(budget, Marker)

Emits(p, room) == [framed    |-> p.framed,
                   oversized |-> p.oversized,
                   frames    |-> {m \in p.framed : UpTo(m, p.framed) <= room},
                   more      |-> p.more /\ PushLength(p) <= room]

(* The "more" line is the delivery of the oversized ones.                   *)
Announced(o) == IF o.more THEN o.oversized ELSE {}

(* Broken variants: all that was offered is settled; the line delivers none.*)
SettledOffered(o) == o.framed \cup o.oversized
SettledFrames(o) == o.framed \cap o.frames

Settled(o) == (o.framed \cap o.frames) \cup Announced(o)

-----------------------------------------------------------------------------
(* A host runs a hook.  The client connects, or runs rtok hook.             *)
Call(c) ==
  /\ ~Busy(c)
  /\ \/ up /\ client' = [client EXCEPT ![c] = "asked"] /\ Goto(R(c), "sent")
     \/ client' = [client EXCEPT ![c] = "own"] /\ Goto(O(c), "push")
  /\ Notes(\E d \in Client : Busy(d) \/ inbox # {}, FALSE) /\ NoMishap
  /\ UNCHANGED <<messages, budget, out, cwd, up>>

Falls(c) == client' = [client EXCEPT ![c] = "own"]

(* Broken variant: a call that has run may yet be refused.                  *)
RefuseLate(c) ==
  /\ at[R(c)] \in {"sent", "answer"}
  /\ client[c] = "asked"
  /\ Falls(c)
  /\ at' = [at EXCEPT ![R(c)] = "none", ![O(c)] = "push"]
  /\ out' = [out EXCEPT ![R(c)] = Nothing]
  /\ UNCHANGED <<messages, budget, cwd, up, story>>

(* answer: a client of another environment is refused before anything runs. *)
Refuse(c) ==
  /\ at[R(c)] = "sent"
  /\ IF client[c] = "asked"
     THEN Falls(c) /\ at' = [at EXCEPT ![R(c)] = "none", ![O(c)] = "push"]
     ELSE UNCHANGED client /\ Goto(R(c), "none")
  /\ UNCHANGED <<messages, budget, out, cwd, up, story>>

(* Broken variant: calls do not wait for their turn.                        *)
TakeTurnAtOnce(c) ==
  /\ at[R(c)] = "sent"
  /\ Goto(R(c), "push")
  /\ cwd' = c
  /\ UNCHANGED <<messages, budget, client, out, up, story>>

(* State::run: one call at a time, in its client's directory.               *)
TakeTurn(c) ==
  /\ at[R(c)] = "sent"
  /\ \A d \in Client : ~Running(R(d))
  /\ Goto(R(c), "push")
  /\ cwd' = c
  /\ UNCHANGED <<messages, budget, client, out, up, story>>

-----------------------------------------------------------------------------
(* dispatch, as far as messages go.                                         *)

(* Nothing undelivered; or a locked store or no agent: no push.             *)
Skip(e) ==
  /\ at[e] = "push"
  /\ \/ Undelivered = {} /\ UNCHANGED story
     \/ "store" \in Faults /\ Undelivered # {} /\ Mishap
        /\ UNCHANGED <<shown, last, mixed, rough, lost>>
  /\ Goto(e, "answer")
  /\ UNCHANGED <<messages, budget, client, out, cwd, up>>

(* pending, fit and the budgeted path read the store once and write nothing.*)
Pending(e) ==
  /\ at[e] = "push"
  /\ Undelivered # {}
  /\ LET p == Push(Undelivered)
     IN \E o \in Others : \E room \in {OnPrompt(PushLength(p), o), AfterTool(PushLength(p), o)} :
          out' = [out EXCEPT ![e] = Emits(p, room)]
  /\ Goto(e, "settle")
  /\ UNCHANGED <<messages, budget, client, cwd, up, story>>

(* settle: what reached the output is marked.                               *)
Settle(e) ==
  /\ at[e] = "settle"
  /\ MarkDelivered(Settled(out[e]))
  /\ Goto(e, "answer")
  /\ UNCHANGED <<budget, client, out, cwd, up, story>>

SettleFails(e) ==
  /\ "store" \in Faults
  /\ at[e] = "settle"
  /\ Notes(TRUE, FALSE) /\ Mishap
  /\ Goto(e, "answer")
  /\ UNCHANGED <<messages, budget, client, out, cwd, up>>

-----------------------------------------------------------------------------
(* The output reaches the host.                                             *)
Prints(o) ==
  /\ shown' = IF lost THEN {} ELSE shown \cup o.frames \cup Announced(o)
  /\ last' = IF rough THEN 0 ELSE Max({last} \cup o.frames)
  /\ mixed' = (~rough /\ (mixed \/ \E m \in o.frames : m <= last \/ m \in listed))
  /\ UNCHANGED <<rough, lost, mishaps>>

(* The resident answers; nobody may be reading any more.                    *)
Answer(c) ==
  /\ at[R(c)] = "answer"
  /\ IF client[c] = "asked"
     THEN Prints(out[R(c)]) /\ client' = [client EXCEPT ![c] = "idle"]
     ELSE UNCHANGED <<client, story>>
  /\ Ends(R(c))
  /\ UNCHANGED <<messages, budget, cwd, up>>

OwnAnswer(c) ==
  /\ at[O(c)] = "answer"
  /\ Prints(out[O(c)])
  /\ client' = [client EXCEPT ![c] = "idle"]
  /\ Ends(O(c))
  /\ UNCHANGED <<messages, budget, cwd, up>>

(* fail_open: past its timeout the client prints {} and is done.            *)
Timeout(c) ==
  /\ "timeout" \in Faults
  /\ client[c] = "asked"
  /\ client' = [client EXCEPT ![c] = "idle"]
  /\ Notes(FALSE, TRUE) /\ Mishap
  /\ UNCHANGED <<messages, budget, at, out, cwd, up>>

-----------------------------------------------------------------------------
(* The resident.                                                            *)

(* Its home is gone or a client of another version called: it stops         *)
(* listening, which closes every connection, and the clients run rtok hook. *)
(* Calls that have begun go on to their end, seen by nobody; of those sent, *)
(* some have begun to wait for their turn.                                  *)
Stop ==
  /\ "stop" \in Faults
  /\ up /\ up' = FALSE
  /\ \E begun \in SUBSET {c \in Client : at[R(c)] = "sent"} :
       LET asked == {c \in Client : client[c] = "asked"}
           goes  == begun \cup {c \in Client : Running(R(c))}
       IN /\ client' = [c \in Client |-> IF c \in asked THEN "own" ELSE client[c]]
          /\ at' = [e \in Exec |->
                      IF e[1] = "own" THEN IF e[2] \in asked THEN "push" ELSE at[e]
                      ELSE IF e[2] \in goes THEN at[e] ELSE "none"]
          /\ Notes(goes \cap asked # {}, goes \cap asked # {})
          /\ IF goes \cap asked # {} THEN Mishap ELSE NoMishap
  /\ UNCHANGED <<messages, budget, out, cwd>>

(* serve: one per home, by its lock.                                        *)
Serve ==
  /\ "stop" \in Faults
  /\ ~up /\ \A c \in Client : at[R(c)] = "none"
  /\ up' = TRUE
  /\ UNCHANGED <<messages, budget, client, at, out, cwd, story>>

(* A host kills a hook that it ran itself.                                  *)
Crash(c) ==
  /\ "crash" \in Faults
  /\ at[O(c)] # "none"
  /\ client' = [client EXCEPT ![c] = "idle"]
  /\ Ends(O(c))
  /\ Notes(FALSE, TRUE) /\ Mishap
  /\ UNCHANGED <<messages, budget, cwd, up>>

-----------------------------------------------------------------------------
(* The store's other callers.                                               *)
Reads ==
  /\ InboxLoad
  /\ Notes(\E c \in Client : Busy(c), FALSE) /\ NoMishap
  /\ UNCHANGED <<budget, calls>>

Execution(e) == Skip(e) \/ Pending(e) \/ Settle(e) \/ SettleFails(e)
Resident(c)  == Refuse(c) \/ TakeTurn(c) \/ Answer(c)

Next ==
  \/ (Send \/ InboxMark \/ InboxFails) /\ UNCHANGED <<budget, calls, story>>
  \/ Reads
  \/ \E c \in Client : Call(c) \/ Resident(c) \/ OwnAnswer(c) \/ Timeout(c) \/ Crash(c)
  \/ \E e \in Exec : Execution(e)
  \/ Stop \/ Serve

CallStep(c) == Resident(c) \/ OwnAnswer(c) \/ Execution(R(c)) \/ Execution(O(c))

(* The host goes on calling hooks and some call takes a step; nothing else  *)
(* need ever happen.                                                        *)
Fairness == WF_vars(\E c \in Client : Call(c) \/ CallStep(c))

Spec == Init /\ [][Next]_vars
FairSpec == Spec /\ Fairness
-----------------------------------------------------------------------------
(* The budget is enough for a push beside whatever plugins inject.          *)
Ample == \A o \in Others : o + Cap + MoreLine + Marker <= budget

(* Where a message is, once delivered_at is set.                            *)
OnItsWay(m) ==
  \E c \in Client :
    \/ client[c] = "asked" /\ at[R(c)] = "answer" /\ m \in Settled(out[R(c)])
    \/ at[O(c)] = "answer" /\ m \in Settled(out[O(c)])

(* Unless the output of some call was lost on its way to the host, a        *)
(* message that is marked delivered was in the context of a hook, counted   *)
(* by its "more" line or returned by an inbox call, or is about to be, and  *)
(* this through the resident, refusals and fallbacks alike.                 *)
DeliveredWasShown ==
  ~lost => \A m \in delivered : m \in shown \cup listed \/ OnItsWay(m)

(* Only what an inbox call returned is marked read: what its limit cut off  *)
(* is left for the next call.                                               *)
ReadWasReturned == read \subseteq listed \cap delivered

(* The two marks of a message say what became of it.                        *)
MarksAreTrue == DeliveredWasShown /\ ReadWasReturned

(* With a budget that is ample, while calls do not overlap and marks do not *)
(* fail, the agent sees each message once and in send order, and none that  *)
(* it has read.                                                             *)
InSendOrder == Ample => ~mixed

(* A call that the resident runs finds its own client's directory.          *)
OwnDirectory == \A c \in Client : Running(R(c)) => cwd = c

(* With a budget that is ample, hook events deliver every message, also one *)
(* whose frame is larger than the cap.                                      *)
EventuallyDelivered == []<>(Ample => delivered = 1..sent)
=============================================================================
