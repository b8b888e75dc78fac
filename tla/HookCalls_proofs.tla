-------------------------- MODULE HookCalls_proofs ----------------------------
(* What holds of the marks of messages, of the order in which they are seen  *)
(* and of the resident's directory, for any number of clients, messages and  *)
(* faults, and any budgets and lengths.                                      *)
EXTENDS HookCalls, FiniteSetTheorems, TLAPS

-----------------------------------------------------------------------------
(* The inductive invariant.                                                  *)

\* TypeOK, less the history `last`: its bound is the maximum of a set.
CallsTypeInv ==
  /\ MessagesTypeOK
  /\ client \in [Client -> {"idle", "asked", "own"}]
  /\ at \in [Exec -> Steps]
  /\ out \in [Exec -> Outs]
  /\ cwd \in Client /\ lost \in BOOLEAN
  /\ \A e \in Exec : out[e].framed \cup out[e].oversized \subseteq 1..sent

\* A client that waits for the resident has not begun to run rtok hook.
OneExecution == \A c \in Client : client[c] = "asked" => at[O(c)] = "none"

\* While no output was lost, somebody waits for every call of the resident.
SomebodyWaits == ~lost => \A c \in Client : at[R(c)] # "none" => client[c] = "asked"

CallsIInv == CallsTypeInv /\ OneExecution /\ SomebodyWaits /\ OwnDirectory /\ MarksAreTrue

-----------------------------------------------------------------------------
(* The executions of a call.                                                 *)

LEMMA ExecIs ==
  /\ \A c \in Client : R(c) \in Exec /\ O(c) \in Exec
  /\ \A c, d : R(c) # O(d)
  /\ \A c, d : R(c) = R(d) => c = d
  /\ \A c, d : O(c) = O(d) => c = d
  /\ \A e \in Exec : \E c \in Client : e = R(c) \/ e = O(c)
BY DEF R, O, Exec

LEMMA StopParts ==
  /\ \A c : R(c)[1] = "resident" /\ R(c)[2] = c
  /\ \A c : O(c)[1] = "own" /\ O(c)[2] = c
BY DEF R, O

\* What is marked is what the output holds.
LEMMA SettledIsPrinted == \A o : Settled(o) \subseteq o.frames \cup Announced(o)
BY DEF Settled

LEMMA NothingTyped ==
  /\ Nothing \in Outs
  /\ Nothing.framed \cup Nothing.oversized = {}
BY DEF Nothing, Outs

\* What a push offers is of the rows that it read.
LEMMA EmitsTyped ==
  ASSUME NEW rows \in SUBSET Msg, NEW room
  PROVE  LET o == Emits(Push(rows), room)
         IN o \in Outs /\ o.framed \subseteq rows /\ o.oversized \subseteq rows
<1> DEFINE p == Push(rows)
           o == Emits(p, room)
<1>1. Framed(rows) \subseteq rows /\ Oversized(rows) \subseteq rows
  BY DEF Framed, Oversized
<1>2. p.framed = Framed(rows) /\ p.oversized = Oversized(rows) /\ p.more \in BOOLEAN
  BY DEF Push
<1>3. o.framed = Framed(rows) /\ o.oversized = Oversized(rows)
  BY <1>2 DEF Emits
<1>4. o.frames \subseteq Framed(rows) /\ o.more \in BOOLEAN
  BY <1>2 DEF Emits
<1>5. o = [framed |-> o.framed, oversized |-> o.oversized, frames |-> o.frames, more |-> o.more]
  BY DEF Emits
<1>6. o \in Outs
  BY <1>1, <1>3, <1>4, <1>5 DEF Outs
<1> QED BY <1>1, <1>3, <1>6

-----------------------------------------------------------------------------
(* The store's other callers.                                                *)

\* Histories that a step notes: while nothing is lost, what was shown is kept.
LEMMA NotesKeep ==
  ASSUME CallsTypeInv, NEW r, NEW l \in BOOLEAN, Notes(r, l)
  PROVE  /\ lost' \in BOOLEAN
         /\ ~lost' => ~lost /\ ~l /\ shown' = shown
BY DEF CallsTypeInv, Notes

\* A step that leaves the calls alone, and of the marks makes only true ones.
LEMMA StoreKeeps ==
  ASSUME CallsIInv, MessagesTypeOK', sent <= sent',
         UNCHANGED calls, lost' \in BOOLEAN,
         ~lost' => ~lost /\ shown' = shown,
         listed \subseteq listed',
         delivered' \subseteq delivered \cup listed',
         read' \subseteq listed' \cap delivered'
  PROVE  CallsIInv'
<1>1. sent \in Nat /\ sent' \in Nat
  BY DEF CallsIInv, CallsTypeInv, MessagesTypeOK
<1>2. 1..sent \subseteq 1..sent'
  BY <1>1
<1>3. CallsTypeInv'
  BY <1>2 DEF CallsIInv, CallsTypeInv, calls
<1>4. OneExecution' /\ SomebodyWaits' /\ OwnDirectory'
  BY DEF CallsIInv, OneExecution, SomebodyWaits, OwnDirectory, Running, calls
<1>5. \A m : OnItsWay(m)' <=> OnItsWay(m)
  BY DEF OnItsWay, calls
<1>6. DeliveredWasShown'
  BY <1>5 DEF CallsIInv, MarksAreTrue, DeliveredWasShown
<1>7. ReadWasReturned'
  BY DEF ReadWasReturned
<1> QED BY <1>3, <1>4, <1>6, <1>7 DEF CallsIInv, MarksAreTrue

LEMMA LengthIs ==
  ASSUME MessagesTypeOK
  PROVE  Len(length) \in Nat /\ Len(length) <= Last /\ Last \in Nat /\ 1..sent \subseteq Msg
<1>1. length \in Seq(Nat \ {0}) /\ Len(length) <= Last /\ Last \in Nat
  BY MessagesAssumption DEF MessagesTypeOK
<1>2. Len(length) \in Nat
  BY <1>1
<1> QED BY <1>1, <1>2 DEF MessagesTypeOK, Msg

LEMMA SendKeeps ==
  ASSUME CallsIInv, Send, UNCHANGED <<budget, calls, story>>
  PROVE  CallsIInv'
<1>1. MessagesTypeOK
  BY DEF CallsIInv, CallsTypeInv
<1>2. Len(length) \in Nat
  BY <1>1, LengthIs
<1>3. sent \in Nat /\ sent' = sent + 1 /\ sent' \in 0..Len(length)
  BY <1>1, <1>2 DEF Send, MessagesTypeOK
<1>4. 1..sent \subseteq 1..sent'
  BY <1>3
<1>5. MessagesTypeOK'
  BY <1>1, <1>3, <1>4 DEF Send, MessagesTypeOK
<1>6. read' \subseteq listed' \cap delivered'
  BY DEF Send, CallsIInv, MarksAreTrue, ReadWasReturned
<1> QED BY <1>3, <1>5, <1>6, StoreKeeps DEF Send, story, CallsIInv, CallsTypeInv

LEMMA InboxMarkKeeps ==
  ASSUME CallsIInv, InboxMark, UNCHANGED <<budget, calls, story>>
  PROVE  CallsIInv'
<1>1. MessagesTypeOK'
  BY DEF InboxMark, CallsIInv, CallsTypeInv, MessagesTypeOK
<1>2. read' \subseteq listed' \cap delivered'
  BY DEF InboxMark, CallsIInv, MarksAreTrue, ReadWasReturned
<1>3. sent <= sent'
  BY DEF InboxMark, CallsIInv, CallsTypeInv, MessagesTypeOK
<1> QED BY <1>1, <1>2, <1>3, StoreKeeps DEF InboxMark, story, CallsIInv, CallsTypeInv

LEMMA InboxFailsKeeps ==
  ASSUME CallsIInv, InboxFails, UNCHANGED <<budget, calls, story>>
  PROVE  CallsIInv'
<1>1. MessagesTypeOK' /\ sent <= sent'
  BY DEF InboxFails, CallsIInv, CallsTypeInv, MessagesTypeOK
<1>2. read' \subseteq listed' \cap delivered'
  BY DEF InboxFails, CallsIInv, MarksAreTrue, ReadWasReturned
<1> QED BY <1>1, <1>2, StoreKeeps DEF InboxFails, story, CallsIInv, CallsTypeInv

LEMMA ReadsKeeps ==
  ASSUME CallsIInv, Reads
  PROVE  CallsIInv'
<1>1. inbox' \subseteq 1..sent
  BY DEF Reads, InboxLoad, Oldest, Unread
<1>2. MessagesTypeOK' /\ sent <= sent'
  BY <1>1 DEF Reads, InboxLoad, CallsIInv, CallsTypeInv, MessagesTypeOK
<1>3. read' \subseteq listed' \cap delivered'
  BY DEF Reads, InboxLoad, CallsIInv, MarksAreTrue, ReadWasReturned
<1>4. lost' \in BOOLEAN /\ (~lost' => ~lost /\ shown' = shown)
  BY NotesKeep DEF Reads, CallsIInv
<1> QED BY <1>2, <1>3, <1>4, StoreKeeps DEF Reads, InboxLoad

-----------------------------------------------------------------------------
(* dispatch.                                                                 *)

\* An execution that goes on does so for the same client, in the same directory.
LEMMA GoesOn ==
  ASSUME CallsIInv, NEW e \in Exec, NEW step \in {"settle", "answer"},
         at[e] \in {"push", "settle"}, Goto(e, step), UNCHANGED <<client, cwd>>,
         ~lost' => ~lost
  PROVE  /\ at' \in [Exec -> Steps]
         /\ OneExecution' /\ SomebodyWaits' /\ OwnDirectory'
         /\ \A d \in Exec : at[d] = "answer" => d # e /\ at'[d] = "answer"
<1>1. /\ at' = [at EXCEPT ![e] = step] /\ step \in Steps
      /\ at \in [Exec -> Steps]
  BY DEF Goto, Steps, CallsIInv, CallsTypeInv
<1>2. \A d \in Exec : /\ (at'[d] = "none" <=> at[d] = "none")
                      /\ (at'[d] \in {"push", "settle", "answer"} =>
                            at[d] \in {"push", "settle", "answer"})
                      /\ (at[d] = "answer" => d # e /\ at'[d] = "answer")
  BY <1>1
<1>3. OneExecution'
  BY <1>2, ExecIs DEF CallsIInv, OneExecution
<1>4. SomebodyWaits'
  BY <1>2, ExecIs DEF CallsIInv, SomebodyWaits
<1>5. OwnDirectory'
  BY <1>2, ExecIs DEF CallsIInv, OwnDirectory, Running
<1> QED BY <1>1, <1>2, <1>3, <1>4, <1>5

\* What is on its way stays so while outputs that are ready are left alone.
LEMMA WayKept ==
  ASSUME UNCHANGED client,
         \A d \in Exec : at[d] = "answer" => at'[d] = "answer" /\ out'[d] = out[d],
         NEW m, OnItsWay(m)
  PROVE  OnItsWay(m)'
BY ExecIs DEF OnItsWay

LEMMA SkipKeeps ==
  ASSUME CallsIInv, NEW e \in Exec, Skip(e)
  PROVE  CallsIInv'
<1>1. at[e] = "push" /\ Goto(e, "answer") /\ lost' = lost /\ shown' = shown
      /\ UNCHANGED <<messages, client, out, cwd>>
  BY DEF Skip, story
<1>2. /\ at' \in [Exec -> Steps]
      /\ OneExecution' /\ SomebodyWaits' /\ OwnDirectory'
      /\ \A d \in Exec : at[d] = "answer" => d # e /\ at'[d] = "answer"
  BY <1>1, GoesOn
<1>3. CallsTypeInv'
  BY <1>1, <1>2 DEF CallsIInv, CallsTypeInv, MessagesTypeOK, messages
<1>4. \A m : OnItsWay(m) => OnItsWay(m)'
  BY <1>1, <1>2, WayKept
<1>5. MarksAreTrue'
  BY <1>1, <1>4 DEF CallsIInv, MarksAreTrue, DeliveredWasShown, ReadWasReturned, messages
<1> QED BY <1>2, <1>3, <1>5 DEF CallsIInv

LEMMA SettleFailsKeeps ==
  ASSUME CallsIInv, NEW e \in Exec, SettleFails(e)
  PROVE  CallsIInv'
<1>1. at[e] = "settle" /\ Goto(e, "answer") /\ UNCHANGED <<messages, client, out, cwd>>
  BY DEF SettleFails
<1>2. lost' \in BOOLEAN /\ (~lost' => ~lost /\ shown' = shown)
  BY NotesKeep DEF SettleFails, CallsIInv
<1>3. /\ at' \in [Exec -> Steps]
      /\ OneExecution' /\ SomebodyWaits' /\ OwnDirectory'
      /\ \A d \in Exec : at[d] = "answer" => d # e /\ at'[d] = "answer"
  BY <1>1, <1>2, GoesOn
<1>4. CallsTypeInv'
  BY <1>1, <1>2, <1>3 DEF CallsIInv, CallsTypeInv, MessagesTypeOK, messages
<1>5. \A m : OnItsWay(m) => OnItsWay(m)'
  BY <1>1, <1>3, WayKept
<1>6. MarksAreTrue'
  BY <1>1, <1>2, <1>5 DEF CallsIInv, MarksAreTrue, DeliveredWasShown, ReadWasReturned, messages
<1> QED BY <1>3, <1>4, <1>6 DEF CallsIInv

LEMMA PendingKeeps ==
  ASSUME CallsIInv, NEW e \in Exec, Pending(e)
  PROVE  CallsIInv'
<1>1. at[e] = "push" /\ Goto(e, "settle") /\ lost' = lost /\ shown' = shown
      /\ UNCHANGED <<messages, client, cwd>>
  BY DEF Pending, story
<1>2. /\ at' \in [Exec -> Steps]
      /\ OneExecution' /\ SomebodyWaits' /\ OwnDirectory'
      /\ \A d \in Exec : at[d] = "answer" => d # e /\ at'[d] = "answer"
  BY <1>1, GoesOn
<1>3. Undelivered \subseteq 1..sent /\ Undelivered \in SUBSET Msg
  BY LengthIs DEF Undelivered, CallsIInv, CallsTypeInv
<1>4. PICK room : out' = [out EXCEPT ![e] = Emits(Push(Undelivered), room)]
  BY DEF Pending
<1> DEFINE o == Emits(Push(Undelivered), room)
<1>5. o \in Outs /\ o.framed \cup o.oversized \subseteq 1..sent
  BY <1>3, EmitsTyped
<1> HIDE DEF o
<1>6. out' = [out EXCEPT ![e] = o]
  BY <1>4 DEF o
<1>7. \A d \in Exec : d # e => out'[d] = out[d]
  BY <1>6 DEF CallsIInv, CallsTypeInv
<1>8. out' \in [Exec -> Outs]
  BY <1>5, <1>6 DEF CallsIInv, CallsTypeInv
<1>9. \A d \in Exec : out'[d].framed \cup out'[d].oversized \subseteq 1..sent
  <2>1. out'[e] = o
    BY <1>6 DEF CallsIInv, CallsTypeInv
  <2> QED BY <2>1, <1>5, <1>7 DEF CallsIInv, CallsTypeInv
<1>10. CallsTypeInv'
  BY <1>1, <1>2, <1>8, <1>9 DEF CallsIInv, CallsTypeInv, MessagesTypeOK, messages
<1>11. \A m : OnItsWay(m) => OnItsWay(m)'
  BY <1>1, <1>2, <1>7, WayKept
<1>12. MarksAreTrue'
  BY <1>1, <1>11 DEF CallsIInv, MarksAreTrue, DeliveredWasShown, ReadWasReturned, messages
<1> QED BY <1>2, <1>10, <1>12 DEF CallsIInv

\* What is marked now is what the call is about to answer, to a client that waits for it.
LEMMA SettleKeeps ==
  ASSUME CallsIInv, NEW e \in Exec, Settle(e)
  PROVE  CallsIInv'
<1>1. /\ at[e] = "settle" /\ Goto(e, "answer") /\ lost' = lost /\ shown' = shown
      /\ delivered' = delivered \cup Settled(out[e])
      /\ UNCHANGED <<length, sent, read, inbox, listed, client, out, cwd>>
  BY DEF Settle, MarkDelivered, story
<1>2. /\ at' \in [Exec -> Steps]
      /\ OneExecution' /\ SomebodyWaits' /\ OwnDirectory'
      /\ \A d \in Exec : at[d] = "answer" => d # e /\ at'[d] = "answer"
  BY <1>1, GoesOn
<1>3. Settled(out[e]) \subseteq 1..sent
  BY DEF Settled, Announced, CallsIInv, CallsTypeInv
<1>4. CallsTypeInv'
  BY <1>1, <1>2, <1>3 DEF CallsIInv, CallsTypeInv, MessagesTypeOK
<1>5. \A m : OnItsWay(m) => OnItsWay(m)'
  BY <1>1, <1>2, WayKept
<1>6. at'[e] = "answer"
  BY <1>1 DEF Goto, CallsIInv, CallsTypeInv
<1>7. ASSUME ~lost, NEW m \in Settled(out[e]) PROVE OnItsWay(m)'
  <2>1. PICK c \in Client : e = R(c) \/ e = O(c)
    BY ExecIs
  <2>2. CASE e = R(c)
    <3>1. client[c] = "asked"
      BY <1>1, <1>7, <2>2 DEF CallsIInv, SomebodyWaits
    <3> QED BY <1>1, <1>6, <1>7, <2>2, <3>1 DEF OnItsWay
  <2>3. CASE e = O(c)
    BY <1>1, <1>6, <1>7, <2>3 DEF OnItsWay
  <2> QED BY <2>1, <2>2, <2>3
<1>8. DeliveredWasShown'
  BY <1>1, <1>5, <1>7 DEF CallsIInv, MarksAreTrue, DeliveredWasShown
<1>9. ReadWasReturned'
  BY <1>1 DEF CallsIInv, MarksAreTrue, ReadWasReturned
<1> QED BY <1>2, <1>4, <1>8, <1>9 DEF CallsIInv, MarksAreTrue

-----------------------------------------------------------------------------
(* The ways of a call.                                                       *)

\* Steps of one client's executions that mark nothing and show nothing: it is enough to say
\* what they make of its client and of its two executions.
LEMMA WaysKeep ==
  ASSUME CallsIInv, UNCHANGED <<messages, out>>,
         client' \in [Client -> {"idle", "asked", "own"}],
         at' \in [Exec -> Steps], cwd' \in Client, lost' \in BOOLEAN,
         ~lost' => ~lost /\ shown' = shown,
         OneExecution', SomebodyWaits', OwnDirectory',
         ~lost' => \A c \in Client :
            /\ client[c] = "asked" /\ at[R(c)] = "answer" =>
                 client'[c] = "asked" /\ at'[R(c)] = "answer"
            /\ at[O(c)] = "answer" => at'[O(c)] = "answer"
  PROVE  CallsIInv'
<1>1. CallsTypeInv'
  BY DEF CallsIInv, CallsTypeInv, MessagesTypeOK, messages
<1>2. ~lost' => \A m : OnItsWay(m) => OnItsWay(m)'
  BY DEF OnItsWay
<1>3. MarksAreTrue'
  BY <1>2 DEF CallsIInv, MarksAreTrue, DeliveredWasShown, ReadWasReturned, messages
<1> QED BY <1>1, <1>3 DEF CallsIInv

LEMMA CallKeeps ==
  ASSUME CallsIInv, NEW c \in Client, Call(c)
  PROVE  CallsIInv'
<1>1. /\ client[c] = "idle" /\ at[R(c)] = "none" /\ at[O(c)] = "none"
      /\ UNCHANGED <<messages, out, cwd>>
  BY DEF Call, Busy
<1>2. lost' \in BOOLEAN /\ (~lost' => ~lost /\ shown' = shown)
  BY NotesKeep DEF Call, CallsIInv
<1>3. CASE client' = [client EXCEPT ![c] = "asked"] /\ Goto(R(c), "sent")
  <2>1. /\ client' \in [Client -> {"idle", "asked", "own"}] /\ at' \in [Exec -> Steps]
    BY <1>3, ExecIs DEF Goto, Steps, CallsIInv, CallsTypeInv
  <2>2. \A d \in Client :
          /\ at'[O(d)] = at[O(d)]
          /\ d # c => at'[R(d)] = at[R(d)] /\ client'[d] = client[d]
          /\ d = c => at'[R(d)] = "sent" /\ client'[d] = "asked"
    BY <1>3, ExecIs DEF Goto, CallsIInv, CallsTypeInv
  <2>3. OneExecution' /\ SomebodyWaits' /\ OwnDirectory'
    BY <1>1, <1>2, <2>2 DEF CallsIInv, OneExecution, SomebodyWaits, OwnDirectory, Running
  <2> QED BY <1>1, <1>2, <2>1, <2>2, <2>3, WaysKeep DEF CallsIInv, CallsTypeInv
<1>4. CASE client' = [client EXCEPT ![c] = "own"] /\ Goto(O(c), "push")
  <2>1. /\ client' \in [Client -> {"idle", "asked", "own"}] /\ at' \in [Exec -> Steps]
    BY <1>4, ExecIs DEF Goto, Steps, CallsIInv, CallsTypeInv
  <2>2. \A d \in Client :
          /\ at'[R(d)] = at[R(d)]
          /\ d # c => at'[O(d)] = at[O(d)] /\ client'[d] = client[d]
          /\ d = c => at'[O(d)] = "push" /\ client'[d] = "own"
    BY <1>4, ExecIs DEF Goto, CallsIInv, CallsTypeInv
  <2>3. OneExecution' /\ SomebodyWaits' /\ OwnDirectory'
    BY <1>1, <1>2, <2>2 DEF CallsIInv, OneExecution, SomebodyWaits, OwnDirectory, Running
  <2> QED BY <1>1, <1>2, <2>1, <2>2, <2>3, WaysKeep DEF CallsIInv, CallsTypeInv
<1> QED BY <1>3, <1>4 DEF Call

LEMMA RefuseKeeps ==
  ASSUME CallsIInv, NEW c \in Client, Refuse(c)
  PROVE  CallsIInv'
<1>1. /\ at[R(c)] = "sent"
      /\ UNCHANGED <<messages, out, cwd, lost, shown>>
  BY DEF Refuse, story
<1>2. CASE /\ client[c] = "asked"
           /\ client' = [client EXCEPT ![c] = "own"]
           /\ at' = [at EXCEPT ![R(c)] = "none", ![O(c)] = "push"]
  <2>1. /\ client' \in [Client -> {"idle", "asked", "own"}] /\ at' \in [Exec -> Steps]
    BY <1>2, ExecIs DEF Steps, CallsIInv, CallsTypeInv
  <2>2. \A d \in Client :
          /\ d # c => at'[R(d)] = at[R(d)] /\ at'[O(d)] = at[O(d)] /\ client'[d] = client[d]
          /\ d = c => at'[R(d)] = "none" /\ at'[O(d)] = "push" /\ client'[d] = "own"
    BY <1>2, ExecIs DEF CallsIInv, CallsTypeInv
  <2>3. at[O(c)] = "none"
    BY <1>2 DEF CallsIInv, OneExecution
  <2>4. OneExecution' /\ SomebodyWaits' /\ OwnDirectory'
    BY <1>1, <2>2 DEF CallsIInv, OneExecution, SomebodyWaits, OwnDirectory, Running
  <2> QED BY <1>1, <2>1, <2>2, <2>3, <2>4, WaysKeep DEF CallsIInv, CallsTypeInv
<1>3. CASE client[c] # "asked" /\ UNCHANGED client /\ Goto(R(c), "none")
  <2>1. at' \in [Exec -> Steps]
    BY <1>3, ExecIs DEF Goto, Steps, CallsIInv, CallsTypeInv
  <2>2. \A d \in Client :
          /\ at'[O(d)] = at[O(d)]
          /\ d # c => at'[R(d)] = at[R(d)]
          /\ d = c => at'[R(d)] = "none"
    BY <1>3, ExecIs DEF Goto, CallsIInv, CallsTypeInv
  <2>3. OneExecution' /\ SomebodyWaits' /\ OwnDirectory'
    BY <1>1, <1>3, <2>2 DEF CallsIInv, OneExecution, SomebodyWaits, OwnDirectory, Running
  <2> QED BY <1>1, <1>3, <2>1, <2>2, <2>3, WaysKeep DEF CallsIInv, CallsTypeInv
<1> QED BY <1>2, <1>3 DEF Refuse, Falls

\* The resident runs one call at a time.
LEMMA TakeTurnKeeps ==
  ASSUME CallsIInv, NEW c \in Client, TakeTurn(c)
  PROVE  CallsIInv'
<1>1. /\ at[R(c)] = "sent" /\ Goto(R(c), "push") /\ cwd' = c
      /\ UNCHANGED <<messages, client, out, lost, shown>>
      /\ \A d \in Client : at[R(d)] \notin {"push", "settle", "answer"}
  BY DEF TakeTurn, Running, story
<1>2. at' \in [Exec -> Steps]
  BY <1>1, ExecIs DEF Goto, Steps, CallsIInv, CallsTypeInv
<1>3. \A d \in Client : /\ at'[O(d)] = at[O(d)]
                        /\ d # c => at'[R(d)] = at[R(d)]
                        /\ d = c => at'[R(d)] = "push"
  BY <1>1, ExecIs DEF Goto, CallsIInv, CallsTypeInv
<1>4. OneExecution' /\ SomebodyWaits'
  BY <1>1, <1>3 DEF CallsIInv, OneExecution, SomebodyWaits
<1>5. OwnDirectory'
  BY <1>1, <1>3 DEF OwnDirectory, Running
<1> QED BY <1>1, <1>2, <1>3, <1>4, <1>5, WaysKeep DEF CallsIInv, CallsTypeInv

\* An execution ends: with its output shown, or with one more output lost.
LEMMA EndKeeps ==
  ASSUME CallsIInv, NEW c \in Client, NEW e \in {R(c), O(c)},
         at[e] # "none", Ends(e), UNCHANGED <<messages, cwd>>, lost' \in BOOLEAN,
         \/ client' = [client EXCEPT ![c] = "idle"]
         \/ e = R(c) /\ client[c] # "asked" /\ client' = client,
         ~lost' => ~lost /\ shown \subseteq shown',
         ~lost' /\ at[e] = "answer" => Settled(out[e]) \subseteq shown'
  PROVE  CallsIInv'
<1>1. /\ at' = [at EXCEPT ![e] = "none"] /\ out' = [out EXCEPT ![e] = Nothing]
      /\ e \in Exec
  BY ExecIs DEF Ends
<1>2. /\ at'[e] = "none" /\ out'[e] = Nothing
      /\ \A d \in Exec : d # e => at'[d] = at[d] /\ out'[d] = out[d]
  BY <1>1 DEF CallsIInv, CallsTypeInv
<1>3. /\ client' \in [Client -> {"idle", "asked", "own"}]
      /\ \A d \in Client : d # c => client'[d] = client[d]
      /\ client'[c] # "asked"
  BY DEF CallsIInv, CallsTypeInv
<1>4. CallsTypeInv'
  <2>1. at' \in [Exec -> Steps] /\ out' \in [Exec -> Outs]
    BY <1>1, NothingTyped DEF Steps, CallsIInv, CallsTypeInv
  <2>2. \A d \in Exec : out'[d].framed \cup out'[d].oversized \subseteq 1..sent
    BY <1>2, NothingTyped DEF CallsIInv, CallsTypeInv
  <2> QED BY <1>3, <2>1, <2>2 DEF CallsIInv, CallsTypeInv, MessagesTypeOK, messages
<1>5. OneExecution'
  BY <1>2, <1>3, ExecIs DEF CallsIInv, OneExecution
<1>6. ~lost' => at'[R(c)] = "none"
  BY <1>2, ExecIs DEF CallsIInv, OneExecution, SomebodyWaits
<1>7. SomebodyWaits'
  BY <1>2, <1>3, <1>6, ExecIs DEF CallsIInv, SomebodyWaits
<1>8. OwnDirectory'
  BY <1>2, ExecIs DEF CallsIInv, OwnDirectory, Running
<1>9. ASSUME ~lost', NEW m, OnItsWay(m) PROVE m \in shown' \/ OnItsWay(m)'
  <2>1. PICK d \in Client :
          \/ client[d] = "asked" /\ at[R(d)] = "answer" /\ m \in Settled(out[R(d)])
          \/ at[O(d)] = "answer" /\ m \in Settled(out[O(d)])
    BY <1>9 DEF OnItsWay
  <2>2. CASE client[d] = "asked" /\ at[R(d)] = "answer" /\ m \in Settled(out[R(d)])
    <3>1. CASE e = R(d) BY <1>9, <2>2, <3>1
    <3>2. CASE e # R(d)
      <4>1. at[O(d)] = "none" BY <2>2 DEF CallsIInv, OneExecution
      <4>2. d # c BY <3>2, <4>1
      <4>3. client'[d] = "asked" /\ at'[R(d)] = "answer" /\ out'[R(d)] = out[R(d)]
        BY <1>2, <1>3, <2>2, <3>2, <4>2, ExecIs
      <4> QED BY <2>2, <4>3 DEF OnItsWay
    <3> QED BY <3>1, <3>2
  <2>3. CASE at[O(d)] = "answer" /\ m \in Settled(out[O(d)])
    <3>1. CASE e = O(d) BY <1>9, <2>3, <3>1
    <3>2. CASE e # O(d)
      <4>1. at'[O(d)] = "answer" /\ out'[O(d)] = out[O(d)]
        BY <1>2, <2>3, <3>2, ExecIs
      <4> QED BY <2>3, <4>1 DEF OnItsWay
    <3> QED BY <3>1, <3>2
  <2> QED BY <2>1, <2>2, <2>3
<1>10. MarksAreTrue'
  BY <1>9 DEF CallsIInv, MarksAreTrue, DeliveredWasShown, ReadWasReturned, messages
<1> QED BY <1>4, <1>5, <1>7, <1>8, <1>10 DEF CallsIInv

\* While nothing is lost, an output that is printed is shown with what it marked.
LEMMA PrintsShows ==
  ASSUME NEW o, Prints(o)
  PROVE  /\ lost' = lost
         /\ ~lost => shown \subseteq shown' /\ Settled(o) \subseteq shown'
BY SettledIsPrinted DEF Prints

LEMMA AnswerKeeps ==
  ASSUME CallsIInv, NEW c \in Client, Answer(c)
  PROVE  CallsIInv'
<1>1. at[R(c)] = "answer" /\ Ends(R(c)) /\ UNCHANGED <<messages, cwd>>
  BY DEF Answer
<1>2. lost \in BOOLEAN BY DEF CallsIInv, CallsTypeInv
<1>3. CASE /\ client[c] = "asked" /\ Prints(out[R(c)])
           /\ client' = [client EXCEPT ![c] = "idle"]
  <2>1. lost' = lost /\ (~lost => shown \subseteq shown' /\ Settled(out[R(c)]) \subseteq shown')
    BY <1>3, PrintsShows
  <2> QED BY <1>1, <1>2, <1>3, <2>1, EndKeeps
<1>4. CASE client[c] # "asked" /\ UNCHANGED <<client, story>>
  <2>1. lost BY <1>1, <1>4 DEF CallsIInv, SomebodyWaits
  <2>2. lost' = lost BY <1>4 DEF story
  <2> QED BY <1>1, <1>2, <1>4, <2>1, <2>2, EndKeeps
<1> QED BY <1>3, <1>4 DEF Answer

LEMMA OwnAnswerKeeps ==
  ASSUME CallsIInv, NEW c \in Client, OwnAnswer(c)
  PROVE  CallsIInv'
<1>1. /\ at[O(c)] = "answer" /\ Ends(O(c)) /\ UNCHANGED <<messages, cwd>>
      /\ Prints(out[O(c)]) /\ client' = [client EXCEPT ![c] = "idle"]
  BY DEF OwnAnswer
<1>2. lost' = lost /\ (~lost => shown \subseteq shown' /\ Settled(out[O(c)]) \subseteq shown')
  BY <1>1, PrintsShows
<1>3. lost \in BOOLEAN BY DEF CallsIInv, CallsTypeInv
<1> QED BY <1>1, <1>2, <1>3, EndKeeps

LEMMA CrashKeeps ==
  ASSUME CallsIInv, NEW c \in Client, Crash(c)
  PROVE  CallsIInv'
<1>1. /\ at[O(c)] # "none" /\ Ends(O(c)) /\ UNCHANGED <<messages, cwd>>
      /\ client' = [client EXCEPT ![c] = "idle"] /\ Notes(FALSE, TRUE)
  BY DEF Crash
<1>2. lost' \in BOOLEAN /\ lost' BY <1>1, NotesKeep DEF CallsIInv
<1> QED BY <1>1, <1>2, EndKeeps

LEMMA TimeoutKeeps ==
  ASSUME CallsIInv, NEW c \in Client, Timeout(c)
  PROVE  CallsIInv'
<1>1. /\ client' = [client EXCEPT ![c] = "idle"] /\ Notes(FALSE, TRUE)
      /\ UNCHANGED <<messages, at, out, cwd>>
  BY DEF Timeout
<1>2. lost' \in BOOLEAN /\ lost' BY <1>1, NotesKeep DEF CallsIInv
<1>3. /\ client' \in [Client -> {"idle", "asked", "own"}]
      /\ \A d \in Client : client'[d] = "asked" => client[d] = "asked"
  BY <1>1 DEF CallsIInv, CallsTypeInv
<1>4. OneExecution' /\ SomebodyWaits' /\ OwnDirectory'
  BY <1>1, <1>2, <1>3 DEF CallsIInv, OneExecution, SomebodyWaits, OwnDirectory, Running
<1> QED BY <1>1, <1>2, <1>3, <1>4, WaysKeep DEF CallsIInv, CallsTypeInv

-----------------------------------------------------------------------------
(* The resident.                                                             *)

\* Where no output is lost, all that the resident drops had not begun.
LEMMA StopKeeps ==
  ASSUME CallsIInv, Stop
  PROVE  CallsIInv'
<1> DEFINE asked == {c \in Client : client[c] = "asked"}
<1>1. PICK begun \in SUBSET {c \in Client : at[R(c)] = "sent"} :
        LET goes == begun \cup {c \in Client : Running(R(c))}
        IN /\ client' = [c \in Client |-> IF c \in asked THEN "own" ELSE client[c]]
           /\ at' = [e \in Exec |->
                       IF e[1] = "own" THEN IF e[2] \in asked THEN "push" ELSE at[e]
                       ELSE IF e[2] \in goes THEN at[e] ELSE "none"]
           /\ Notes(goes \cap asked # {}, goes \cap asked # {})
  BY DEF Stop
<1> DEFINE goes == begun \cup {c \in Client : Running(R(c))}
<1>2. UNCHANGED <<messages, out, cwd>> BY DEF Stop
<1>3. /\ lost' \in BOOLEAN
      /\ ~lost' => ~lost /\ goes \cap asked = {} /\ shown' = shown
  <2>1. (goes \cap asked # {}) \in BOOLEAN OBVIOUS
  <2> HIDE DEF goes, asked
  <2>2. Notes(goes \cap asked # {}, goes \cap asked # {}) BY <1>1 DEF goes
  <2> QED BY <2>1, <2>2, NotesKeep DEF CallsIInv
<1>4. \A c \in Client : /\ at'[R(c)] = IF c \in goes THEN at[R(c)] ELSE "none"
                        /\ at'[O(c)] = IF c \in asked THEN "push" ELSE at[O(c)]
                        /\ client'[c] = IF c \in asked THEN "own" ELSE client[c]
  BY <1>1, ExecIs, StopParts
<1>5. /\ client' \in [Client -> {"idle", "asked", "own"}]
      /\ at' \in [Exec -> Steps]
  BY <1>1 DEF Steps, CallsIInv, CallsTypeInv
<1>6. \A c \in goes : c \in Client /\ at[R(c)] # "none"
  BY DEF Running
<1>7. OneExecution' BY <1>4 DEF OneExecution
<1>8. SomebodyWaits' BY <1>3, <1>4, <1>6 DEF CallsIInv, SomebodyWaits
<1>9. OwnDirectory' BY <1>2, <1>4 DEF CallsIInv, OwnDirectory, Running
<1>10. ~lost' => \A c \in Client :
          /\ ~(client[c] = "asked" /\ at[R(c)] = "answer")
          /\ at[O(c)] = "answer" => at'[O(c)] = "answer"
  BY <1>3, <1>4 DEF CallsIInv, OneExecution, Running
<1> HIDE DEF goes, asked
<1> QED BY <1>2, <1>3, <1>5, <1>7, <1>8, <1>9, <1>10, WaysKeep DEF CallsIInv, CallsTypeInv

LEMMA ServeKeeps ==
  ASSUME CallsIInv, Serve
  PROVE  CallsIInv'
<1>1. UNCHANGED <<messages, client, at, out, cwd, lost, shown>> BY DEF Serve, story
<1> QED BY <1>1 DEF CallsIInv, CallsTypeInv, MessagesTypeOK, messages, OneExecution,
               SomebodyWaits, OwnDirectory, Running, MarksAreTrue, DeliveredWasShown,
               ReadWasReturned, OnItsWay

-----------------------------------------------------------------------------
(* The theorems.                                                             *)

\* Calls and messages are well typed; a client has one execution at a time that it waits
\* for, and while no output is lost it waits for every execution the resident has.
THEOREM CallsInvariant == Spec => []CallsIInv
<1>1. Init => CallsIInv
  <2> SUFFICES ASSUME Init PROVE CallsIInv
    OBVIOUS
  <2>1. \A e \in Exec : at[e] = "none" /\ out[e] = Nothing BY DEF Init
  <2>2. CallsTypeInv
    <3>1. MessagesTypeOK
      <4>1. length \in Lengths BY DEF Init, MessagesInit
      <4>2. length \in Seq(Nat \ {0}) BY <4>1, MessagesAssumption
      <4>3. 0 \in 0..Len(length) BY <4>2
      <4> QED BY <4>1, <4>3 DEF Init, MessagesInit, MessagesTypeOK
    <3>2. out \in [Exec -> Outs] BY NothingTyped DEF Init
    <3> QED BY <2>1, <3>1, <3>2, NothingTyped DEF Init, CallsTypeInv, Steps
  <2>3. OneExecution /\ SomebodyWaits /\ OwnDirectory
    BY <2>1, ExecIs DEF OneExecution, SomebodyWaits, OwnDirectory, Running
  <2>4. MarksAreTrue
    BY DEF Init, MessagesInit, MarksAreTrue, DeliveredWasShown, ReadWasReturned
  <2> QED BY <2>2, <2>3, <2>4 DEF CallsIInv
<1>2. CallsIInv /\ [Next]_vars => CallsIInv'
  <2> SUFFICES ASSUME CallsIInv, [Next]_vars PROVE CallsIInv'
    OBVIOUS
  <2>1. CASE (Send \/ InboxMark \/ InboxFails) /\ UNCHANGED <<budget, calls, story>>
    BY <2>1, SendKeeps, InboxMarkKeeps, InboxFailsKeeps
  <2>2. CASE Reads BY <2>2, ReadsKeeps
  <2>3. ASSUME NEW c \in Client, Call(c) PROVE CallsIInv' BY <2>3, CallKeeps
  <2>4. ASSUME NEW c \in Client, Resident(c) PROVE CallsIInv'
    BY <2>4, RefuseKeeps, TakeTurnKeeps, AnswerKeeps DEF Resident
  <2>5. ASSUME NEW c \in Client, OwnAnswer(c) PROVE CallsIInv' BY <2>5, OwnAnswerKeeps
  <2>6. ASSUME NEW c \in Client, Timeout(c) PROVE CallsIInv' BY <2>6, TimeoutKeeps
  <2>7. ASSUME NEW c \in Client, Crash(c) PROVE CallsIInv' BY <2>7, CrashKeeps
  <2>8. ASSUME NEW e \in Exec, Execution(e) PROVE CallsIInv'
    BY <2>8, SkipKeeps, PendingKeeps, SettleKeeps, SettleFailsKeeps DEF Execution
  <2>9. CASE Stop BY <2>9, StopKeeps
  <2>10. CASE Serve BY <2>10, ServeKeeps
  <2>11. CASE UNCHANGED vars
    <3>1. UNCHANGED <<messages, client, at, out, cwd, lost, shown>>
      BY <2>11 DEF vars, calls, story
    <3> QED BY <3>1 DEF CallsIInv, CallsTypeInv, MessagesTypeOK, messages, OneExecution,
                   SomebodyWaits, OwnDirectory, Running, MarksAreTrue, DeliveredWasShown,
                   ReadWasReturned, OnItsWay
  <2> QED BY <2>1, <2>2, <2>3, <2>4, <2>5, <2>6, <2>7, <2>8, <2>9, <2>10, <2>11 DEF Next
<1> QED BY <1>1, <1>2, PTL DEF Spec

\* While no output was lost, delivered_at says that an agent has seen a message, and
\* read_at that its inbox returned it (hooks/push.rs settle, store/messages.rs).
THEOREM MarksAlwaysTrue == Spec => []MarksAreTrue
<1>1. CallsIInv => MarksAreTrue BY DEF CallsIInv
<1> QED BY <1>1, CallsInvariant, PTL

\* A call that the resident runs finds its client's directory, however many clients call,
\* give up or are refused (hooks/resident.rs State::run).
THEOREM DirectoryIsOwn == Spec => []OwnDirectory
<1>1. CallsIInv => OwnDirectory BY DEF CallsIInv
<1> QED BY <1>1, CallsInvariant, PTL

-----------------------------------------------------------------------------
(* Finite sets: induction over their subsets, and the maximum.               *)

\* Induction over the subsets of a finite set: what holds of a set when it holds of all
\* smaller ones holds of all.
LEMMA SubsetInduction ==
  ASSUME NEW S, IsFiniteSet(S), NEW G,
         \A T \in SUBSET S : (\A U \in SUBSET T : U # T => U \in G) => T \in G
  PROVE  \A T \in SUBSET S : T \in G
<1>. SUFFICES ASSUME NEW T0 \in SUBSET S, T0 \notin G PROVE FALSE
  OBVIOUS
<1> DEFINE Bad == {T \in SUBSET S : T \notin G}
<1>1. IsWellFoundedOn(StrictSubsetOrdering(S), SUBSET S)
  <2>1. FiniteSubsetsOf(S) = SUBSET S
    BY FS_FiniteSubsetsOfFinite
  <2>2. IsWellFoundedOn(StrictSubsetOrdering(S), FiniteSubsetsOf(S))
    BY FS_StrictSubsetOrderingWellFounded
  <2>. QED
    BY <2>1, <2>2
<1>2. Bad \subseteq SUBSET S /\ Bad # {}
  OBVIOUS
<1>3. PICK T \in Bad : \A U \in Bad : ~(<<U, T>> \in StrictSubsetOrdering(S))
  <2> HIDE DEF Bad
  <2>. QED
    BY <1>1, <1>2, WFMin
<1>4. ASSUME NEW U \in SUBSET T, U # T PROVE U \in G
  <2>1. <<U, T>> \in StrictSubsetOrdering(S)
    BY <1>4 DEF StrictSubsetOrdering
  <2>. QED
    BY <1>3, <2>1
<1>. QED
  BY <1>3, <1>4

\* A finite set of numbers has a maximum.
LEMMA MaxIn ==
  ASSUME NEW S \in SUBSET Nat, IsFiniteSet(S), S # {}
  PROVE  Max(S) \in S /\ \A m \in S : m <= Max(S)
<1> DEFINE Has(T) == \E x \in T : \A y \in T : x >= y
           G == {T \in SUBSET S : T # {} => Has(T)}
<1>1. ASSUME NEW T \in SUBSET S, \A U \in SUBSET T : U # T => U \in G
      PROVE  T \in G
  <2>. SUFFICES ASSUME T # {} PROVE Has(T)
    OBVIOUS
  <2>1. PICK x \in T : TRUE
    OBVIOUS
  <2>2. T \ {x} \in G
    BY <1>1, <2>1
  <2>3. CASE T \ {x} = {}
    BY <2>1, <2>3
  <2>4. CASE T \ {x} # {}
    <3>1. PICK y \in T \ {x} : \A z \in T \ {x} : y >= z
      BY <2>2, <2>4
    <3>2. x \in Nat /\ y \in Nat /\ T \subseteq Nat
      BY <2>1, <3>1
    <3>3. CASE x >= y
      <4>1. \A z \in T : x >= z
        BY <3>1, <3>2, <3>3
      <4>. QED
        BY <2>1, <4>1
    <3>4. CASE y >= x
      <4>1. \A z \in T : y >= z
        BY <3>1, <3>2, <3>4
      <4>. QED
        BY <3>1, <4>1
    <3>. QED
      BY <3>2, <3>3, <3>4
  <2>. QED
    BY <2>3, <2>4
<1> HIDE DEF G
<1>2. S \in G
  BY <1>1, SubsetInduction
<1>3. \E x \in S : \A y \in S : x >= y
  BY <1>2 DEF G
<1>4. Max(S) \in S /\ \A y \in S : Max(S) >= y
  BY <1>3 DEF Max
<1>. QED
  BY <1>4

-----------------------------------------------------------------------------
(* The length of a set of frames.                                            *)

\* The recursive function in MapThenSumSet.
Pick(s) == CHOOSE x \in s : TRUE
Sums(g, S) == g = [s \in SUBSET S |-> IF s = {} THEN 0 ELSE length[Pick(s)] + g[s \ {Pick(s)}]]

LEMMA TotalIs ==
  ASSUME NEW S
  PROVE  Total(S) = (CHOOSE g : Sums(g, S))[S]
BY DEF Total, MapThenSumSet, MapThenFoldSet, Sums, Pick

LEMMA PickIn == \A s : s # {} => Pick(s) \in s
BY DEF Pick

LEMMA SumsAgree ==
  ASSUME NEW S, IsFiniteSet(S), NEW A, NEW B, S \subseteq A, S \subseteq B,
         NEW g, NEW h, Sums(g, A), Sums(h, B)
  PROVE  \A s \in SUBSET S : g[s] = h[s]
<1> DEFINE G == {s \in SUBSET S : g[s] = h[s]}
<1>1. ASSUME NEW T \in SUBSET S, \A U \in SUBSET T : U # T => U \in G
      PROVE  T \in G
  <2>1. T \in SUBSET A /\ T \in SUBSET B
    OBVIOUS
  <2>2. /\ g[T] = IF T = {} THEN 0 ELSE length[Pick(T)] + g[T \ {Pick(T)}]
        /\ h[T] = IF T = {} THEN 0 ELSE length[Pick(T)] + h[T \ {Pick(T)}]
    BY <2>1 DEF Sums
  <2>3. CASE T = {}
    BY <2>2, <2>3
  <2>4. CASE T # {}
    <3>1. T \ {Pick(T)} \in G
      BY <1>1, <2>4, PickIn
    <3>. QED
      BY <2>2, <2>4, <3>1
  <2>. QED
    BY <2>3, <2>4
<1> HIDE DEF G
<1>2. \A T \in SUBSET S : T \in G
  BY <1>1, SubsetInduction
<1>. QED
  BY <1>2 DEF G

LEMMA SumsExist ==
  ASSUME NEW S, IsFiniteSet(S)
  PROVE  \E g : Sums(g, S)
<1> DEFINE G == {T \in SUBSET S : \E g : Sums(g, T)}
<1>1. ASSUME NEW T \in SUBSET S, \A U \in SUBSET T : U # T => U \in G
      PROVE  T \in G
  <2> DEFINE sumOf(s) == (CHOOSE g : Sums(g, s))[s]
             h == [s \in SUBSET T |-> IF s = T /\ T # {}
                                      THEN length[Pick(T)] + sumOf(T \ {Pick(T)})
                                      ELSE sumOf(s)]
  <2>1. ASSUME NEW U \in SUBSET T, U # T
        PROVE  Sums(CHOOSE g : Sums(g, U), U)
    <3>1. \E g : Sums(g, U)
      BY <1>1, <2>1
    <3>. QED
      BY <3>1
  <2>2. Sums([s \in SUBSET {} |-> 0], {})
    BY DEF Sums
  <2>3. ASSUME NEW U \in SUBSET T, U # T \/ U = {}
        PROVE  Sums(CHOOSE g : Sums(g, U), U)
    BY <2>1, <2>2, <2>3
  <2>4. ASSUME NEW U \in SUBSET T, U # T \/ U = {}
        PROVE  sumOf(U) = IF U = {} THEN 0 ELSE length[Pick(U)] + sumOf(U \ {Pick(U)})
    <3> DEFINE g == CHOOSE g : Sums(g, U)
               V == U \ {Pick(U)}
               k == CHOOSE k : Sums(k, V)
    <3>1. Sums(g, U)
      BY <2>3, <2>4
    <3>2. g[U] = IF U = {} THEN 0 ELSE length[Pick(U)] + g[V]
      BY <3>1 DEF Sums
    <3>3. CASE U = {}
      BY <3>2, <3>3
    <3>4. CASE U # {}
      <4>1. V \in SUBSET U /\ V # U /\ V \in SUBSET T /\ V # T
        BY <3>4, PickIn
      <4>2. Sums(k, V)
        BY <2>3, <4>1
      <4>3. IsFiniteSet(V)
        BY <4>1, FS_Subset
      <4>4. g[V] = k[V]
        <5> HIDE DEF g, k, V
        <5>. QED
          BY <3>1, <4>1, <4>2, <4>3, SumsAgree
      <4>. QED
        BY <3>2, <3>4, <4>4
    <3>. QED
      BY <3>3, <3>4
  <2>5. Sums(h, T)
    <3>1. ASSUME NEW s \in SUBSET T
          PROVE  h[s] = IF s = {} THEN 0 ELSE length[Pick(s)] + h[s \ {Pick(s)}]
      <4>1. CASE s = {}
        BY <2>4, <4>1
      <4>2. CASE s # {}
        <5>1. s \ {Pick(s)} \in SUBSET T /\ s \ {Pick(s)} # T
          BY <4>2, PickIn
        <5>2. h[s \ {Pick(s)}] = sumOf(s \ {Pick(s)})
          BY <5>1
        <5>3. h[s] = length[Pick(s)] + sumOf(s \ {Pick(s)})
          BY <2>4, <4>2
        <5>. QED
          BY <4>2, <5>2, <5>3
      <4>. QED
        BY <4>1, <4>2
    <3>2. h = [s \in SUBSET T |-> h[s]]
      OBVIOUS
    <3> HIDE DEF h
    <3>. QED
      BY <3>1, <3>2 DEF Sums
  <2>. QED
    BY <2>5
<1> HIDE DEF G
<1>2. S \in G
  BY <1>1, SubsetInduction
<1>. QED
  BY <1>2 DEF G

\* The sum is that of one element and the rest ...
LEMMA TotalPick ==
  ASSUME NEW S, IsFiniteSet(S)
  PROVE  Total(S) = IF S = {} THEN 0 ELSE length[Pick(S)] + Total(S \ {Pick(S)})
<1> DEFINE Rest == S \ {Pick(S)}
           g == CHOOSE x : Sums(x, S)
           h == CHOOSE x : Sums(x, Rest)
<1>1. IsFiniteSet(Rest) /\ Rest \subseteq S
  BY FS_Subset
<1>2. Sums(g, S) /\ Sums(h, Rest)
  BY <1>1, SumsExist
<1>3. g[Rest] = h[Rest]
  <2> HIDE DEF Rest, g, h
  <2>. QED
    BY <1>1, <1>2, SumsAgree
<1>4. Total(S) = g[S] /\ Total(Rest) = h[Rest]
  BY TotalIs
<1>5. g[S] = IF S = {} THEN 0 ELSE length[Pick(S)] + g[Rest]
  BY <1>2 DEF Sums
<1>. QED
  BY <1>3, <1>4, <1>5

LEMMA TotalNat ==
  ASSUME NEW S, IsFiniteSet(S), \A m \in S : length[m] \in Nat
  PROVE  \A T \in SUBSET S : Total(T) \in Nat
<1> DEFINE G == {T \in SUBSET S : Total(T) \in Nat}
<1>1. ASSUME NEW T \in SUBSET S, \A U \in SUBSET T : U # T => U \in G
      PROVE  T \in G
  <2>1. IsFiniteSet(T)
    BY FS_Subset
  <2>2. CASE T = {}
    <3>1. Total(T) = 0
      BY <2>1, <2>2, TotalPick
    <3>. QED
      BY <3>1
  <2>3. CASE T # {}
    <3>1. Pick(T) \in T /\ T \ {Pick(T)} \in G
      BY <1>1, <2>3, PickIn
    <3>. QED
      BY <2>1, <2>3, <3>1, TotalPick
  <2>. QED
    BY <2>2, <2>3
<1> HIDE DEF G
<1>2. \A T \in SUBSET S : T \in G
  BY <1>1, SubsetInduction
<1>. QED
  BY <1>2 DEF G

\* ... whichever element it is.
LEMMA TotalAny ==
  ASSUME NEW S, IsFiniteSet(S), \A m \in S : length[m] \in Nat
  PROVE  \A T \in SUBSET S : \A x \in T : Total(T) = length[x] + Total(T \ {x})
<1> DEFINE G == {T \in SUBSET S : \A x \in T : Total(T) = length[x] + Total(T \ {x})}
<1>1. ASSUME NEW T \in SUBSET S, \A U \in SUBSET T : U # T => U \in G
      PROVE  T \in G
  <2>. SUFFICES ASSUME NEW x \in T PROVE Total(T) = length[x] + Total(T \ {x})
    OBVIOUS
  <2> DEFINE y == Pick(T)
             Rest == T \ {x, y}
  <2>1. IsFiniteSet(T) /\ IsFiniteSet(T \ {x}) /\ y \in T
    BY FS_Subset, PickIn
  <2>2. Total(T) = length[y] + Total(T \ {y})
    BY <2>1, TotalPick
  <2>3. CASE x = y
    BY <2>2, <2>3
  <2>4. CASE x # y
    <3>1. x \in T \ {y} /\ T \ {y} \in G /\ (T \ {y}) \ {x} = Rest
      BY <1>1, <2>1, <2>4
    <3>2. y \in T \ {x} /\ T \ {x} \in G /\ (T \ {x}) \ {y} = Rest
      BY <1>1, <2>1, <2>4
    <3>3. Total(T \ {y}) = length[x] + Total(Rest) /\ Total(T \ {x}) = length[y] + Total(Rest)
      BY <3>1, <3>2
    <3>4. Total(Rest) \in Nat /\ length[x] \in Nat /\ length[y] \in Nat
      <4>1. Rest \in SUBSET S
        OBVIOUS
      <4>. QED
        BY <2>1, <4>1, TotalNat
    <3> HIDE DEF y, Rest
    <3>. QED
      BY <2>2, <3>3, <3>4
  <2>. QED
    BY <2>3, <2>4
<1> HIDE DEF G
<1>2. \A T \in SUBSET S : T \in G
  BY <1>1, SubsetInduction
<1>. QED
  BY <1>2 DEF G

LEMMA TotalGrows ==
  ASSUME NEW S, IsFiniteSet(S), \A m \in S : length[m] \in Nat
  PROVE  \A U \in SUBSET S : Total(U) <= Total(S)
<1> DEFINE G == {T \in SUBSET S : \A U \in SUBSET T : Total(U) <= Total(T)}
<1>1. ASSUME NEW T \in SUBSET S, \A U \in SUBSET T : U # T => U \in G
      PROVE  T \in G
  <2>. SUFFICES ASSUME NEW U \in SUBSET T PROVE Total(U) <= Total(T)
    OBVIOUS
  <2>1. Total(T) \in Nat /\ Total(U) \in Nat
    BY TotalNat
  <2>2. CASE U = T
    BY <2>1, <2>2
  <2>3. CASE U # T
    <3>1. PICK x \in T : x \notin U
      BY <2>3
    <3>2. T \ {x} \in G /\ U \in SUBSET (T \ {x})
      BY <1>1, <3>1
    <3>3. Total(U) <= Total(T \ {x})
      BY <3>2
    <3>4. Total(T) = length[x] + Total(T \ {x})
      BY <3>1, TotalAny
    <3>5. length[x] \in Nat /\ Total(T \ {x}) \in Nat
      <4>1. T \ {x} \in SUBSET S
        OBVIOUS
      <4>. QED
        BY <4>1, TotalNat
    <3>. QED
      BY <2>1, <3>3, <3>4, <3>5
  <2>. QED
    BY <2>2, <2>3
<1> HIDE DEF G
<1>2. S \in G
  BY <1>1, SubsetInduction
<1>. QED
  BY <1>2 DEF G

LEMMA OldestIn ==
  ASSUME NEW S \in SUBSET Nat, IsFiniteSet(S), S # {}
  PROVE  \E x \in S : \A y \in S : x <= y
<1> DEFINE Has(T) == \E x \in T : \A y \in T : x <= y
           G == {T \in SUBSET S : T # {} => Has(T)}
<1>1. ASSUME NEW T \in SUBSET S, \A U \in SUBSET T : U # T => U \in G
      PROVE  T \in G
  <2>. SUFFICES ASSUME T # {} PROVE Has(T)
    OBVIOUS
  <2>1. PICK x \in T : TRUE
    OBVIOUS
  <2>2. CASE T = {x}
    <3>1. x \in Nat
      OBVIOUS
    <3>. QED
      BY <2>2, <3>1
  <2>3. CASE T # {x}
    <3>1. T \ {x} \in G /\ T \ {x} # {}
      <4>1. T \ {x} \in SUBSET T /\ T \ {x} # T /\ T \ {x} # {}
        BY <2>1, <2>3
      <4>. HIDE DEF G
      <4>. QED
        BY <1>1, <4>1
    <3>2. PICK z \in T \ {x} : \A y \in T \ {x} : z <= y
      BY <3>1
    <3>3. x \in Nat /\ z \in Nat /\ T \subseteq Nat
      BY <2>1
    <3>4. CASE x <= z
      <4>1. \A y \in T : x <= y
        BY <3>2, <3>3, <3>4
      <4>. QED
        BY <2>1, <4>1
    <3>5. CASE z <= x
      BY <3>2, <3>5
    <3>. QED
      BY <3>3, <3>4, <3>5
  <2>. QED
    BY <2>2, <2>3
<1> HIDE DEF G
<1>2. \A T \in SUBSET S : T \in G
  BY <1>1, SubsetInduction
<1>. QED
  BY <1>2 DEF G

-----------------------------------------------------------------------------
(* What a push carries.                                                      *)

\* Frames go in send order while they fit, so that those that go are older than those that
\* wait, and with an ample budget all that fit are emitted and the oversized are announced.
LEMMA PushWhole ==
  ASSUME MessagesTypeOK, budget \in Budgets[length], Ample, NEW rows \in SUBSET (1..sent),
         NEW o \in Others,
         NEW room \in {OnPrompt(PushLength(Push(rows)), o), AfterTool(PushLength(Push(rows)), o)}
  PROVE  LET e == Emits(Push(rows), room)
         IN /\ e.frames \subseteq rows
            /\ \A m \in rows \ Settled(e), f \in e.frames : f < m
            /\ Settled(e) \subseteq rows /\ (rows # {} => Settled(e) # {})
<1> DEFINE F == Framed(rows)
           small == rows \ Oversized(rows)
           Below(m) == {n \in small : n <= m}
           t == PushLength(Push(rows))
           e == Emits(Push(rows), room)
<1>1. /\ IsFiniteSet(rows) /\ rows \subseteq Nat
      /\ \A m \in rows : length[m] \in Nat
  <2>1. sent \in Nat /\ 1..sent \subseteq 1..Len(length)
    BY LengthIs DEF MessagesTypeOK
  <2>2. IsFiniteSet(1..sent)
    BY <2>1, FS_Interval
  <2>3. length \in Seq(Nat \ {0})
    BY MessagesAssumption DEF MessagesTypeOK
  <2>4. IsFiniteSet(rows)
    BY <2>2, FS_Subset
  <2>5. \A m \in 1..Len(length) : length[m] \in Nat
    BY <2>3
  <2>6. rows \subseteq Nat /\ rows \subseteq 1..Len(length)
    BY <2>1
  <2>. QED
    BY <2>4, <2>5, <2>6
<1>2. F \subseteq small /\ small \subseteq rows
  BY DEF Framed
<1>3. \A T \in SUBSET rows : Total(T) \in Nat /\ \A U \in SUBSET T : Total(U) <= Total(T)
  <2>1. ASSUME NEW T \in SUBSET rows
        PROVE  Total(T) \in Nat /\ \A U \in SUBSET T : Total(U) <= Total(T)
    <3>1. IsFiniteSet(T) /\ \A m \in T : length[m] \in Nat
      BY <1>1, FS_Subset
    <3>. QED
      BY <3>1, TotalNat, TotalGrows
  <2>. QED
    BY <2>1
<1>4. Cap \in Nat /\ MoreLine \in Nat \ {0} /\ Marker \in Nat /\ budget \in Nat /\ o \in Nat
  BY MessagesAssumption, HookCallsAssumption DEF MessagesTypeOK
<1>5. Room(rows) \in Nat /\ Room(rows) <= Cap
  BY <1>3, <1>4 DEF Room
<1>6. \A m \in small : m \in F <=> Total(Below(m)) <= Room(rows)
  BY DEF Framed, UpTo
<1>7. Total(F) \in Nat /\ Total(F) <= Cap
  <2>1. Total(F) \in Nat
    BY <1>2, <1>3
  <2>2. CASE F = {}
    <3>1. Total({}) = 0
      BY TotalPick, FS_EmptySet
    <3>. QED
      BY <1>4, <2>2, <3>1
  <2>3. CASE F # {}
    <3>1. IsFiniteSet(F) /\ F \subseteq Nat
      BY <1>1, <1>2, FS_Subset
    <3>2. Max(F) \in F /\ \A m \in F : m <= Max(F)
      BY <2>3, <3>1, MaxIn
    <3>3. F \in SUBSET Below(Max(F)) /\ Below(Max(F)) \in SUBSET rows
      BY <1>2, <3>2
    <3>4. Total(F) <= Total(Below(Max(F))) /\ Total(Below(Max(F))) \in Nat
      BY <1>3, <3>3
    <3>5. Total(Below(Max(F))) <= Room(rows)
      BY <1>2, <1>6, <3>2
    <3>. QED
      BY <1>4, <1>5, <2>1, <3>4, <3>5
  <2>. QED
    BY <2>2, <2>3
<1>8. t \in Nat /\ Total(F) <= t /\ t <= Cap + MoreLine
  <2>1. Push(rows).framed = F /\ Push(rows).more \in BOOLEAN
    BY DEF Push
  <2>2. t = Total(F) + (IF Push(rows).more THEN MoreLine ELSE 0)
    BY <2>1 DEF PushLength
  <2>. HIDE DEF t, F
  <2>. QED
    BY <1>4, <1>7, <2>1, <2>2
<1>9. room = t
  <2>1. o + Cap + MoreLine + Marker <= budget
    BY DEF Ample
  <2>2. room = OnPrompt(t, o) \/ room = AfterTool(t, o)
    OBVIOUS
  <2>. HIDE DEF t
  <2>3. ~(o >= budget) /\ t <= budget /\ t + o <= budget
    BY <1>4, <1>8, <2>1
  <2>. QED
    BY <2>2, <2>3 DEF OnPrompt, AfterTool
<1>10. e.frames = F /\ e.framed = F /\ e.oversized = Oversized(rows) /\ e.more = (F # rows)
  <2>1. \A m \in F : UpTo(m, F) <= t
    <3>1. ASSUME NEW m \in F PROVE Total({n \in F : n <= m}) <= t
      <4>1. {n \in F : n <= m} \in SUBSET F /\ F \in SUBSET rows /\ {n \in F : n <= m} \in SUBSET rows
        BY <1>2
      <4>. HIDE DEF F, t
      <4>2. Total({n \in F : n <= m}) <= Total(F) /\ Total({n \in F : n <= m}) \in Nat
        BY <1>3, <4>1
      <4>. QED
        BY <1>7, <1>8, <4>2
    <3>. QED
      BY <3>1 DEF UpTo
  <2>2. t <= t
    BY <1>8
  <2>. HIDE DEF F, t
  <2>3. Push(rows) = [framed |-> F, oversized |-> Oversized(rows), more |-> F # rows]
    BY DEF Push, F
  <2>4. {m \in F : UpTo(m, F) <= room} = F
    BY <1>9, <2>1
  <2>5. PushLength(Push(rows)) <= room
    BY <1>9, <2>2 DEF t
  <2>6. e = [framed |-> F, oversized |-> Oversized(rows),
             frames |-> {m \in F : UpTo(m, F) <= room}, more |-> F # rows]
    <3> DEFINE p == Push(rows)
    <3>1. p.framed = F /\ p.oversized = Oversized(rows) /\ p.more = (F # rows)
      BY <2>3
    <3>2. e = [framed |-> p.framed, oversized |-> p.oversized,
               frames |-> {m \in p.framed : UpTo(m, p.framed) <= room},
               more |-> p.more /\ PushLength(p) <= room]
      BY DEF Emits
    <3>3. (p.more /\ PushLength(p) <= room) = (F # rows)
      BY <2>5, <3>1
    <3>. HIDE DEF p, e
    <3>. QED
      BY <3>1, <3>2, <3>3
  <2>. HIDE DEF e
  <2>. QED
    BY <2>4, <2>6
<1>11. Settled(e) = F \cup (IF F # rows THEN Oversized(rows) ELSE {})
  BY <1>10 DEF Settled, Announced
<1>12. ASSUME NEW m \in rows \ Settled(e), NEW f \in F PROVE f < m
  <2>1. m \in small /\ m \notin F /\ f \in small
    BY <1>2, <1>11
  <2>2. m \in Nat /\ f \in Nat
    BY <1>1, <1>2, <2>1
  <2>3. CASE m <= f
    <3>1. Below(m) \in SUBSET Below(f) /\ Below(f) \in SUBSET rows /\ Below(m) \in SUBSET rows
      <4>1. \A n \in small : n \in Nat
        BY <1>1
      <4>2. ASSUME NEW n \in small, n <= m PROVE n <= f
        BY <2>2, <2>3, <4>1, <4>2
      <4>. HIDE DEF small
      <4>. QED
        BY <1>2, <4>2
    <3>2. Total(Below(m)) <= Total(Below(f)) /\ Total(Below(m)) \in Nat /\ Total(Below(f)) \in Nat
      BY <1>3, <3>1
    <3>3. Total(Below(f)) <= Room(rows) /\ ~(Total(Below(m)) <= Room(rows))
      BY <1>6, <2>1
    <3>. QED
      BY <1>5, <3>2, <3>3
  <2>. QED
    BY <2>2, <2>3
\* The oldest that is not oversized goes.
<1>13. ASSUME rows # {} PROVE Settled(e) # {}
  <2>1. CASE Oversized(rows) # {}
    <3>1. F # rows
      BY <1>2, <2>1 DEF Oversized
    <3>. QED
      BY <1>11, <2>1, <3>1
  <2>2. CASE Oversized(rows) = {}
    <3>1. small = rows
      BY <2>2
    <3>2. PICK x \in rows : \A y \in rows : x <= y
      BY <1>1, <1>13, OldestIn
    <3>3. Below(x) = {x}
      <4>1. \A y \in rows : y <= x <=> y = x
        BY <1>1, <3>2
      <4>. QED
        BY <3>1, <4>1
    <3>4. Total({x}) = length[x]
      <4>1. Total({x}) = length[x] + Total({x} \ {x})
        <5>1. {x} \in SUBSET rows /\ x \in {x}
          OBVIOUS
        <5>2. \A T \in SUBSET rows : \A z \in T : Total(T) = length[z] + Total(T \ {z})
          BY <1>1, TotalAny
        <5>. QED
          BY <5>1, <5>2
      <4>2. {x} \ {x} = {}
        OBVIOUS
      <4>3. Total({}) = 0
        BY TotalPick, FS_EmptySet
      <4>4. Total({x} \ {x}) = 0
        BY <4>2, <4>3
      <4>. QED
        BY <1>1, <4>1, <4>4
    <3>5. length[x] <= Room(rows)
      BY <1>1, <1>5, <2>2 DEF Oversized
    <3>6. x \in F
      BY <1>6, <3>1, <3>3, <3>4, <3>5
    <3>. QED
      BY <1>11, <3>6
  <2>. QED
    BY <2>1, <2>2
<1>14. Settled(e) \subseteq rows
  BY <1>2, <1>11 DEF Oversized
<1>. QED
  BY <1>2, <1>10, <1>12, <1>13, <1>14

-----------------------------------------------------------------------------
(* The histories, and the rest of the type invariant.                        *)

\* What is emitted was offered, between calls nothing is, and who waits for the resident has
\* a call there.
TidyOuts ==
  /\ \A e \in Exec : /\ out[e].frames \subseteq out[e].framed
                     /\ at[e] \in {"none", "sent", "push"} => out[e] = Nothing
  /\ \A c \in Client : client[c] = "asked" => at[R(c)] # "none"

TidyStory ==
  /\ {mixed, rough} \subseteq BOOLEAN
  /\ shown \subseteq 1..sent /\ last \in 0..sent
  /\ mishaps \in 0..MaxMishaps

\* The rest of TypeOK.  What the inbox returned is marked.
Tidy ==
  /\ budget \in Budgets[length] /\ up \in BOOLEAN /\ listed \subseteq delivered
  /\ TidyOuts /\ TidyStory

\* The histories after a step: left alone, noted, or of what is printed.
LEMMA StoryTyped ==
  ASSUME CallsTypeInv, TidyStory, sent' \in Nat, sent <= sent',
         \/ UNCHANGED <<shown, last, mixed, rough, lost>>
         \/ \E r, l \in BOOLEAN : Notes(r, l)
         \/ /\ \E e \in Exec : Prints(out[e]) /\ out[e].frames \subseteq out[e].framed
            /\ UNCHANGED sent,
         Mishap \/ NoMishap \/ UNCHANGED mishaps
  PROVE  TidyStory'
<1>1. mishaps' \in 0..MaxMishaps
  BY HookCallsAssumption DEF TidyStory, Mishap, NoMishap
<1>2. sent \in Nat /\ 1..sent \subseteq 1..sent' /\ 0..sent \subseteq 0..sent' /\ 0 \in 0..sent'
  BY DEF CallsTypeInv, MessagesTypeOK
<1>3. CASE UNCHANGED <<shown, last, mixed, rough, lost>>
  BY <1>1, <1>2, <1>3 DEF TidyStory
<1>4. CASE \E r, l \in BOOLEAN : Notes(r, l)
  BY <1>1, <1>2, <1>4 DEF TidyStory, Notes, CallsTypeInv
<1>5. ASSUME NEW e \in Exec, Prints(out[e]), out[e].frames \subseteq out[e].framed, UNCHANGED sent
      PROVE  TidyStory'
  <2> DEFINE o == out[e]
  <2>1. o.frames \subseteq 1..sent /\ Announced(o) \subseteq 1..sent
    BY <1>5 DEF Announced, CallsTypeInv
  <2>2. shown' \subseteq 1..sent
    BY <1>5, <2>1 DEF Prints, TidyStory
  <2>3. Max({last} \cup o.frames) \in 0..sent
    <3>1. {last} \cup o.frames \subseteq 0..sent /\ IsFiniteSet(0..sent)
      <4>1. last \in 0..sent /\ o.frames \subseteq 0..sent
        BY <1>2, <2>1 DEF TidyStory
      <4>2. IsFiniteSet(0..sent)
        BY <1>2, FS_Interval
      <4>. QED
        BY <4>1, <4>2
    <3>2. IsFiniteSet({last} \cup o.frames) /\ {last} \cup o.frames \in SUBSET Nat
      BY <1>2, <3>1, FS_Subset
    <3>. QED
      BY <3>1, <3>2, MaxIn
  <2>4. last' \in 0..sent
    BY <1>2, <1>5, <2>3 DEF Prints
  <2>5. mixed' \in BOOLEAN /\ rough' \in BOOLEAN
    BY <1>5 DEF Prints, TidyStory
  <2>. QED
    BY <1>1, <1>5, <2>2, <2>4, <2>5 DEF TidyStory
<1>. QED
  BY <1>3, <1>4, <1>5

LEMMA SentIs ==
  ASSUME CallsTypeInv
  PROVE  sent \in Nat /\ sent <= sent
BY DEF CallsTypeInv, MessagesTypeOK

LEMMA TidyStore ==
  ASSUME CallsIInv, Tidy,
         \/ (Send \/ InboxMark \/ InboxFails) /\ UNCHANGED <<budget, calls, story>>
         \/ Reads
  PROVE  Tidy'
<1>1. sent' \in Nat /\ sent <= sent'
  <2>1. sent \in Nat
    BY SentIs DEF CallsIInv
  <2>2. sent' = sent \/ sent' = sent + 1
    BY DEF Send, InboxMark, InboxFails, Reads, InboxLoad
  <2>. QED
    BY <2>1, <2>2
<1>2. TidyStory'
  <2>1. CASE UNCHANGED story
    BY <1>1, <2>1, StoryTyped DEF story, CallsIInv, Tidy
  <2>2. CASE Reads
    BY <1>1, <2>2, StoryTyped DEF Reads, CallsIInv, Tidy
  <2>. QED
    BY <2>1, <2>2
<1>3. UNCHANGED <<length, budget, client, at, out, up>> /\ listed' \subseteq delivered'
  BY DEF Send, InboxMark, InboxFails, Reads, InboxLoad, calls, Tidy
<1>. QED
  BY <1>2, <1>3 DEF TidyOuts, Tidy

LEMMA TidyExecution ==
  ASSUME CallsIInv, Tidy, NEW e \in Exec, Execution(e)
  PROVE  Tidy'
<1>1. UNCHANGED <<length, sent, budget, client, up, listed>> /\ delivered \subseteq delivered'
      /\ \E step \in {"settle", "answer"} : Goto(e, step)
  BY DEF Execution, Skip, Pending, Settle, SettleFails, MarkDelivered, messages
<1>2. TidyStory'
  <2>1. CASE Skip(e)
    BY <1>1, <2>1, SentIs, StoryTyped DEF Skip, story, CallsIInv, Tidy
  <2>2. CASE Pending(e) \/ Settle(e)
    BY <1>1, <2>2, SentIs, StoryTyped DEF Pending, Settle, story, CallsIInv, Tidy
  <2>3. CASE SettleFails(e)
    BY <1>1, <2>3, SentIs, StoryTyped DEF SettleFails, CallsIInv, Tidy
  <2>. QED
    BY <2>1, <2>2, <2>3 DEF Execution
<1>3. /\ at'[e] \in {"settle", "answer"}
      /\ \A d \in Exec : d # e => at'[d] = at[d]
      /\ \A d \in Exec : at'[d] = "none" => at[d] = "none"
  BY <1>1 DEF Goto, CallsIInv, CallsTypeInv
<1>4. \A d \in Exec : d # e => out'[d] = out[d]
  BY DEF Execution, Skip, Pending, Settle, SettleFails, CallsIInv, CallsTypeInv
<1>5. out'[e].frames \subseteq out'[e].framed
  <2>1. CASE Pending(e)
    <3>1. PICK p, room : p = Push(Undelivered) /\ out' = [out EXCEPT ![e] = Emits(p, room)]
      BY <2>1 DEF Pending
    <3>2. out'[e] = Emits(p, room)
      BY <3>1 DEF CallsIInv, CallsTypeInv
    <3>. QED
      BY <3>2 DEF Emits
  <2>2. CASE UNCHANGED out
    BY <2>2 DEF Tidy, TidyOuts
  <2>. QED
    BY <2>1, <2>2 DEF Execution, Skip, Settle, SettleFails
<1>6. TidyOuts'
  BY <1>1, <1>3, <1>4, <1>5, ExecIs DEF Tidy, TidyOuts
<1>. QED
  BY <1>1, <1>2, <1>6 DEF Tidy

LEMMA TidyCall ==
  ASSUME CallsIInv, Tidy, NEW c \in Client,
         Call(c) \/ Resident(c) \/ OwnAnswer(c) \/ Timeout(c) \/ Crash(c)
  PROVE  Tidy'
<1>1. UNCHANGED <<messages, budget, up>>
  BY DEF Call, Resident, Refuse, TakeTurn, Answer, OwnAnswer, Timeout, Crash
<1>2. sent' \in Nat /\ sent <= sent' /\ UNCHANGED sent
  BY <1>1, SentIs DEF messages, CallsIInv
<1>3. TidyStory'
  <2>1. CASE Call(c)
    BY <1>2, <2>1, StoryTyped DEF Call, CallsIInv, Tidy
  <2>2. CASE Refuse(c) \/ TakeTurn(c) \/ UNCHANGED story
    BY <1>2, <2>2, StoryTyped DEF Refuse, TakeTurn, story, CallsIInv, Tidy
  <2>3. ASSUME NEW e \in Exec, Prints(out[e]) PROVE TidyStory'
    <3>1. UNCHANGED mishaps
      BY <2>3 DEF Prints
    <3>2. out[e].frames \subseteq out[e].framed
      BY DEF Tidy, TidyOuts
    <3>. QED
      BY <1>2, <2>3, <3>1, <3>2, StoryTyped DEF CallsIInv, Tidy
  <2>4. CASE Timeout(c) \/ Crash(c)
    BY <1>2, <2>4, StoryTyped DEF Timeout, Crash, CallsIInv, Tidy
  <2>. QED
    BY <2>1, <2>2, <2>3, <2>4, ExecIs DEF Resident, Answer, OwnAnswer, story
<1>4. TidyOuts'
  <2>1. CASE Call(c)
    <3>1. \A d \in Exec : at[d] = "none" => at'[d] \in {"none", "sent", "push"}
      BY <2>1, ExecIs DEF Call, Goto, CallsIInv, CallsTypeInv
    <3>2. \A d \in Exec : at[d] # "none" => at'[d] = at[d]
      BY <2>1, ExecIs DEF Call, Busy, Goto, CallsIInv, CallsTypeInv
    <3>3. \A d \in Client : client'[d] = "asked" => client[d] = "asked" \/ at'[R(d)] = "sent"
      BY <2>1, ExecIs DEF Call, Goto, CallsIInv, CallsTypeInv
    <3>. QED
      BY <2>1, <3>1, <3>2, <3>3, ExecIs DEF Tidy, TidyOuts, Call
  <2>2. CASE Refuse(c)
    <3>1. \A d \in Exec : at'[d] = at[d] \/ (at'[d] \in {"none", "push"} /\ at[d] \in {"none", "sent"})
      BY <2>2, ExecIs DEF Refuse, Falls, Goto, CallsIInv, CallsTypeInv, OneExecution
    <3>2. \A d \in Client : client'[d] = "asked" => client[d] = "asked" /\ at'[R(d)] = at[R(d)]
      BY <2>2, ExecIs DEF Refuse, Falls, Goto, CallsIInv, CallsTypeInv
    <3>. QED
      BY <2>2, <3>1, <3>2, ExecIs DEF Tidy, TidyOuts, Refuse
  <2>3. CASE TakeTurn(c)
    <3>1. \A d \in Exec : at'[d] = at[d] \/ (at'[d] = "push" /\ at[d] = "sent")
      BY <2>3, ExecIs DEF TakeTurn, Goto, CallsIInv, CallsTypeInv
    <3>. QED
      BY <2>3, <3>1, ExecIs DEF Tidy, TidyOuts, TakeTurn
  <2>4. ASSUME NEW e \in {R(c), O(c)}, Ends(e),
               client'[c] # "asked", \A d \in Client : d # c => client'[d] = client[d]
        PROVE  TidyOuts'
    <3>1. \A d \in Exec : IF d = e THEN at'[d] = "none" /\ out'[d] = Nothing
                          ELSE at'[d] = at[d] /\ out'[d] = out[d]
      BY <2>4, ExecIs DEF Ends, CallsIInv, CallsTypeInv
    <3>2. Nothing.frames \subseteq Nothing.framed
      BY DEF Nothing
    <3>. QED
      BY <2>4, <3>1, <3>2, ExecIs DEF Tidy, TidyOuts
  <2>5. CASE Timeout(c)
    BY <2>5 DEF Timeout, Tidy, TidyOuts, CallsIInv, CallsTypeInv
  <2>6. CASE Answer(c)
    BY <2>4, <2>6 DEF Answer, CallsIInv, CallsTypeInv
  <2>7. CASE OwnAnswer(c) \/ Crash(c)
    BY <2>4, <2>7 DEF OwnAnswer, Crash, CallsIInv, CallsTypeInv
  <2>. QED
    BY <2>1, <2>2, <2>3, <2>5, <2>6, <2>7 DEF Resident
<1>. QED
  BY <1>1, <1>3, <1>4 DEF messages, Tidy

LEMMA TidyResident ==
  ASSUME CallsIInv, Tidy, Stop \/ Serve
  PROVE  Tidy'
<1>1. UNCHANGED <<messages, budget, out>> /\ up' \in BOOLEAN
  BY DEF Stop, Serve
<1>2. sent' \in Nat /\ sent <= sent'
  BY <1>1, SentIs DEF messages, CallsIInv
<1>3. CASE Serve
  BY <1>1, <1>3 DEF Serve, Tidy, TidyOuts, TidyStory, messages, story
<1>4. CASE Stop
  <2> DEFINE asked == {c \in Client : client[c] = "asked"}
  <2>1. PICK begun \in SUBSET {c \in Client : at[R(c)] = "sent"} :
          LET goes == begun \cup {c \in Client : Running(R(c))}
          IN /\ client' = [c \in Client |-> IF c \in asked THEN "own" ELSE client[c]]
             /\ at' = [e \in Exec |->
                         IF e[1] = "own" THEN IF e[2] \in asked THEN "push" ELSE at[e]
                         ELSE IF e[2] \in goes THEN at[e] ELSE "none"]
             /\ Notes(goes \cap asked # {}, goes \cap asked # {})
             /\ IF goes \cap asked # {} THEN Mishap ELSE NoMishap
    BY <1>4 DEF Stop
  <2> DEFINE goes == begun \cup {c \in Client : Running(R(c))}
  <2>2. TidyStory'
    <3>1. (goes \cap asked # {}) \in BOOLEAN
      OBVIOUS
    <3>2. Notes(goes \cap asked # {}, goes \cap asked # {}) /\ (Mishap \/ NoMishap)
      BY <2>1
    <3>. HIDE DEF goes, asked
    <3>. QED
      BY <1>2, <3>1, <3>2, StoryTyped DEF CallsIInv, Tidy
  <2>3. \A c \in Client : /\ at'[R(c)] = IF c \in goes THEN at[R(c)] ELSE "none"
                          /\ at'[O(c)] = IF c \in asked THEN "push" ELSE at[O(c)]
                          /\ client'[c] = IF c \in asked THEN "own" ELSE client[c]
    BY <2>1, ExecIs, StopParts
  <2>4. \A c \in Client : c \notin goes => at[R(c)] \in {"none", "sent"}
    BY ExecIs DEF Running, CallsIInv, CallsTypeInv, Steps
  <2>5. \A c \in asked : at[O(c)] = "none"
    BY DEF CallsIInv, OneExecution
  <2>6. \A c \in Client : client'[c] # "asked"
    BY <2>3
  <2>7. \A e \in Exec : at'[e] \in {"none", "sent", "push"} => out[e] = Nothing
    <3>1. ASSUME NEW c \in Client, at'[R(c)] \in {"none", "sent", "push"} PROVE out[R(c)] = Nothing
      BY <2>3, <2>4, <3>1, ExecIs DEF Tidy, TidyOuts
    <3>2. ASSUME NEW c \in Client, at'[O(c)] \in {"none", "sent", "push"} PROVE out[O(c)] = Nothing
      BY <2>3, <2>5, <3>2, ExecIs DEF Tidy, TidyOuts
    <3>. QED
      BY <3>1, <3>2, ExecIs
  <2>8. TidyOuts'
    BY <1>1, <2>6, <2>7 DEF Tidy, TidyOuts
  <2>. QED
    BY <1>1, <2>2, <2>8 DEF Tidy, messages
<1>. QED
  BY <1>3, <1>4

LEMMA TidyInit == Init => Tidy
<1>. SUFFICES ASSUME Init PROVE Tidy
  OBVIOUS
<1>1. /\ \A e \in Exec : out[e] = Nothing /\ at[e] = "none"
      /\ \A c \in Client : client[c] = "idle"
  BY DEF Init
<1>2. Nothing.frames \subseteq Nothing.framed
  BY DEF Nothing
<1>3. TidyStory
  <2>1. 0 \in 0..MaxMishaps /\ 0 \in 0..0
    BY HookCallsAssumption
  <2>. QED
    BY <2>1 DEF Init, MessagesInit, TidyStory
<1>4. TidyOuts
  BY <1>1, <1>2 DEF TidyOuts
<1>. QED
  BY <1>3, <1>4 DEF Init, MessagesInit, Tidy

LEMMA TidyNext == CallsIInv /\ Tidy /\ [Next]_vars => Tidy'
<1>. SUFFICES ASSUME CallsIInv, Tidy, [Next]_vars PROVE Tidy'
  OBVIOUS
<1>1. CASE UNCHANGED vars
  BY <1>1 DEF Tidy, TidyOuts, TidyStory, vars, messages, calls, story
<1>2. CASE Next
  BY <1>2, TidyStore, TidyExecution, TidyCall, TidyResident DEF Next
<1>. QED
  BY <1>1, <1>2

LEMMA TypeIs == CallsIInv /\ Tidy => TypeOK
BY DEF CallsIInv, CallsTypeInv, Tidy, TidyOuts, TidyStory, TypeOK

\* Every variable keeps its type, and the newest frame shown is one that was sent.
THEOREM TypeCorrect == Spec => []TypeOK
<1>. QED
  BY CallsInvariant, TidyInit, TidyNext, TypeIs, PTL DEF Spec

-----------------------------------------------------------------------------
(* Messages are seen in send order.                                          *)

\* While calls have not overlapped, one execution is under way and no inbox call beside it.
OneAtWork ==
  /\ \A e, f \in Exec : at[e] # "none" /\ at[f] # "none" => e = f
  /\ (\E e \in Exec : at[e] # "none") => inbox = {}

\* What will wait when e has settled.
Waiting(e) == IF at[e] = "settle" THEN Undelivered \ Settled(out[e]) ELSE Undelivered

\* Frames on their way are newer than all that were shown, older than all that wait, and not
\* among what the agent read by itself.
InTurn(e) ==
  at[e] \in {"settle", "answer"} =>
    \A f \in out[e].frames : last < f /\ f \notin listed /\ \A m \in Waiting(e) : f < m

InTurns == /\ OneAtWork
           /\ \A m \in Undelivered : last < m
           /\ \A e \in Exec : InTurn(e)

OrderOK == Ample => ~mixed /\ (~rough => InTurns)

OrderPre == CallsIInv /\ Tidy /\ OrderOK

\* The history of a step that prints nothing.
LEMMA OrderNotes ==
  ASSUME OrderPre, UNCHANGED budget,
         UNCHANGED <<last, mixed, rough>> \/ (\E r, l \in BOOLEAN : Notes(r, l)),
         ~rough' => ((Ample /\ ~rough /\ InTurns /\ UNCHANGED last) => InTurns')
  PROVE  OrderOK'
BY DEF OrderPre, OrderOK, Ample, Notes, Tidy, TidyStory

LEMMA OutsSent ==
  ASSUME OrderPre
  PROVE  \A e \in Exec : out[e].frames \subseteq 1..sent
BY DEF OrderPre, CallsIInv, CallsTypeInv, Tidy, TidyOuts

LEMMA OrderStore ==
  ASSUME OrderPre,
         \/ (Send \/ InboxMark \/ InboxFails) /\ UNCHANGED <<budget, calls, story>>
         \/ Reads
  PROVE  OrderOK'
<1>1. CASE Send /\ UNCHANGED <<budget, calls, story>>
  <2>1. /\ UNCHANGED <<budget, at, out, last, mixed, rough, inbox, listed, delivered>>
        /\ sent' = sent + 1 /\ sent \in Nat
    BY <1>1, SentIs DEF Send, calls, story, OrderPre, CallsIInv
  <2>2. \A m \in Undelivered' : m \in Undelivered \/ m = sent + 1
    BY <2>1 DEF Undelivered
  <2>3. last \in 0..sent
    BY DEF OrderPre, Tidy, TidyStory
  <2>4. ASSUME InTurns PROVE InTurns'
    <3>1. OneAtWork'
      BY <2>1, <2>4 DEF InTurns, OneAtWork
    <3>2. \A m \in Undelivered' : last < m
      BY <2>1, <2>2, <2>3, <2>4 DEF InTurns
    <3>3. ASSUME NEW e \in Exec PROVE InTurn(e)'
      <4>1. \A m \in Waiting(e)' : m \in Waiting(e) \/ m = sent + 1
        BY <2>1, <2>2 DEF Waiting
      <4>2. \A f \in out[e].frames : f < sent + 1
        BY <2>1, OutsSent
      <4>3. InTurn(e)
        BY <2>4 DEF InTurns
      <4>. QED
        BY <2>1, <4>1, <4>2, <4>3 DEF InTurn
    <3>. QED
      BY <2>1, <3>1, <3>2, <3>3 DEF InTurns
  <2>. QED
    BY <2>1, <2>4, OrderNotes
<1>2. CASE (InboxMark \/ InboxFails) /\ UNCHANGED <<budget, calls, story>>
  <2>1. /\ UNCHANGED <<budget, at, last, mixed, rough, sent>>
        /\ inbox # {} /\ delivered \subseteq delivered'
    BY <1>2 DEF InboxMark, InboxFails, calls, story
  <2>2. Undelivered' \subseteq Undelivered
    BY <2>1 DEF Undelivered
  <2>3. ASSUME InTurns PROVE InTurns'
    <3>1. \A e \in Exec : at[e] = "none"
      BY <2>1, <2>3 DEF InTurns, OneAtWork
    <3>2. \A m \in Undelivered' : last' < m
      BY <2>1, <2>2, <2>3 DEF InTurns
    <3>. QED
      BY <2>1, <3>1, <3>2 DEF InTurns, OneAtWork, InTurn
  <2>. QED
    BY <2>1, <2>3, OrderNotes
<1>3. CASE Reads
  <2>1. /\ UNCHANGED <<budget, at, delivered, sent>>
        /\ Notes(\E c \in Client : Busy(c), FALSE)
    BY <1>3 DEF Reads, InboxLoad, calls
  <2>2. ASSUME ~rough', InTurns, UNCHANGED last PROVE InTurns'
    <3>1. \A c \in Client : ~Busy(c)
      BY <2>1, <2>2 DEF Notes
    <3>2. \A e \in Exec : at[e] = "none"
      BY <3>1, ExecIs DEF Busy
    <3>3. \A m \in Undelivered' : last' < m
      BY <2>1, <2>2 DEF InTurns, Undelivered
    <3>. QED
      BY <2>1, <3>2, <3>3 DEF InTurns, OneAtWork, InTurn
  <2>. QED
    BY <2>1, <2>2, OrderNotes
<1>. QED
  BY <1>1, <1>2, <1>3

LEMMA OrderSkip ==
  ASSUME OrderPre, NEW e \in Exec, Skip(e)
  PROVE  OrderOK'
<1>1. /\ UNCHANGED <<messages, budget, out, last, mixed, rough>>
      /\ at[e] = "push" /\ at' = [at EXCEPT ![e] = "answer"]
  BY DEF Skip, Goto, story
<1>2. /\ at'[e] = "answer" /\ \A d \in Exec : d # e => at'[d] = at[d]
  BY <1>1 DEF OrderPre, CallsIInv, CallsTypeInv
<1>3. out[e].frames = {}
  BY <1>1 DEF OrderPre, Tidy, TidyOuts, Nothing
<1>4. ASSUME InTurns PROVE InTurns'
  <2>1. \A d \in Exec : d # e => at[d] = "none"
    BY <1>1, <1>4 DEF InTurns, OneAtWork
  <2>2. \A d \in Exec : InTurn(d)'
    BY <1>1, <1>2, <1>3, <2>1 DEF InTurn
  <2>. QED
    BY <1>1, <1>2, <1>4, <2>1, <2>2 DEF InTurns, OneAtWork, Undelivered, messages
<1>. QED
  BY <1>1, <1>4, OrderNotes

\* What is read now is newer than all that was shown, and what of it is emitted is older than
\* the rest.
LEMMA OrderPending ==
  ASSUME OrderPre, NEW e \in Exec, Pending(e)
  PROVE  OrderOK'
<1>1. /\ UNCHANGED <<messages, budget, last, mixed, rough>>
      /\ at[e] = "push" /\ at' = [at EXCEPT ![e] = "settle"]
  BY DEF Pending, Goto, story
<1>2. /\ at'[e] = "settle" /\ \A d \in Exec : d # e => at'[d] = at[d]
  BY <1>1 DEF OrderPre, CallsIInv, CallsTypeInv
<1>3. PICK o \in Others : \E room \in {OnPrompt(PushLength(Push(Undelivered)), o),
                                       AfterTool(PushLength(Push(Undelivered)), o)} :
        out' = [out EXCEPT ![e] = Emits(Push(Undelivered), room)]
  BY DEF Pending
<1>4. PICK room \in {OnPrompt(PushLength(Push(Undelivered)), o),
                     AfterTool(PushLength(Push(Undelivered)), o)} :
        out' = [out EXCEPT ![e] = Emits(Push(Undelivered), room)]
  BY <1>3
<1>5. out'[e] = Emits(Push(Undelivered), room)
  BY <1>4 DEF OrderPre, CallsIInv, CallsTypeInv
<1>6. ASSUME Ample, InTurns PROVE InTurns'
  <2>1. \A d \in Exec : d # e => at[d] = "none"
    BY <1>1, <1>6 DEF InTurns, OneAtWork
  <2>2. MessagesTypeOK /\ budget \in Budgets[length] /\ Undelivered \in SUBSET (1..sent)
    BY DEF OrderPre, CallsIInv, CallsTypeInv, Tidy, Undelivered
  <2>3. /\ out'[e].frames \subseteq Undelivered
        /\ \A m \in Undelivered \ Settled(out'[e]), f \in out'[e].frames : f < m
    BY <1>5, <1>6, <2>2, PushWhole
  <2>4. UNCHANGED Undelivered /\ listed \cap Undelivered = {}
    BY <1>1 DEF Undelivered, messages, OrderPre, Tidy
  <2>5. \A m \in Undelivered : last < m
    BY <1>6 DEF InTurns
  <2>6. Waiting(e)' = Undelivered \ Settled(out'[e])
    BY <1>2, <2>4 DEF Waiting
  <2>7. InTurn(e)'
    BY <1>1, <2>3, <2>4, <2>5, <2>6 DEF InTurn, messages
  <2>8. \A d \in Exec : d # e => InTurn(d)'
    BY <1>2, <2>1 DEF InTurn
  <2>. QED
    BY <1>1, <1>2, <1>6, <2>1, <2>4, <2>5, <2>7, <2>8 DEF InTurns, OneAtWork, messages
<1>. QED
  BY <1>1, <1>6, OrderNotes

LEMMA OrderSettle ==
  ASSUME OrderPre, NEW e \in Exec, Settle(e)
  PROVE  OrderOK'
<1>1. /\ UNCHANGED <<sent, inbox, listed, budget, out, last, mixed, rough>>
      /\ at[e] = "settle" /\ at' = [at EXCEPT ![e] = "answer"]
      /\ delivered' = delivered \cup Settled(out[e])
  BY DEF Settle, MarkDelivered, Goto, story
<1>2. /\ at'[e] = "answer" /\ \A d \in Exec : d # e => at'[d] = at[d]
  BY <1>1 DEF OrderPre, CallsIInv, CallsTypeInv
<1>3. ASSUME InTurns PROVE InTurns'
  <2>1. \A d \in Exec : d # e => at[d] = "none"
    BY <1>1, <1>3 DEF InTurns, OneAtWork
  <2>2. Undelivered' = Waiting(e) /\ Waiting(e)' = Waiting(e) /\ Undelivered' \subseteq Undelivered
    BY <1>1, <1>2 DEF Undelivered, Waiting
  <2>3. InTurn(e)'
    BY <1>1, <1>3, <2>2 DEF InTurns, InTurn
  <2>4. \A d \in Exec : d # e => InTurn(d)'
    BY <1>2, <2>1 DEF InTurn
  <2>. QED
    BY <1>1, <1>2, <1>3, <2>1, <2>2, <2>3, <2>4 DEF InTurns, OneAtWork
<1>. QED
  BY <1>1, <1>3, OrderNotes

\* What is printed is newer than all before it, and nothing is under way after it.
LEMMA OrderPrints ==
  ASSUME OrderPre, NEW e \in Exec, at[e] = "answer", Ends(e), Prints(out[e]),
         UNCHANGED <<messages, budget>>
  PROVE  OrderOK'
<1>1. at'[e] = "none" /\ \A d \in Exec : d # e => at'[d] = at[d]
  BY DEF Ends, OrderPre, CallsIInv, CallsTypeInv
<1>2. (Ample' <=> Ample) /\ UNCHANGED <<Undelivered, rough>>
  BY DEF Ample, Undelivered, messages, Prints
<1>3. CASE ~Ample \/ rough
  <2>1. rough => ~mixed' /\ rough'
    <3>1. mixed' = (~rough /\ (mixed \/ \E m \in out[e].frames : m <= last \/ m \in listed))
      BY DEF Prints
    <3>2. rough => mixed' = FALSE
      BY <3>1
    <3>. QED
      BY <1>2, <3>2
  <2>. QED
    BY <1>2, <1>3, <2>1 DEF OrderOK
<1>4. CASE Ample /\ ~rough
  <2> DEFINE fs == out[e].frames
             S == {last} \cup fs
  <2>1. InTurns /\ ~mixed
    BY <1>4 DEF OrderPre, OrderOK
  <2>2. \A f \in fs : last < f /\ f \notin listed /\ \A m \in Undelivered : f < m
    BY <2>1 DEF InTurns, InTurn, Waiting
  <2>3. last \in Nat /\ fs \subseteq Nat /\ IsFiniteSet(S) /\ S \subseteq Nat
    <3>1. last \in 0..sent /\ sent \in Nat
      BY SentIs DEF OrderPre, Tidy, TidyStory, CallsIInv
    <3>2. fs \subseteq 1..sent
      BY OutsSent
    <3>3. IsFiniteSet(fs)
      <4>1. IsFiniteSet(1..sent)
        BY <3>1, FS_Interval
      <4>. QED
        BY <3>2, <4>1, FS_Subset
    <3>4. IsFiniteSet(S)
      BY <3>3, FS_AddElement
    <3>. QED
      BY <3>1, <3>2, <3>4
  <2>4. Max(S) \in S
    BY <2>3, MaxIn
  <2>5. last' = Max(S) /\ mixed' = FALSE
    <3>1. \A f \in fs : ~(f <= last \/ f \in listed)
      BY <2>2, <2>3
    <3>. QED
      BY <1>4, <2>1, <3>1 DEF Prints
  <2>6. \A m \in Undelivered' : last' < m
    BY <1>2, <2>1, <2>2, <2>4, <2>5 DEF InTurns
  <2>7. \A d \in Exec : at'[d] = "none"
    BY <1>1, <1>4, <2>1 DEF InTurns, OneAtWork
  <2>8. InTurns'
    BY <2>6, <2>7 DEF InTurns, OneAtWork, InTurn
  <2>. QED
    BY <2>5, <2>8 DEF OrderOK
<1>. QED
  BY <1>3, <1>4

\* An execution ends and prints nothing.
LEMMA OrderEnds ==
  ASSUME OrderPre, NEW e \in Exec, at[e] # "none", Ends(e), UNCHANGED <<messages, budget>>,
         UNCHANGED <<last, mixed, rough>> \/ (\E r, l \in BOOLEAN : Notes(r, l))
  PROVE  OrderOK'
<1>1. at'[e] = "none" /\ \A d \in Exec : d # e => at'[d] = at[d]
  BY DEF Ends, OrderPre, CallsIInv, CallsTypeInv
<1>2. ASSUME InTurns, UNCHANGED last PROVE InTurns'
  <2>1. \A d \in Exec : at'[d] = "none"
    BY <1>1, <1>2 DEF InTurns, OneAtWork
  <2>. QED
    BY <1>2, <2>1 DEF InTurns, OneAtWork, InTurn, Undelivered, messages
<1>. QED
  BY <1>2, OrderNotes

\* An execution begins, or begins elsewhere.
LEMMA OrderBegins ==
  ASSUME OrderPre, NEW e \in Exec, at'[e] \in {"none", "sent", "push"},
         ~rough' => inbox = {} \/ at'[e] = "none",
         ~rough' /\ ~rough /\ InTurns => \A d \in Exec : d # e => at'[d] = "none",
         UNCHANGED <<messages, budget>>,
         UNCHANGED <<last, mixed, rough>> \/ (\E r, l \in BOOLEAN : Notes(r, l))
  PROVE  OrderOK'
<1>1. ASSUME ~rough', ~rough, InTurns, UNCHANGED last PROVE InTurns'
  <2>1. \A d \in Exec : d # e => at'[d] = "none"
    BY <1>1
  <2>. QED
    BY <1>1, <2>1 DEF InTurns, OneAtWork, InTurn, Undelivered, messages
<1>. QED
  BY <1>1, OrderNotes

LEMMA OrderCall ==
  ASSUME OrderPre, NEW c \in Client,
         Call(c) \/ Resident(c) \/ OwnAnswer(c) \/ Timeout(c) \/ Crash(c)
  PROVE  OrderOK'
<1>1. at \in [Exec -> Steps] /\ R(c) \in Exec /\ O(c) \in Exec /\ R(c) # O(c)
  BY ExecIs DEF OrderPre, CallsIInv, CallsTypeInv
<1>2. CASE Call(c)
  <2> DEFINE over == \E d \in Client : Busy(d) \/ inbox # {}
  <2>1. Notes(over, FALSE) /\ over \in BOOLEAN /\ UNCHANGED <<messages, budget>>
    BY <1>2 DEF Call
  <2>2. ~rough' => inbox = {} /\ \A d \in Exec : at[d] = "none"
    <3>1. ~rough' => ~over
      BY <2>1 DEF Notes
    <3>2. ~over => inbox = {} /\ \A d \in Client : at[R(d)] = "none" /\ at[O(d)] = "none"
      BY DEF Busy
    <3>. QED
      BY <3>1, <3>2, ExecIs
  <2>3. \E e \in Exec : at'[e] \in {"sent", "push"} /\ \A d \in Exec : d # e => at'[d] = at[d]
    BY <1>1, <1>2 DEF Call, Goto
  <2>. HIDE DEF over
  <2>. QED
    BY <2>1, <2>2, <2>3, OrderBegins
<1>3. CASE Refuse(c)
  <2>1. at[R(c)] = "sent" /\ UNCHANGED <<messages, budget, last, mixed, rough>>
    BY <1>3 DEF Refuse, story
  <2>2. ~rough /\ InTurns => inbox = {} /\ \A d \in Exec : d # R(c) => at[d] = "none"
    BY <1>1, <2>1 DEF InTurns, OneAtWork
  <2>3. CASE at' = [at EXCEPT ![R(c)] = "none", ![O(c)] = "push"]
    <3>1. at'[O(c)] = "push" /\ at'[R(c)] = "none"
          /\ \A d \in Exec : d # O(c) /\ d # R(c) => at'[d] = at[d]
      BY <1>1, <2>3
    <3>2. ASSUME ~rough, InTurns PROVE InTurns'
      <4>1. \A d \in Exec : d # O(c) => at'[d] = "none"
        BY <2>2, <3>1, <3>2
      <4>. QED
        BY <2>1, <2>2, <3>1, <3>2, <4>1 DEF InTurns, OneAtWork, InTurn, Undelivered, messages
    <3>. QED
      BY <2>1, <3>2, OrderNotes
  <2>4. CASE at' = [at EXCEPT ![R(c)] = "none"]
    <3>1. at'[R(c)] = "none" /\ \A d \in Exec : d # R(c) => at'[d] = at[d]
      BY <1>1, <2>4
    <3>. QED
      BY <1>1, <2>1, <2>2, <3>1, OrderBegins
  <2>. QED
    BY <1>3, <2>3, <2>4 DEF Refuse, Goto
<1>4. CASE TakeTurn(c)
  <2>1. at[R(c)] = "sent" /\ at' = [at EXCEPT ![R(c)] = "push"]
        /\ UNCHANGED <<messages, budget, last, mixed, rough>>
    BY <1>4 DEF TakeTurn, Goto, story
  <2>2. at'[R(c)] = "push" /\ \A d \in Exec : d # R(c) => at'[d] = at[d]
    BY <1>1, <2>1
  <2>3. ASSUME InTurns PROVE InTurns'
    <3>1. inbox = {} /\ \A d \in Exec : d # R(c) => at'[d] = "none"
      BY <1>1, <2>1, <2>2, <2>3 DEF InTurns, OneAtWork
    <3>. QED
      BY <2>1, <2>2, <2>3, <3>1 DEF InTurns, OneAtWork, InTurn, Undelivered, messages
  <2>. QED
    BY <2>1, <2>3, OrderNotes
<1>5. CASE Answer(c)
  BY <1>1, <1>5, OrderPrints, OrderEnds DEF Answer, story
<1>6. CASE OwnAnswer(c)
  BY <1>1, <1>6, OrderPrints DEF OwnAnswer
<1>7. CASE Crash(c)
  BY <1>1, <1>7, OrderEnds DEF Crash
<1>8. CASE Timeout(c)
  <2>1. UNCHANGED <<messages, budget, at, out>> /\ Notes(FALSE, TRUE)
    BY <1>8 DEF Timeout
  <2>2. ASSUME InTurns, UNCHANGED last PROVE InTurns'
    BY <2>1, <2>2 DEF InTurns, OneAtWork, InTurn, Waiting, Undelivered, messages
  <2>. QED
    BY <2>1, <2>2, OrderNotes
<1>. QED
  BY <1>2, <1>3, <1>4, <1>5, <1>6, <1>7, <1>8 DEF Resident
\* A resident that stops hands the one call under way to its client, or lets it go on.
LEMMA OrderResident ==
  ASSUME OrderPre, Stop \/ Serve
  PROVE  OrderOK'
<1>1. CASE Serve
  <2>1. UNCHANGED <<messages, budget, at, out, last, mixed, rough>>
    BY <1>1 DEF Serve, story
  <2>. QED
    BY <2>1 DEF OrderPre, OrderOK, Ample, InTurns, OneAtWork, InTurn, Waiting, Undelivered, messages
<1>2. CASE Stop
  <2> DEFINE asked == {c \in Client : client[c] = "asked"}
  <2>1. PICK begun \in SUBSET {c \in Client : at[R(c)] = "sent"} :
          LET goes == begun \cup {c \in Client : Running(R(c))}
          IN /\ at' = [e \in Exec |->
                         IF e[1] = "own" THEN IF e[2] \in asked THEN "push" ELSE at[e]
                         ELSE IF e[2] \in goes THEN at[e] ELSE "none"]
             /\ Notes(goes \cap asked # {}, goes \cap asked # {})
    BY <1>2 DEF Stop
  <2> DEFINE goes == begun \cup {c \in Client : Running(R(c))}
  <2>2. \A c \in Client : /\ at'[R(c)] = IF c \in goes THEN at[R(c)] ELSE "none"
                          /\ at'[O(c)] = IF c \in asked THEN "push" ELSE at[O(c)]
    BY <2>1, ExecIs, StopParts
  <2>3. UNCHANGED <<messages, budget, out>>
    BY <1>2 DEF Stop
  <2>4. asked \subseteq Client /\ goes \subseteq Client
        /\ \A c \in asked : at[R(c)] # "none"
    BY DEF OrderPre, Tidy, TidyOuts
  <2>5. Notes(goes \cap asked # {}, goes \cap asked # {}) /\ (goes \cap asked # {}) \in BOOLEAN
    BY <2>1
  <2>. HIDE DEF goes, asked
  <2>6. ASSUME ~rough', ~rough, InTurns, UNCHANGED last PROVE InTurns'
    <3>1. goes \cap asked = {}
      BY <2>5, <2>6 DEF Notes
    <3>2. \A e, f \in Exec : at[e] # "none" /\ at[f] # "none" => e = f
      BY <2>6 DEF InTurns, OneAtWork
    <3>3. CASE asked = {}
      <4>1. \A e \in Exec : at'[e] = at[e] \/ at'[e] = "none"
        BY <2>2, <3>3, ExecIs
      <4>. QED
        BY <2>3, <2>6, <4>1 DEF InTurns, OneAtWork, InTurn, Waiting, Undelivered, messages
    <3>4. ASSUME NEW c \in asked PROVE InTurns'
      <4>1. \A e \in Exec : e # R(c) => at[e] = "none"
        BY <2>4, <3>2, ExecIs
      <4>2. \A d \in asked : d = c
        BY <2>4, <4>1, ExecIs
      <4>3. at'[O(c)] = "push" /\ at'[R(c)] = "none"
        BY <2>2, <2>4, <3>1
      <4>4. \A d \in Client : d # c => at'[R(d)] = "none" /\ at'[O(d)] = "none"
        BY <2>2, <4>1, <4>2, ExecIs
      <4>5. \A e \in Exec : e # O(c) => at'[e] = "none"
        BY <4>3, <4>4, ExecIs
      <4>6. inbox = {}
        BY <2>4, <2>6, ExecIs DEF InTurns, OneAtWork
      <4>. QED
        BY <2>3, <2>4, <2>6, <4>3, <4>5, <4>6, ExecIs
           DEF InTurns, OneAtWork, InTurn, Undelivered, messages
    <3>. QED
      BY <3>3, <3>4
  <2>. QED
    BY <2>3, <2>5, <2>6, OrderNotes
<1>. QED
  BY <1>1, <1>2

LEMMA OrderInit == Init => OrderOK
<1>. SUFFICES ASSUME Init PROVE OrderOK
  OBVIOUS
<1>1. \A e \in Exec : at[e] = "none"
  BY DEF Init
<1>2. Undelivered = {}
  BY DEF Init, MessagesInit, Undelivered
<1>. QED
  BY <1>1, <1>2 DEF Init, OrderOK, InTurns, OneAtWork, InTurn

LEMMA OrderNext == CallsIInv /\ Tidy /\ OrderOK /\ [Next]_vars => OrderOK'
<1>. SUFFICES ASSUME OrderPre, [Next]_vars PROVE OrderOK'
  BY DEF OrderPre
<1>1. CASE UNCHANGED vars
  <2>1. UNCHANGED <<messages, budget, at, out, last, mixed, rough>>
    BY <1>1 DEF vars, calls, story
  <2>. QED
    BY <2>1 DEF OrderPre, OrderOK, Ample, InTurns, OneAtWork, InTurn, Waiting, Undelivered, messages
<1>2. ASSUME NEW e \in Exec, Execution(e) PROVE OrderOK'
  <2>1. CASE SettleFails(e)
    <3>1. rough' /\ ~mixed'
      BY <2>1 DEF SettleFails, Notes
    <3>. QED
      BY <3>1 DEF OrderOK
  <2>. QED
    BY <1>2, <2>1, OrderSkip, OrderPending, OrderSettle DEF Execution
<1>3. CASE Next
  BY <1>2, <1>3, OrderStore, OrderCall, OrderResident DEF Next
<1>. QED
  BY <1>1, <1>3

\* While calls do not overlap and marks do not fail, and the budget is ample, the agent sees
\* each message once and in send order, and none that it has read by itself
\* (hooks/push.rs fit and settle, store/messages.rs pending).
THEOREM SeenInSendOrder == Spec => []InSendOrder
<1>1. OrderOK => InSendOrder
  BY DEF OrderOK, InSendOrder
<1>. QED
  BY <1>1, CallsInvariant, TidyInit, TidyNext, OrderInit, OrderNext, PTL DEF Spec

-----------------------------------------------------------------------------
(* Every push gets further.                                                  *)

\* What is about to be settled is something, and nothing that is marked already.
Advances(e) == at[e] = "settle" => /\ Settled(out[e]) # {}
                                   /\ ~rough => Settled(out[e]) \subseteq Undelivered

PushAdvances == Ample => \A e \in Exec : Advances(e)

\* Who comes to a settle has read what to push, and only marks take from what waits.
LEMMA SettlesNext ==
  ASSUME OrderPre, [Next]_vars, NEW e \in Exec, at'[e] = "settle"
  PROVE  /\ budget' = budget /\ (rough => rough')
         /\ Pending(e) \/ (at[e] = "settle" /\ out'[e] = out[e])
         /\ \/ Undelivered \subseteq Undelivered'
            \/ at[e] = "settle" /\ inbox # {}
            \/ \E d \in Exec : d # e /\ at[d] = "settle" /\ at[e] = "settle"
<1>0. /\ at \in [Exec -> Steps] /\ out \in [Exec -> Outs] /\ rough \in BOOLEAN
  BY DEF OrderPre, CallsIInv, CallsTypeInv, Tidy, TidyStory
<1>1. CASE UNCHANGED vars
  BY <1>1 DEF vars, calls, story, messages, Undelivered
<1>2. CASE Send /\ UNCHANGED <<budget, calls, story>>
  <2>1. sent \in Nat /\ sent' = sent + 1 /\ UNCHANGED <<delivered, at, out, rough, budget>>
    BY <1>2, SentIs DEF Send, calls, story, OrderPre, CallsIInv
  <2>2. Undelivered \subseteq Undelivered'
    BY <2>1 DEF Undelivered
  <2>. QED
    BY <2>1, <2>2
<1>3. CASE (InboxMark \/ InboxFails) /\ UNCHANGED <<budget, calls, story>>
  BY <1>3 DEF InboxMark, InboxFails, calls, story
<1>4. CASE Reads
  <2>1. UNCHANGED <<delivered, sent, at, out, budget>> /\ (rough => rough')
    BY <1>4 DEF Reads, InboxLoad, calls, Notes
  <2>. QED
    BY <2>1 DEF Undelivered
<1>5. ASSUME UNCHANGED <<messages, budget>>, rough => rough',
             \A d \in Exec : at'[d] = "settle" => at[d] = "settle" /\ out'[d] = out[d]
      PROVE  /\ budget' = budget /\ (rough => rough')
             /\ Pending(e) \/ (at[e] = "settle" /\ out'[e] = out[e])
             /\ Undelivered \subseteq Undelivered'
  BY <1>5 DEF messages, Undelivered
<1>6. ASSUME NEW c \in Client, Call(c) \/ Resident(c) \/ OwnAnswer(c) \/ Timeout(c) \/ Crash(c)
      PROVE  /\ UNCHANGED <<messages, budget>> /\ (rough => rough')
             /\ \A d \in Exec : at'[d] = "settle" => at[d] = "settle" /\ out'[d] = out[d]
  <2>1. R(c) \in Exec /\ O(c) \in Exec
    BY ExecIs
  <2>2. CASE Call(c)
    <3>1. UNCHANGED <<messages, budget, out>> /\ (rough => rough')
      BY <2>2 DEF Call, Notes
    <3>2. \A d \in Exec : at'[d] = "settle" => at[d] = "settle"
      BY <1>0, <2>1, <2>2 DEF Call, Goto
    <3>. QED
      BY <3>1, <3>2
  <2>3. CASE Refuse(c) \/ TakeTurn(c)
    <3>1. UNCHANGED <<messages, budget, out, rough>>
      BY <2>3 DEF Refuse, TakeTurn, story
    <3>2. \A d \in Exec : at'[d] = "settle" => at[d] = "settle"
      BY <1>0, <2>1, <2>3 DEF Refuse, TakeTurn, Goto
    <3>. QED
      BY <3>1, <3>2
  <2>4. CASE Answer(c) \/ OwnAnswer(c) \/ Crash(c)
    <3>1. UNCHANGED <<messages, budget>> /\ (rough => rough')
      <4>1. CASE Answer(c)
        BY <4>1 DEF Answer, Prints, story
      <4>2. CASE OwnAnswer(c)
        BY <4>2 DEF OwnAnswer, Prints
      <4>3. CASE Crash(c)
        BY <1>0, <4>3 DEF Crash, Notes
      <4>. QED
        BY <2>4, <4>1, <4>2, <4>3
    <3>2. PICK g \in Exec : Ends(g)
      BY <2>1, <2>4 DEF Answer, OwnAnswer, Crash
    <3>3. \A d \in Exec : d # g => at'[d] = at[d] /\ out'[d] = out[d]
      BY <1>0, <3>2 DEF Ends
    <3>4. at'[g] = "none"
      BY <1>0, <3>2 DEF Ends
    <3>5. \A d \in Exec : at'[d] = "settle" => at[d] = "settle" /\ out'[d] = out[d]
      BY <3>3, <3>4
    <3>. QED
      BY <3>1, <3>5
  <2>5. CASE Timeout(c)
    BY <1>0, <2>5 DEF Timeout, Notes
  <2>. QED
    BY <1>6, <2>2, <2>3, <2>4, <2>5 DEF Resident
<1>7. ASSUME NEW d \in Exec, Skip(d) \/ SettleFails(d)
      PROVE  /\ UNCHANGED <<messages, budget>> /\ (rough => rough')
             /\ \A g \in Exec : at'[g] = "settle" => at[g] = "settle" /\ out'[g] = out[g]
  <2>1. UNCHANGED <<messages, budget, out>> /\ (rough => rough') /\ at' = [at EXCEPT ![d] = "answer"]
    <3>1. CASE Skip(d)
      BY <3>1 DEF Skip, Goto, story
    <3>2. CASE SettleFails(d)
      BY <1>0, <3>2 DEF SettleFails, Goto, Notes
    <3>. QED
      BY <1>7, <3>1, <3>2
  <2>. QED
    BY <1>0, <2>1
<1>8. ASSUME NEW d \in Exec, Pending(d)
      PROVE  /\ UNCHANGED <<messages, budget, rough>>
             /\ \A g \in Exec : g # d => at'[g] = at[g] /\ out'[g] = out[g]
  <2>1. UNCHANGED <<messages, budget, rough>> /\ at' = [at EXCEPT ![d] = "settle"]
    BY <1>8 DEF Pending, Goto, story
  <2>2. PICK o \in Others : \E room \in {OnPrompt(PushLength(Push(Undelivered)), o),
                                         AfterTool(PushLength(Push(Undelivered)), o)} :
          out' = [out EXCEPT ![d] = Emits(Push(Undelivered), room)]
    BY <1>8 DEF Pending
  <2>. QED
    BY <1>0, <2>1, <2>2
<1>9. ASSUME NEW d \in Exec, Settle(d)
      PROVE  /\ UNCHANGED <<budget, rough, out>> /\ at[d] = "settle" /\ at'[d] # "settle"
             /\ \A g \in Exec : g # d => at'[g] = at[g]
  <2>1. UNCHANGED <<budget, rough, out>> /\ at[d] = "settle" /\ at' = [at EXCEPT ![d] = "answer"]
    BY <1>9 DEF Settle, Goto, story
  <2>. QED
    BY <1>0, <2>1
<1>10. CASE Stop \/ Serve
  <2>1. UNCHANGED <<messages, budget, out>> /\ (rough => rough')
    <3>1. CASE Serve
      BY <3>1 DEF Serve, story
    <3>2. CASE Stop
      <4>1. UNCHANGED <<messages, budget, out>> /\ \E r, l \in BOOLEAN : Notes(r, l)
        BY <3>2 DEF Stop
      <4>. QED
        BY <1>0, <4>1 DEF Notes
    <3>. QED
      BY <1>10, <3>1, <3>2
  <2>2. CASE Serve
    BY <1>5, <2>1, <2>2 DEF Serve
  <2>3. CASE Stop
    <3>1. PICK begun \in SUBSET {c \in Client : at[R(c)] = "sent"} :
            LET asked == {c \in Client : client[c] = "asked"}
                goes  == begun \cup {c \in Client : Running(R(c))}
            IN  at' = [d \in Exec |->
                         IF d[1] = "own" THEN IF d[2] \in asked THEN "push" ELSE at[d]
                         ELSE IF d[2] \in goes THEN at[d] ELSE "none"]
      BY <2>3 DEF Stop
    <3>2. \A d \in Exec : at'[d] \in {at[d], "push", "none"}
      BY <3>1
    <3>. QED
      BY <1>5, <2>1, <3>2
  <2>. QED
    BY <1>10, <2>2, <2>3
<1>11. CASE \E d \in Exec : Execution(d)
  <2>1. PICK d \in Exec : Execution(d)
    BY <1>11
  <2>2. CASE Skip(d) \/ SettleFails(d)
    BY <1>5, <1>7, <2>2
  <2>3. CASE Pending(d)
    <3>1. UNCHANGED <<messages, budget, rough>> /\ Undelivered' = Undelivered
      BY <1>8, <2>3 DEF messages, Undelivered
    <3>. QED
      BY <1>8, <2>3, <3>1
  <2>4. CASE Settle(d)
    <3>1. d # e /\ at[e] = "settle" /\ at[d] = "settle" /\ out' = out /\ budget' = budget /\ rough' = rough
      BY <1>9, <2>4
    <3>. QED
      BY <3>1
  <2>. QED
    BY <2>1, <2>2, <2>3, <2>4 DEF Execution
<1>. QED
  BY <1>1, <1>2, <1>3, <1>4, <1>5, <1>6, <1>10, <1>11 DEF Next

LEMMA NextAdvances == CallsIInv /\ Tidy /\ OrderOK /\ PushAdvances /\ [Next]_vars => PushAdvances'
<1>. SUFFICES ASSUME OrderPre, PushAdvances, [Next]_vars, Ample', NEW e \in Exec, at'[e] = "settle"
              PROVE  Advances(e)'
  BY DEF OrderPre, PushAdvances, Advances
<1>1. budget' = budget /\ (~rough' => ~rough)
  BY SettlesNext
<1>2. Ample /\ (~rough => InTurns) /\ Advances(e)
  BY <1>1 DEF OrderPre, OrderOK, Ample, PushAdvances
<1>3. CASE Pending(e)
  <2>1. UNCHANGED messages
    BY <1>3 DEF Pending
  <2>2. PICK o \in Others : \E room \in {OnPrompt(PushLength(Push(Undelivered)), o),
                                         AfterTool(PushLength(Push(Undelivered)), o)} :
          out' = [out EXCEPT ![e] = Emits(Push(Undelivered), room)]
    BY <1>3 DEF Pending
  <2>3. PICK room \in {OnPrompt(PushLength(Push(Undelivered)), o),
                       AfterTool(PushLength(Push(Undelivered)), o)} :
          out' = [out EXCEPT ![e] = Emits(Push(Undelivered), room)]
    BY <2>2
  <2>4. out'[e] = Emits(Push(Undelivered), room)
    BY <2>3 DEF OrderPre, CallsIInv, CallsTypeInv
  <2>5. MessagesTypeOK /\ budget \in Budgets[length] /\ Undelivered \in SUBSET (1..sent)
    BY DEF OrderPre, CallsIInv, CallsTypeInv, Tidy, Undelivered
  <2>6. Undelivered # {} /\ Undelivered' = Undelivered
    BY <1>3, <2>1 DEF Pending, Undelivered, messages
  <2>7. Settled(out'[e]) \subseteq Undelivered /\ Settled(out'[e]) # {}
    BY <1>2, <2>4, <2>5, <2>6, PushWhole
  <2>. QED
    BY <2>6, <2>7 DEF Advances
<1>4. CASE ~Pending(e)
  <2>1. at[e] = "settle" /\ out'[e] = out[e]
    BY <1>4, SettlesNext
  <2>2. Settled(out[e]) # {} /\ (~rough => Settled(out[e]) \subseteq Undelivered)
    BY <1>2, <2>1 DEF Advances
  <2>3. ~rough => Undelivered \subseteq Undelivered'
    BY <1>2, <2>1, SettlesNext DEF InTurns, OneAtWork
  <2>. QED
    BY <1>1, <2>1, <2>2, <2>3 DEF Advances
<1>. QED
  BY <1>3, <1>4

\* What EventuallyDelivered needs beside fairness: with a budget that is ample, whatever is
\* queued and however long, every push settles a message, one that is too long through the
\* "more" line; and while calls do not overlap it is one that was not marked yet, so that
\* every settle leaves fewer (hooks/push.rs fit and settle).
THEOREM EveryPushSettles == Spec => []PushAdvances
<1>1. Init => PushAdvances
  BY DEF Init, PushAdvances, Advances
<1>. QED
  BY <1>1, CallsInvariant, TidyInit, TidyNext, OrderInit, OrderNext, NextAdvances, PTL DEF Spec

=============================================================================
