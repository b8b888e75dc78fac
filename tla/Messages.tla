------------------------------- MODULE Messages -------------------------------
(***************************************************************************)
(* The messages queued for one agent (src/store/messages.rs): who          *)
(* sends, what the agent's own inbox call reads and marks, and which of    *)
(* them one hook event pushes into the agent's context                     *)
(* (src/hooks/push.rs).  A message is its id; ids are given in send        *)
(* order.  Its frame has a length, and lengths and budgets are counted in  *)
(* one unit: the code compares bytes with the cap and estimated tokens     *)
(* with the budget.                                                        *)
(***************************************************************************)
EXTENDS Naturals, Sequences, FiniteSets, FiniteSetsExt

CONSTANTS
  Last,      \* bound: messages sent
  Lengths,   \* the frame lengths of the messages to be sent: one sequence is chosen
  Cap,       \* [agents] push_bytes
  MoreLine,  \* length of "... and N more"
  Limit,     \* messages that one inbox call returns
  Faults     \* "store": a write fails; "crash": a process dies; "timeout"; "stop"

Msg == 1..Last

ASSUME MessagesAssumption ==
  /\ Last \in Nat /\ Cap \in Nat
  /\ MoreLine \in Nat \ {0} /\ Limit \in Nat \ {0}
  /\ \A l \in Lengths : l \in Seq(Nat \ {0}) /\ Len(l) <= Last
  /\ Faults \subseteq {"store", "crash", "timeout", "stop"}

VARIABLES
  length,     \* of each message's frame
  sent,       \* how many messages the table holds
  delivered, read,  \* messages with delivered_at, read_at
  inbox,      \* rows that an inbox call under way has loaded
  listed      \* history: messages that inbox calls returned

messages == <<length, sent, delivered, read, inbox, listed>>

MessagesTypeOK ==
  /\ length \in Lengths
  /\ sent \in 0..Len(length)
  /\ {delivered, read, listed, inbox} \subseteq SUBSET (1..sent)

MessagesInit ==
  /\ length \in Lengths
  /\ sent = 0
  /\ delivered = {} /\ read = {} /\ listed = {}
  /\ inbox = {}

-----------------------------------------------------------------------------
Unread == (1..sent) \ read
Undelivered == (1..sent) \ delivered

(* The oldest k of a set.                                                   *)
Oldest(k, S) == {m \in S : Cardinality({n \in S : n < m}) < k}

(* Length of the frames of S, of those up to m.                             *)
Total(S) == MapThenSumSet(LAMBDA m : length[m], S)
UpTo(m, S) == Total({n \in S : n <= m})

(* fit.  Frames go in send order while they fit: once one does not, it and  *)
(* every later one wait.  Where not all fit, room is kept for the line that *)
(* counts the rest.                                                         *)
Room(rows) == IF Total(rows) <= Cap THEN Cap
              ELSE IF Cap < MoreLine + 1 THEN 0 ELSE Cap - (MoreLine + 1)

Oversized(rows) == {m \in rows : length[m] > Room(rows)}

(* Broken variant: a later frame that still fits overtakes one that waits.  *)
FramedOvertaking(rows) ==
  LET small == rows \ Oversized(rows)
      first == {m \in small : UpTo(m, small) <= Room(rows)}
  IN first \cup {m \in small : Total(first) + length[m] <= Room(rows)}

Framed(rows) ==
  LET small == rows \ Oversized(rows)
  IN {m \in small : UpTo(m, small) <= Room(rows)}

Push(rows) == [framed |-> Framed(rows), oversized |-> Oversized(rows),
               more |-> Framed(rows) # rows]

PushLength(p) == Total(p.framed) + IF p.more THEN MoreLine ELSE 0

-----------------------------------------------------------------------------
(* send_message: to an agent that has not ended.                            *)
Send ==
  /\ sent < Len(length)
  /\ sent' = sent + 1
  /\ UNCHANGED <<length, delivered, read, inbox, listed>>

(* inbox_limited with mark_read: load and cut, then mark and return.        *)
InboxLoad ==
  /\ inbox = {}
  /\ \E S \in {Unread, 1..sent} : S # {} /\ inbox' = Oldest(Limit, S)
  /\ UNCHANGED <<length, sent, delivered, read, listed>>

InboxMark ==
  /\ inbox # {}
  /\ read' = read \cup inbox
  /\ delivered' = delivered \cup inbox
  /\ listed' = listed \cup inbox
  /\ inbox' = {}
  /\ UNCHANGED <<length, sent>>

InboxFails ==
  /\ "store" \in Faults
  /\ inbox # {}
  /\ inbox' = {}
  /\ UNCHANGED <<length, sent, delivered, read, listed>>

(* Broken variant: a watermark that is one id too far.                      *)
MarkDeliveredPast(S) ==
  /\ delivered' = delivered \cup {m \in Msg : \E n \in S : m \in {n, n + 1}}
  /\ UNCHANGED <<length, sent, read, inbox, listed>>

(* mark_delivered: exactly these, and read_at is left alone.                *)
MarkDelivered(S) ==
  /\ delivered' = delivered \cup S
  /\ UNCHANGED <<length, sent, read, inbox, listed>>
=============================================================================
