-------------------------------- MODULE Outbox --------------------------------
(***************************************************************************)
(* What an export promises about rows that are numbered as they are made,  *)
(* without processes, locks or loads: every row is delivered at least      *)
(* once, in order and not before it is due; and the mark, all that is kept *)
(* of what was delivered, passes nothing that was not.                     *)
(***************************************************************************)
EXTENDS Naturals

VARIABLES
  made,   \* how many rows there are
  due,    \* rows that will not change any more
  got,    \* rows that the receiver has
  mark    \* what follows it will be sent

Init == made = 0 /\ due = {} /\ got = {} /\ mark = 0

Make ==
  /\ made' = made + 1
  /\ UNCHANGED <<due, got, mark>>

FallDue(c) ==
  /\ c \in 1..made
  /\ due' = due \cup {c}
  /\ UNCHANGED <<made, got, mark>>

(* The rows after the mark, without a gap: a row that is not due yet holds  *)
(* back all that follow.  Until the mark moves they may be delivered again. *)
Deliver(n) ==
  /\ n > mark /\ n <= made
  /\ mark + 1 .. n \subseteq due
  /\ got' = got \cup (mark + 1 .. n)
  /\ UNCHANGED <<made, due, mark>>

Advance(n) ==
  /\ n > mark
  /\ mark + 1 .. n \subseteq got
  /\ mark' = n
  /\ UNCHANGED <<made, due, got>>

Next ==
  \/ Make
  \/ \E n \in 1..made : FallDue(n) \/ Deliver(n) \/ Advance(n)

Spec == Init /\ [][Next]_<<made, due, got, mark>>
=============================================================================
