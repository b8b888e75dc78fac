------------------------------- MODULE LiveZone -------------------------------
(***************************************************************************)
(* What the archive plugin promises about the live zone, without files,    *)
(* rows or processes: a tool result is shortened to one pointer for good,  *)
(* until an expand of its archive id freezes it, together with every other *)
(* result of the same body, and leaves one Measurement in the ledger.      *)
(***************************************************************************)
EXTENDS Naturals

CONSTANTS Key, Body, Content, Turn, None

VARIABLES
  zone,    \* None, or the pointer's shape and whether an expand froze it
  ledger   \* expand Measurements per body

Init ==
  /\ zone = [k \in Key |-> None]
  /\ ledger = [b \in Body |-> 0]

(* The first request to shorten k fixes its pointer.                        *)
Decide(k, t) ==
  /\ zone[k] = None
  /\ zone' = [zone EXCEPT ![k] = [turn |-> t, expanded |-> FALSE]]
  /\ UNCHANGED ledger

Followers(b) == {k \in Key : Content[k] = b /\ zone[k] # None /\ ~zone[k].expanded}

(* An expand of b ends the shortening of everything that points at it.      *)
Freeze(b) ==
  /\ Followers(b) # {}
  /\ zone' = [k \in Key |-> IF k \in Followers(b)
                            THEN [zone[k] EXCEPT !.expanded = TRUE]
                            ELSE zone[k]]
  /\ ledger' = [ledger EXCEPT ![b] = @ + 1]

Next ==
  \/ \E k \in Key, t \in Turn : Decide(k, t)
  \/ \E b \in Body : Freeze(b)

Spec == Init /\ [][Next]_<<zone, ledger>>
=============================================================================
