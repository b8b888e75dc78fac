---------------------------- MODULE MCOtelExport ----------------------------
(* OtelExport on small instances: calls and sessions are kept in tables of  *)
(* their own, so that few of both show what they do to each other.          *)
EXTENDS OtelExport

Work(batch, calls, past, ends, spawn) ==
  [batch |-> batch, calls |-> calls, past |-> past, ends |-> ends, spawn |-> spawn]

Mixed == {Work(1, 0, {1, 2}, {3, 4}, {}), Work(2, 0, {}, {1, 2}, Child),
          Work(2, 2, {}, {1}, Child), Work(1, 3, {}, {}, {})}

(* Two sessions that a flush may come between.                              *)
Two == {Work(2, 0, {}, {1, 2}, Child)}
=============================================================================
