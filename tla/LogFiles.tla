------------------------------ MODULE LogFiles ------------------------------
(* The rotating log (crates/rtok-log): several processes append to one path, *)
(* look at its size without a lock, and rotate it under one. A file is known *)
(* by its number, in the order of creation; path 0 is the live one and path  *)
(* i its i-th rotated sibling. `rtok logs watch` (log.rs) follows the live   *)
(* path across the rotations, and takes a file's first line for its name:    *)
(* here no two files begin with the same line.                               *)
EXTENDS Integers, Sequences

CONSTANTS Writers, NoWriter,
          Cap,                  \* lines that fill a file (max_bytes)
          Keeps,                \* what `files` may be
          MaxLines, MaxDeaths   \* bounds

ASSUME LogConstants ==
    /\ NoWriter \notin Writers
    /\ Cap \in Nat \ {0} /\ Keeps \subseteq Nat /\ MaxLines \in Nat /\ MaxDeaths \in Nat

VARIABLES
    keep,       \* `files`
    path,       \* path -> the file it names, 0 when it names none
    file,       \* file -> the lines in it (texts); those with a newline (whole), when it
                \* was rotated away (kept), and those the watch has shown (shown)
    wpc, fd,    \* writer -> where it is in write_line, the file it has open
    holder,     \* who holds the rotation lock
    step,       \* the path the rotation under way comes to next
    begun, deaths,
    follow,     \* the watch: Follow's two fields, and the screen or poll under way
    twice,      \* a line was shown twice
    torn        \* what the watch cannot make up for has happened: see ShownOnce

writerVars == <<keep, path, wpc, fd, holder, step, begun, deaths>>
logVars == <<writerVars, file, follow, twice, torn>>

NewFile == [texts |-> 0, whole |-> 0, kept |-> 0, shown |-> 0]
Off == [at |-> "off", first |-> 0, seen |-> 0, next |-> 0, live |-> 0, upto |-> 0,
        found |-> << >>]

LogTypeOK ==
    /\ keep \in Keeps /\ path \in [0..keep -> 0..Len(file)]
    /\ file \in Seq([texts : Nat, whole : Nat, kept : Nat, shown : Nat])
    /\ wpc \in [Writers -> {"idle", "full", "rotate", "open", "text", "newline"}]
    /\ fd \in [Writers -> 0..Len(file)]
    /\ holder \in Writers \cup {NoWriter} /\ step \in Nat /\ begun \in Nat /\ deaths \in Nat
    /\ follow \in [at : {"off", "screen", "idle", "walk"}, first : 0..Len(file), seen : Nat,
                   next : Nat, live : 0..Len(file), upto : Nat,
                   found : Seq([file : 1..Len(file), from : Nat, to : Nat])]
    /\ twice \in BOOLEAN /\ torn \in BOOLEAN

LogInit ==
    /\ keep \in Keeps /\ path = [i \in 0..keep |-> 0] /\ file = << >>
    /\ wpc = [w \in Writers |-> "idle"] /\ fd = [w \in Writers |-> 0]
    /\ holder = NoWriter /\ step = 0 /\ begun = 0 /\ deaths = 0
    /\ follow = Off /\ twice = FALSE /\ torn = FALSE

-----------------------------------------------------------------------------
(* The writers.                                                              *)

\* The live file holds something and has no room for another line.
Over == path[0] # 0 /\ file[path[0]].texts > 0 /\ file[path[0]].texts + 1 > Cap

Goto(w, l) == wpc' = [wpc EXCEPT ![w] = l]
WatchRests == UNCHANGED <<follow, twice, torn>>

\* write_line looks at the size without the lock.
Look(w) ==
    /\ wpc[w] = "idle" /\ begun < MaxLines
    /\ begun' = begun + 1
    /\ Goto(w, IF Over THEN "full" ELSE "open")
    /\ WatchRests /\ UNCHANGED <<keep, path, file, fd, holder, step, deaths>>

\* Broken variant: whoever saw a full file rotates.
LockOnly(w) ==
    /\ wpc[w] = "full" /\ holder = NoWriter
    /\ holder' = w /\ step' = keep /\ Goto(w, "rotate")
    /\ WatchRests /\ UNCHANGED <<keep, path, file, fd, begun, deaths>>

\* rotate_if_over: the lock, and the size again under it.
Lock(w) ==
    /\ wpc[w] = "full" /\ holder = NoWriter
    /\ IF Over THEN holder' = w /\ step' = keep /\ Goto(w, "rotate")
               ELSE Goto(w, "open") /\ UNCHANGED <<holder, step>>
    /\ WatchRests /\ UNCHANGED <<keep, path, file, fd, begun, deaths>>

\* rotate with no sibling to keep: the live file is emptied. It goes on under
\* another number, and the processes that have it open with it.
Truncate(w) ==
    /\ wpc[w] = "rotate" /\ keep = 0
    /\ file' = Append(file, NewFile)
    /\ path' = [path EXCEPT ![0] = Len(file')]
    /\ fd' = [v \in Writers |-> IF fd[v] = path[0] THEN Len(file') ELSE fd[v]]
    /\ holder' = NoWriter /\ Goto(w, "open")
    /\ torn' = TRUE
    /\ UNCHANGED <<keep, step, begun, deaths, follow, twice>>

\* A rotation while the watch goes from sibling to sibling may hide one from it or
\* show it one twice; and a file that falls out of history unseen is lost to it.
Tears(d) == \/ follow.at \in {"screen", "walk"}
            \/ follow.at # "off" /\ d # 0 /\ file[d].shown < file[d].kept

\* rotate: the oldest sibling is removed ...
RemoveOldest(w) ==
    /\ wpc[w] = "rotate" /\ keep > 0 /\ step = keep
    /\ path' = [path EXCEPT ![keep] = 0]
    /\ step' = keep - 1
    /\ torn' = (torn \/ Tears(path[keep]))
    /\ UNCHANGED <<keep, file, wpc, fd, holder, begun, deaths, follow, twice>>

\* The siblings move up by one; the live file's whole lines are those to keep.
Moved ==
    /\ path' = IF path[step] = 0 THEN path
               ELSE [path EXCEPT ![step + 1] = path[step], ![step] = 0]
    /\ file' = IF step = 0 /\ path[0] # 0 THEN [file EXCEPT ![path[0]].kept = file[path[0]].whole]
               ELSE file
    /\ torn' = (torn \/ Tears(0))

\* Broken variant: the count goes on below the live file.
ShiftPast(w) ==
    /\ wpc[w] = "rotate" /\ keep > 0 /\ step < keep
    /\ Moved
    /\ step' = step - 1
    /\ UNCHANGED <<keep, wpc, holder, fd, begun, deaths, follow, twice>>

\* ... and each younger one, the live file last, takes the next place. A rename
\* of a sibling that is not there fails, which is ignored.
Shift(w) ==
    /\ wpc[w] = "rotate" /\ keep > 0 /\ step < keep
    /\ Moved
    /\ IF step > 0
       THEN step' = step - 1 /\ UNCHANGED <<wpc, holder>>
       ELSE /\ step' = 0 /\ holder' = NoWriter
            /\ Goto(w, IF path[0] = 0 THEN "idle" ELSE "open")
    /\ UNCHANGED <<keep, fd, begun, deaths, follow, twice>>

\* open_append: the live file, created when it is not there.
Open(w) ==
    /\ wpc[w] = "open"
    /\ Goto(w, "text")
    /\ IF path[0] # 0
       THEN fd' = [fd EXCEPT ![w] = path[0]] /\ UNCHANGED <<path, file>>
       ELSE /\ file' = Append(file, NewFile)
            /\ path' = [path EXCEPT ![0] = Len(file')]
            /\ fd' = [fd EXCEPT ![w] = Len(file')]
    /\ WatchRests /\ UNCHANGED <<keep, holder, step, begun, deaths>>

\* writeln! on the open file, wherever it has been renamed to meanwhile: the
\* text, and the newline in a second write.
Text(w) ==
    /\ wpc[w] = "text" /\ Goto(w, "newline")
    /\ file' = [file EXCEPT ![fd[w]].texts = @ + 1]
    /\ WatchRests /\ UNCHANGED <<keep, path, fd, holder, step, begun, deaths>>
Newline(w) ==
    /\ wpc[w] = "newline" /\ Goto(w, "idle")
    /\ file' = [file EXCEPT ![fd[w]].whole = @ + 1]
    /\ fd' = [fd EXCEPT ![w] = 0]
    /\ WatchRests /\ UNCHANGED <<keep, path, holder, step, begun, deaths>>

\* The process dies; the system drops its lock.
WriterDies(w) ==
    /\ wpc[w] # "idle" /\ deaths < MaxDeaths
    /\ deaths' = deaths + 1
    /\ Goto(w, "idle")
    /\ fd' = [fd EXCEPT ![w] = 0]
    /\ holder' = IF holder = w THEN NoWriter ELSE holder
    /\ step' = IF holder = w THEN 0 ELSE step
    /\ WatchRests /\ UNCHANGED <<keep, path, file, begun>>

-----------------------------------------------------------------------------
(* The watch: a first screen, then a poll every 200 ms. One read of one file *)
(* is one step, of the screen as of a poll.                                  *)

\* What left history.
Gone == {d \in 1..Len(file) : \A i \in 0..keep : path[i] # d}

\* Both walks stop at the first sibling that is not there: nothing is behind it,
\* but in the middle of a rotation and after one that was cut off.
Gap == \E i, j \in 1..keep : i < j /\ path[i] = 0 /\ path[j] # 0

\* The name of a file: its first whole line, 0 when it has none.
Name(d) == IF d = 0 \/ file[d].whole = 0 THEN 0 ELSE d

\* Without a name of the file it has read, the watch takes all of history for new.
Nameless(name, shownTo) ==
    name = 0 /\ \E i \in 1..keep : path[i] # 0 /\ shownTo[path[i]] > 0

\* One read of the live file, for the screen and for Follow. What left history
\* before is not the watch's to show.
WatchStarts ==
    /\ follow.at = "off"
    /\ follow' = [Off EXCEPT !.at = "screen", !.next = 1, !.live = path[0],
                             !.upto = IF path[0] = 0 THEN 0 ELSE file[path[0]].whole]
    /\ file' = [d \in DOMAIN file |->
                   [file[d] EXCEPT !.shown = IF d \in Gone THEN file[d].whole ELSE @]]
    /\ torn' = (torn \/ Gap)
    /\ UNCHANGED <<writerVars, twice>>

\* The lines after the `from`-th up to the `to`-th of a file are shown; a gap before
\* them stays one.
Show(pieces) ==
    LET Of(d) == {i \in DOMAIN pieces : pieces[i].file = d /\ pieces[i].from < pieces[i].to}
        Reach(d) == {file[d].shown} \cup {pieces[i].to : i \in Of(d)}
        shownTo == [d \in DOMAIN file |->
                      IF \E i \in Of(d) : pieces[i].from > file[d].shown THEN file[d].shown
                      ELSE CHOOSE n \in Reach(d) : \A m \in Reach(d) : m <= n]
    IN  /\ file' = [d \in DOMAIN file |-> [file[d] EXCEPT !.shown = shownTo[d]]]
        /\ twice' = (twice \/ \E d \in DOMAIN file : \E i, j \in Of(d) :
                                 i # j \/ pieces[i].from < file[d].shown)
        /\ torn' = (torn \/ Nameless(follow'.first, shownTo))

\* Without one it also takes a sibling that has no whole line for the file it has
\* read, and stops there, whatever is older.
StopsShort ==
    /\ follow.first = 0
    /\ \E i, j \in 1..keep : /\ i < j /\ path[i] # 0 /\ Name(path[i]) = 0 /\ path[j] # 0
                             /\ file[path[j]].shown < file[path[j]].kept

\* poll: the live file is the one it was, or it was rotated away. A file that is
\* renamed and not there again is a delay.
PollLive ==
    /\ follow.at = "idle" /\ path[0] # 0
    /\ LET d == path[0]
           len == file[d].whole
       IN  IF Name(d) = follow.first /\ len >= follow.seen
           THEN /\ len > follow.seen       \* nothing changes otherwise
                /\ follow' = [follow EXCEPT !.seen = len]
                /\ Show(<<[file |-> d, from |-> follow.seen, to |-> len]>>)
           ELSE /\ follow' = [follow EXCEPT !.at = "walk", !.next = 1, !.live = d, !.upto = len]
                /\ torn' = (torn \/ holder # NoWriter \/ deaths > 0 \/ StopsShort)
                /\ UNCHANGED <<file, twice>>
    /\ UNCHANGED writerVars

\* The siblings are read: they are shown with what was read of the live file, if it
\* was there, and that one is followed from there.
LivePiece == IF follow.live = 0 THEN << >>
             ELSE <<[file |-> follow.live, from |-> 0, to |-> follow.upto]>>
WalkEnds(found) ==
    /\ follow' = [Off EXCEPT !.at = "idle", !.seen = follow.upto,
                             !.first = IF follow.upto = 0 THEN 0 ELSE follow.live]
    /\ Show(found \o LivePiece)

\* The sibling that is read next, 0 when it is not there; its lines after the `from`-th.
Sibling == IF follow.next > keep THEN 0 ELSE path[follow.next]
Piece(d, from) == [file |-> d, from |-> from, to |-> file[d].whole]
PassesSibling ==
    /\ follow' = [follow EXCEPT !.next = @ + 1, !.found = <<Piece(Sibling, 0)>> \o @]
    /\ UNCHANGED <<file, twice, torn>>

\* tail_with: the first screen takes each sibling whole, `[log] lines` permitting. An
\* end without its newline is shown there too; it is no line yet.
ScreenSibling ==
    /\ follow.at = "screen"
    /\ IF Sibling = 0 THEN WalkEnds(follow.found) ELSE PassesSibling
    /\ UNCHANGED writerVars

\* Sibling by sibling, what is not the followed file is new, and of that file what
\* comes after the lines already returned.
PollSibling ==
    /\ follow.at = "walk"
    /\ IF Sibling = 0 THEN WalkEnds(follow.found)
       ELSE IF Name(Sibling) = follow.first
            THEN WalkEnds(<<Piece(Sibling, IF follow.seen <= file[Sibling].whole THEN follow.seen
                                           ELSE file[Sibling].whole)>> \o follow.found)
       ELSE PassesSibling
    /\ UNCHANGED writerVars

LogNext ==
    \/ \E w \in Writers :
          \/ Look(w) \/ Lock(w) \/ Truncate(w) \/ RemoveOldest(w) \/ Shift(w)
          \/ Open(w) \/ Text(w) \/ Newline(w) \/ WriterDies(w)
    \/ WatchStarts \/ ScreenSibling \/ PollLive \/ PollSibling

LogSpec == LogInit /\ [][LogNext]_logVars
-----------------------------------------------------------------------------
\* However many processes find the file full at once: what is rotated was full,
\* and a file goes only when `files` later ones have taken its place. A process
\* that dies half way through a rotation costs one place.
LogKeeps ==
    keep > 0 =>
        /\ \A i \in 1..keep : path[i] # 0 => file[path[i]].texts >= Cap
        /\ \A d \in Gone : Len(file) - d + deaths >= keep

\* "Never shown twice, never skipped" (log.rs, watch): across any number of
\* rotations every line that was whole when its file left the live path is shown
\* once, by the first screen or by a poll. Not promised (`torn`): for a start or a
\* poll whose reads overlap a rotation or meet what a cut-off one left, for what
\* falls out of history between two polls, after the watch has met a live file
\* without a whole line and holds no name to stop at.
ShownOnce ==
    torn \/ /\ ~twice
            /\ \A d \in 1..follow.first - 1 : file[d].shown >= file[d].kept

\* No line is lost between its writer, the history and the watch.
LinesAreKept == LogKeeps /\ ShownOnce
=============================================================================
