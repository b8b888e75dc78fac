------------------------------- MODULE Notes --------------------------------
(* The notes of the memory plugin, which MCP servers, hooks and commands in  *)
(* processes of their own save, revise, retire, export, import and search.   *)
(* A save is two statements, the row and then its vector; a revise is three; *)
(* an import decides from what it read at its start.                         *)
(*                                                                           *)
(* A topic is a note's project, kind and title. A vector is the text it was  *)
(* made from. Vectors are on, under one model. Pins, times, the note that    *)
(* supersedes another, ranking and the local rows of sessions are left out.  *)
EXTENDS Integers, Sequences, FiniteSets

CONSTANTS Clients, Topics, Bodies, Malformed,
          Abroad,               \* the export of another machine
          MaxNotes, MaxCalls, MaxCuts     \* bounds

NoteRows == [topic : Topics, body : Bodies, retired : BOOLEAN]
NoteLines == {Malformed} \cup [id : 0..MaxNotes, topic : Topics, body : Bodies, retired : BOOLEAN]

ASSUME NoteConstants ==
    /\ Malformed \notin [id : 0..MaxNotes, topic : Topics, body : Bodies, retired : BOOLEAN]
    /\ Abroad \in Seq(NoteLines)
    /\ MaxNotes \in Nat /\ MaxCalls \in Nat /\ MaxCuts \in Nat

VARIABLES
    notes,      \* id -> row, for the ids there are
    vectors,    \* id -> the body its vector was made from
    exported,   \* the lines of the export file
    job,        \* client -> what it is in the middle of
    told,       \* topic -> the row that the commands of this machine left it with
    unsure,     \* notes whose save was cut or overlapped by another
    calls, cuts

noteVars == <<notes, vectors, exported, job, told, unsure, calls, cuts>>

(* todo: the vectors to write; old: the note to retire then. The rest is an   *)
(* import: the lines to come, the bodies and the topics it takes for known,  *)
(* and the topics that others have written since it looked.                  *)
Free == [at |-> "free", todo |-> {}, old |-> 0, lines |-> <<>>, bodies |-> {}, topics |-> {},
         since |-> {}, dry |-> FALSE]

Jobs(ids) == [at : {"free", "embed", "retire", "bodies", "topics", "line"},
              todo : SUBSET (ids \X Bodies), old : {0} \cup ids,
              lines : Seq(NoteLines), bodies : SUBSET Bodies,
              topics : SUBSET Topics, since : SUBSET Topics, dry : BOOLEAN]

NotesTypeOK ==
    /\ DOMAIN notes \subseteq 1..MaxNotes /\ notes \in [DOMAIN notes -> NoteRows]
    /\ DOMAIN vectors \subseteq DOMAIN notes /\ vectors \in [DOMAIN vectors -> Bodies]
    /\ exported \in Seq(NoteLines)
    /\ DOMAIN told \subseteq Topics /\ told \in [DOMAIN told -> NoteRows]
    /\ unsure \subseteq DOMAIN notes
    /\ calls \in 0..MaxCalls /\ cuts \in 0..MaxCuts
    /\ job \in [Clients -> Jobs(DOMAIN notes)]

NotesInit ==
    /\ notes = <<>> /\ vectors = <<>> /\ told = <<>> /\ unsure = {}
    /\ exported = Abroad
    /\ job = [c \in Clients |-> Free]
    /\ calls = 0 /\ cuts = 0

-----------------------------------------------------------------------------
With(f, x, y) == [z \in DOMAIN f \cup {x} |-> IF z = x THEN y ELSE f[z]]

\* Rows are never deleted: SQLite gives the id after the largest.
NewIds == {i \in 1..MaxNotes : /\ i = 1 \/ i - 1 \in DOMAIN notes
                               /\ \A j \in DOMAIN notes : j < i}
OfTopic(t) == {i \in DOMAIN notes : notes[i].topic = t}
Overlapped(c, i) == \E d \in Clients \ {c} : \E p \in job[d].todo : p[1] = i

\* The next step of one client; imports under way have looked before topic t was written.
Does(c, next, t) ==
    job' = [d \in Clients |-> IF d = c THEN next
                              ELSE IF job[d].at = "line"
                              THEN [job[d] EXCEPT !.since = @ \cup t] ELSE job[d]]
Called == calls < MaxCalls /\ calls' = calls + 1 /\ UNCHANGED cuts

\* upsert_note: one row per topic; the vector is a statement of its own.
Upsert(c, t, b, old) ==
    \E i \in IF OfTopic(t) = {} THEN NewIds ELSE OfTopic(t) :
        LET now == [topic |-> t, body |-> b, retired |-> FALSE] IN
        /\ notes' = With(notes, i, now) /\ told' = With(told, t, now)
        /\ unsure' = IF Overlapped(c, i) THEN unsure \cup {i} ELSE unsure
        /\ Does(c, [Free EXCEPT !.at = "embed", !.todo = {<<i, b>>},
                                !.old = IF old = i THEN 0 ELSE old], {t})

\* mem_save, and the hook's "remember:".
Save(c, t, b) ==
    /\ job[c] = Free /\ Called
    /\ Upsert(c, t, b, 0)
    /\ UNCHANGED <<vectors, exported>>

\* mem_revise: what it reads of the old row never changes.
Revise(c, i, t, b) ==
    /\ job[c] = Free /\ i \in DOMAIN notes /\ Called
    /\ Upsert(c, t, b, i)
    /\ UNCHANGED <<vectors, exported>>

\* upsert_note_embedding, by a save or by a search that found the vector missing.
Embed(c) ==
    /\ job[c].at = "embed"
    /\ \E p \in job[c].todo :
          /\ vectors' = With(vectors, p[1], p[2])
          /\ unsure' = IF notes[p[1]].body = p[2] /\ ~Overlapped(c, p[1])
                       THEN unsure \ {p[1]} ELSE unsure
          /\ Does(c, IF job[c].todo # {p} THEN [job[c] EXCEPT !.todo = @ \ {p}]
                     ELSE IF job[c].old = 0 THEN Free
                     ELSE [job[c] EXCEPT !.at = "retire", !.todo = {}], {})
    /\ UNCHANGED <<notes, exported, told, calls, cuts>>

Retires(i) ==
    LET now == [notes[i] EXCEPT !.retired = TRUE] IN
    notes' = With(notes, i, now) /\ told' = With(told, now.topic, now)

ReviseRetires(c) ==
    /\ job[c].at = "retire"
    /\ Retires(job[c].old)
    /\ Does(c, Free, {})
    /\ UNCHANGED <<vectors, exported, unsure, calls, cuts>>

\* mem_update.
Retire(c, i) ==
    /\ job[c] = Free /\ i \in DOMAIN notes /\ Called
    /\ Retires(i)
    /\ UNCHANGED <<vectors, exported, unsure, job>>

\* search_notes_embed: embed_stale lists the notes without a vector.
Search(c) ==
    LET missing == {<<i, notes[i].body>> : i \in DOMAIN notes \ DOMAIN vectors} IN
    /\ job[c] = Free /\ missing # {} /\ Called
    /\ Does(c, [Free EXCEPT !.at = "embed", !.todo = missing], {})
    /\ UNCHANGED <<notes, vectors, exported, told, unsure>>

\* export: the rows, retired ones too, in the order of their ids.
Export(c) ==
    LET Line(i) == [id |-> i, topic |-> notes[i].topic, body |-> notes[i].body,
                    retired |-> notes[i].retired]
        count == Cardinality(DOMAIN notes)
    IN  /\ job[c] = Free /\ Called
        /\ \E ids \in [1..count -> DOMAIN notes] :
              /\ \A k, m \in 1..count : k < m => ids[k] < ids[m]
              /\ exported' = [k \in 1..count |-> Line(ids[k])]
        /\ UNCHANGED <<notes, vectors, job, told, unsure>>

-----------------------------------------------------------------------------
(* import.                                                                   *)

ImportReads(c, dry) ==
    /\ job[c] = Free /\ exported # <<>> /\ Called
    /\ Does(c, [Free EXCEPT !.at = "bodies", !.lines = exported, !.dry = dry], {})
    /\ UNCHANGED <<notes, vectors, exported, told, unsure>>

ImportBodies(c) ==
    /\ job[c].at = "bodies"
    /\ Does(c, [job[c] EXCEPT !.at = "topics",
                              !.bodies = {notes[i].body : i \in DOMAIN notes}], {})
    /\ UNCHANGED <<notes, vectors, exported, told, unsure, calls, cuts>>

\* The topics of retired notes are taken too.
ImportTopics(c) ==
    /\ job[c].at = "topics"
    /\ Does(c, [job[c] EXCEPT !.at = "line",
                              !.topics = {notes[i].topic : i \in DOMAIN notes}], {})
    /\ UNCHANGED <<notes, vectors, exported, told, unsure, calls, cuts>>

\* A row of the same topic, or of the same id, stands.
Refused(l) == OfTopic(l.topic) # {} \/ l.id \in DOMAIN notes
RowOf(l) == [topic |-> l.topic, body |-> l.body, retired |-> l.retired]

\* Broken variant: the line replaces the row that has its topic.
InsertOver(l) ==
    \E i \in IF OfTopic(l.topic) # {} THEN OfTopic(l.topic)
              ELSE IF l.id = 0 THEN NewIds ELSE {l.id} :
        notes' = With(notes, i, RowOf(l))

\* INSERT OR IGNORE.
Insert(l) ==
    IF Refused(l) THEN UNCHANGED notes
    ELSE \E i \in IF l.id = 0 THEN NewIds ELSE {l.id} : notes' = With(notes, i, RowOf(l))

Skips(j, l) == l = Malformed \/ l.body \in j.bodies \/ l.topic \in j.topics

\* A line that is passed over for its topic leaves its body behind as known.
ImportLine(c) ==
    LET j == job[c]
        l == Head(j.lines)
        known == IF l = Malformed THEN j
                 ELSE IF l.body \in j.bodies THEN j
                 ELSE [j EXCEPT !.bodies = @ \cup {l.body}, !.topics = @ \cup {l.topic}]
    IN  /\ j.at = "line" /\ j.lines # <<>>
        /\ IF Skips(j, l) \/ j.dry THEN UNCHANGED notes ELSE Insert(l)
        /\ Does(c, IF Len(j.lines) = 1 THEN Free ELSE [known EXCEPT !.lines = Tail(@)],
                IF notes' # notes THEN {l.topic} ELSE {})
        /\ UNCHANGED <<vectors, exported, told, unsure, calls, cuts>>

\* A process that dies in the middle; the vector of a save is not written.
ClientDies(c) ==
    /\ job[c] # Free /\ cuts < MaxCuts /\ cuts' = cuts + 1
    /\ unsure' = unsure \cup {p[1] : p \in {q \in job[c].todo :
                                  q[1] \in DOMAIN vectors /\ vectors[q[1]] # q[2]}}
    /\ Does(c, Free, {})
    /\ UNCHANGED <<notes, vectors, exported, told, calls>>

NotesNext == \E c \in Clients :
    \/ \E t \in Topics, b \in Bodies : Save(c, t, b)
    \/ \E i \in 1..MaxNotes, t \in Topics, b \in Bodies : Revise(c, i, t, b)
    \/ \E i \in 1..MaxNotes : Retire(c, i)
    \/ Embed(c) \/ ReviseRetires(c) \/ Search(c) \/ Export(c)
    \/ \E dry \in BOOLEAN : ImportReads(c, dry)
    \/ ImportBodies(c) \/ ImportTopics(c) \/ ImportLine(c) \/ ClientDies(c)

NotesSpec == NotesInit /\ [][NotesNext]_noteVars

-----------------------------------------------------------------------------
\* A topic has one row, and a row that this machine wrote or retired is as it was left,
\* whatever imports ran, with whatever they took for known (T209).
LocalNotesStand ==
    /\ \A i, j \in DOMAIN notes : notes[i].topic = notes[j].topic => i = j
    /\ \A t \in DOMAIN told : \E i \in DOMAIN notes : notes[i] = told[t]

\* A vector is of its note's text, once its save is through: unless that save was cut
\* or another overlapped it, and then until the note is saved again on its own.
VectorsCurrent == \A i \in DOMAIN vectors \ unsure :
    \/ vectors[i] = notes[i].body
    \/ \E c \in Clients : <<i, notes[i].body>> \in job[c].todo

\* Where a real import differs from its dry run, another process wrote the topic since
\* the import looked, or the line names an id that is taken.
RefusalsExplained == \A c \in Clients :
    LET j == job[c] IN
    (j.at = "line" /\ ~Skips(j, Head(j.lines)) /\ Refused(Head(j.lines))) =>
        LET l == Head(j.lines) IN l.topic \in j.since \/ l.id \in DOMAIN notes

\* The notes are what was said last, the vectors are of them, and an import adds what
\* its dry run tells.
NotesAgree == LocalNotesStand /\ VectorsCurrent /\ RefusalsExplained
=============================================================================
