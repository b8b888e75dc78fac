---------------------------- MODULE Notes_proofs -----------------------------
(* What holds of the notes for any number of clients, topics and calls.      *)
EXTENDS Notes, FiniteSetTheorems, TLAPS

-----------------------------------------------------------------------------
(* Types.                                                                    *)

\* What one client's step makes of the jobs.
LEMMA DoesShape ==
    ASSUME NEW c \in Clients, NEW next, NEW t, Does(c, next, t)
    PROVE  /\ DOMAIN job' = Clients
           /\ job'[c] = next
           /\ \A d \in Clients \ {c} :
                job'[d] = IF job[d].at = "line" THEN [job[d] EXCEPT !.since = @ \cup t]
                          ELSE job[d]
BY DEF Does

LEMMA FreeTyped == ASSUME NEW ids PROVE Free \in Jobs(ids)
BY DEF Free, Jobs

\* Jobs stay typed while notes are only added.
LEMMA JobsGrow ==
    ASSUME NEW ids, NEW more, ids \subseteq more, NEW j \in Jobs(ids), NEW t \in SUBSET Topics
    PROVE  j \in Jobs(more) /\ [j EXCEPT !.since = @ \cup t] \in Jobs(more)
<1>1. SUBSET (ids \X Bodies) \subseteq SUBSET (more \X Bodies) OBVIOUS
<1>2. {0} \cup ids \subseteq {0} \cup more OBVIOUS
<1>3. \A s \in SUBSET Topics : s \cup t \in SUBSET Topics OBVIOUS
<1> QED BY <1>1, <1>2, <1>3 DEF Jobs

LEMMA DoesTyped ==
    ASSUME NotesTypeOK, NEW c \in Clients, NEW next \in Jobs((DOMAIN notes)'),
           NEW t \in SUBSET Topics, Does(c, next, t), DOMAIN notes \subseteq (DOMAIN notes)'
    PROVE  job' \in [Clients -> Jobs((DOMAIN notes)')]
<1>1. \A d \in Clients \ {c} : job'[d] \in Jobs((DOMAIN notes)')
    <2> SUFFICES ASSUME NEW d \in Clients \ {c} PROVE job'[d] \in Jobs((DOMAIN notes)')
        OBVIOUS
    <2>1. job[d] \in Jobs(DOMAIN notes) BY DEF NotesTypeOK
    <2>2. job[d] \in Jobs((DOMAIN notes)')
          /\ [job[d] EXCEPT !.since = @ \cup t] \in Jobs((DOMAIN notes)')
        BY <2>1, JobsGrow
    <2> QED BY <2>2, DoesShape
<1>2. job' = [d \in Clients |-> job'[d]] BY DEF Does
<1>3. job'[c] \in Jobs((DOMAIN notes)') BY DoesShape
<1> QED BY <1>1, <1>2, <1>3

LEMMA NewIsNew ==
    ASSUME NEW i \in NewIds
    PROVE  i \in 1..MaxNotes /\ i \notin DOMAIN notes
BY DEF NewIds

LEMMA NotesFinite ==
    ASSUME NotesTypeOK
    PROVE  IsFiniteSet(DOMAIN notes) /\ Cardinality(DOMAIN notes) \in Nat
<1>1. IsFiniteSet(1..MaxNotes) BY NoteConstants, FS_Interval
<1>2. IsFiniteSet(DOMAIN notes) BY <1>1, FS_Subset DEF NotesTypeOK
<1> QED BY <1>2, FS_CardinalityType

LEMMA InitTyped == NotesInit => NotesTypeOK
<1> SUFFICES ASSUME NotesInit PROVE NotesTypeOK OBVIOUS
<1>1. DOMAIN notes = {} /\ DOMAIN vectors = {} /\ DOMAIN told = {} BY DEF NotesInit
<1>2. exported \in Seq(NoteLines) BY NoteConstants DEF NotesInit
<1>3. job \in [Clients -> Jobs(DOMAIN notes)] BY FreeTyped DEF NotesInit
<1> QED BY <1>1, <1>2, <1>3, NoteConstants DEF NotesInit, NotesTypeOK

\* A save or a revise of note old, up to the writing of the row.
LEMMA UpsertTyped ==
    ASSUME NotesTypeOK, NEW c \in Clients, NEW t \in Topics, NEW b \in Bodies,
           NEW old \in {0} \cup DOMAIN notes, Upsert(c, t, b, old)
    PROVE  /\ DOMAIN notes \subseteq (DOMAIN notes)' /\ (DOMAIN notes)' \subseteq 1..MaxNotes
           /\ notes' \in [(DOMAIN notes)' -> NoteRows]
           /\ (DOMAIN told)' \subseteq Topics /\ told' \in [(DOMAIN told)' -> NoteRows]
           /\ unsure' \subseteq (DOMAIN notes)'
           /\ job' \in [Clients -> Jobs((DOMAIN notes)')]
<1> DEFINE now == [topic |-> t, body |-> b, retired |-> FALSE]
<1>1. PICK i \in IF OfTopic(t) = {} THEN NewIds ELSE OfTopic(t) :
        /\ notes' = With(notes, i, now) /\ told' = With(told, t, now)
        /\ unsure' = IF Overlapped(c, i) THEN unsure \cup {i} ELSE unsure
        /\ Does(c, [Free EXCEPT !.at = "embed", !.todo = {<<i, b>>},
                                !.old = IF old = i THEN 0 ELSE old], {t})
    BY DEF Upsert
<1>2. now \in NoteRows BY DEF NoteRows
<1>3. i \in 1..MaxNotes BY <1>1, NewIsNew DEF OfTopic, NotesTypeOK
<1>4. DOMAIN notes' = DOMAIN notes \cup {i} /\ notes' \in [DOMAIN notes \cup {i} -> NoteRows]
    BY <1>1, <1>2 DEF With, NotesTypeOK
<1>5. DOMAIN told' = DOMAIN told \cup {t} /\ told' \in [DOMAIN told \cup {t} -> NoteRows]
    BY <1>1, <1>2 DEF With, NotesTypeOK
<1>6. [Free EXCEPT !.at = "embed", !.todo = {<<i, b>>}, !.old = IF old = i THEN 0 ELSE old]
        \in Jobs(DOMAIN notes')
    <2>1. {<<i, b>>} \in SUBSET ((DOMAIN notes') \X Bodies) BY <1>4
    <2>2. (IF old = i THEN 0 ELSE old) \in {0} \cup DOMAIN notes' BY <1>4
    <2>3. Free \in Jobs(DOMAIN notes') BY FreeTyped
    <2> QED BY <2>1, <2>2, <2>3 DEF Jobs
<1>7. job' \in [Clients -> Jobs((DOMAIN notes)')]
    <2>1. {t} \in SUBSET Topics /\ DOMAIN notes \subseteq (DOMAIN notes)' BY <1>4
    <2> QED BY <1>1, <1>6, <2>1, DoesTyped
<1>8. unsure' \subseteq DOMAIN notes' BY <1>1, <1>4 DEF NotesTypeOK
<1> QED BY <1>3, <1>4, <1>5, <1>7, <1>8 DEF NotesTypeOK

LEMMA CalledTyped == ASSUME NotesTypeOK, Called PROVE calls' \in 0..MaxCalls /\ cuts' = cuts
BY NoteConstants DEF Called, NotesTypeOK

LEMMA RetiresTyped ==
    ASSUME NotesTypeOK, NEW i \in DOMAIN notes, Retires(i)
    PROVE  /\ DOMAIN notes' = DOMAIN notes /\ notes' \in [DOMAIN notes -> NoteRows]
           /\ (DOMAIN told)' \subseteq Topics /\ told' \in [(DOMAIN told)' -> NoteRows]
<1> DEFINE now == [notes[i] EXCEPT !.retired = TRUE]
<1>1. notes' = With(notes, i, now) /\ told' = With(told, now.topic, now) BY DEF Retires
<1>2. now \in NoteRows /\ now.topic \in Topics BY DEF NotesTypeOK, NoteRows
<1>3. DOMAIN notes' = DOMAIN notes \cup {i} /\ notes' \in [DOMAIN notes \cup {i} -> NoteRows]
    BY <1>1, <1>2 DEF With, NotesTypeOK
<1>4. DOMAIN told' = DOMAIN told \cup {now.topic}
      /\ told' \in [DOMAIN told \cup {now.topic} -> NoteRows]
    BY <1>1, <1>2 DEF With, NotesTypeOK
<1> QED BY <1>2, <1>3, <1>4 DEF NotesTypeOK

\* A client's step that leaves the notes alone.
LEMMA StepTyped ==
    ASSUME NotesTypeOK, NEW c \in Clients, NEW next \in Jobs(DOMAIN notes), Does(c, next, {}),
           UNCHANGED notes
    PROVE  job' \in [Clients -> Jobs((DOMAIN notes)')]
<1>1. next \in Jobs((DOMAIN notes)') /\ DOMAIN notes \subseteq (DOMAIN notes)' OBVIOUS
<1>2. {} \in SUBSET Topics OBVIOUS
<1> QED BY <1>1, <1>2, DoesTyped

LEMMA EmbedTyped == ASSUME NotesTypeOK, NEW c \in Clients, Embed(c) PROVE NotesTypeOK'
<1>1. PICK p \in job[c].todo :
          /\ vectors' = With(vectors, p[1], p[2])
          /\ unsure' = IF notes[p[1]].body = p[2] /\ ~Overlapped(c, p[1])
                       THEN unsure \ {p[1]} ELSE unsure
          /\ Does(c, IF job[c].todo # {p} THEN [job[c] EXCEPT !.todo = @ \ {p}]
                     ELSE IF job[c].old = 0 THEN Free
                     ELSE [job[c] EXCEPT !.at = "retire", !.todo = {}], {})
    BY DEF Embed
<1>2. UNCHANGED <<notes, exported, told, calls, cuts>> BY DEF Embed
<1>3. job[c] \in Jobs(DOMAIN notes) BY DEF NotesTypeOK
<1>4. p[1] \in DOMAIN notes /\ p[2] \in Bodies BY <1>1, <1>3 DEF Jobs
<1>5. DOMAIN vectors' = DOMAIN vectors \cup {p[1]}
      /\ vectors' \in [DOMAIN vectors \cup {p[1]} -> Bodies]
    BY <1>1, <1>4 DEF With, NotesTypeOK
<1>6. /\ [job[c] EXCEPT !.todo = @ \ {p}] \in Jobs(DOMAIN notes)
      /\ [job[c] EXCEPT !.at = "retire", !.todo = {}] \in Jobs(DOMAIN notes)
    BY <1>3 DEF Jobs
<1>7. job' \in [Clients -> Jobs((DOMAIN notes)')]
    BY <1>1, <1>2, <1>6, FreeTyped, StepTyped
<1> QED BY <1>1, <1>2, <1>4, <1>5, <1>7 DEF NotesTypeOK

LEMMA SearchTyped == ASSUME NotesTypeOK, NEW c \in Clients, Search(c) PROVE NotesTypeOK'
<1> DEFINE missing == {<<i, notes[i].body>> : i \in DOMAIN notes \ DOMAIN vectors}
<1>1. Does(c, [Free EXCEPT !.at = "embed", !.todo = missing], {})
      /\ UNCHANGED <<notes, vectors, exported, told, unsure>> /\ Called
    BY DEF Search
<1>2. missing \in SUBSET ((DOMAIN notes) \X Bodies) BY DEF NotesTypeOK, NoteRows
<1>3. [Free EXCEPT !.at = "embed", !.todo = missing] \in Jobs(DOMAIN notes)
    BY <1>2, FreeTyped DEF Jobs
<1>4. job' \in [Clients -> Jobs((DOMAIN notes)')] BY <1>1, <1>3, StepTyped
<1> QED BY <1>1, <1>4, CalledTyped DEF NotesTypeOK

LEMMA ExportTyped == ASSUME NotesTypeOK, NEW c \in Clients, Export(c) PROVE NotesTypeOK'
<1> DEFINE Line(i) == [id |-> i, topic |-> notes[i].topic, body |-> notes[i].body,
                       retired |-> notes[i].retired]
           count == Cardinality(DOMAIN notes)
<1>1. PICK ids \in [1..count -> DOMAIN notes] :
        exported' = [k \in 1..count |-> Line(ids[k])]
    BY DEF Export
<1>2. UNCHANGED <<notes, vectors, job, told, unsure>> /\ Called BY DEF Export
<1>3. \A i \in DOMAIN notes : Line(i) \in NoteLines
    <2>1. \A i \in DOMAIN notes : i \in 0..MaxNotes BY NoteConstants DEF NotesTypeOK
    <2> QED BY <2>1 DEF NotesTypeOK, NoteRows, NoteLines
<1> HIDE DEF Line
<1>4. exported' \in [1..count -> NoteLines] BY <1>1, <1>3
<1>5. count \in Nat BY NotesFinite
<1>6. exported' \in Seq(NoteLines) BY <1>4, <1>5
<1> QED BY <1>2, <1>6, CalledTyped DEF NotesTypeOK

LEMMA ImportReadsTyped ==
    ASSUME NotesTypeOK, NEW c \in Clients, NEW dry \in BOOLEAN, ImportReads(c, dry)
    PROVE  NotesTypeOK'
<1>1. [Free EXCEPT !.at = "bodies", !.lines = exported, !.dry = dry] \in Jobs(DOMAIN notes)
    BY FreeTyped DEF Jobs, NotesTypeOK
<1>2. job' \in [Clients -> Jobs((DOMAIN notes)')] BY <1>1, StepTyped DEF ImportReads
<1> QED BY <1>2, CalledTyped DEF ImportReads, NotesTypeOK

LEMMA ImportBodiesTyped ==
    ASSUME NotesTypeOK, NEW c \in Clients, ImportBodies(c)
    PROVE  NotesTypeOK'
<1> DEFINE bodies == {notes[i].body : i \in DOMAIN notes}
<1>1. bodies \in SUBSET Bodies BY DEF NotesTypeOK, NoteRows
<1>2. job[c] \in Jobs(DOMAIN notes) BY DEF NotesTypeOK
<1>3. [job[c] EXCEPT !.at = "topics", !.bodies = bodies] \in Jobs(DOMAIN notes)
    BY <1>1, <1>2 DEF Jobs
<1>4. job' \in [Clients -> Jobs((DOMAIN notes)')] BY <1>3, StepTyped DEF ImportBodies
<1> QED BY <1>4 DEF ImportBodies, NotesTypeOK

LEMMA ImportTopicsTyped ==
    ASSUME NotesTypeOK, NEW c \in Clients, ImportTopics(c)
    PROVE  NotesTypeOK'
<1> DEFINE topics == {notes[i].topic : i \in DOMAIN notes}
<1>1. topics \in SUBSET Topics BY DEF NotesTypeOK, NoteRows
<1>2. job[c] \in Jobs(DOMAIN notes) BY DEF NotesTypeOK
<1>3. [job[c] EXCEPT !.at = "line", !.topics = topics] \in Jobs(DOMAIN notes)
    BY <1>1, <1>2 DEF Jobs
<1>4. job' \in [Clients -> Jobs((DOMAIN notes)')] BY <1>3, StepTyped DEF ImportTopics
<1> QED BY <1>4 DEF ImportTopics, NotesTypeOK

\* What a line of an import does to the notes and to the job.
Line(c) == Head(job[c].lines)
Taken(c) == IF Line(c) = Malformed THEN job[c]
            ELSE IF Line(c).body \in job[c].bodies THEN job[c]
            ELSE [job[c] EXCEPT !.bodies = @ \cup {Line(c).body},
                                !.topics = @ \cup {Line(c).topic}]
NextLine(c) == IF Len(job[c].lines) = 1 THEN Free
               ELSE [Taken(c) EXCEPT !.lines = Tail(@)]
Adds(c, i) == /\ i \in 1..MaxNotes /\ i \notin DOMAIN notes
              /\ ~Skips(job[c], Line(c)) /\ OfTopic(Line(c).topic) = {}
              /\ notes' = With(notes, i, RowOf(Line(c)))

LEMMA ImportLineShape ==
    ASSUME NotesTypeOK, NEW c \in Clients, ImportLine(c)
    PROVE  /\ job[c].at = "line" /\ Line(c) \in NoteLines
           /\ Does(c, NextLine(c), IF notes' # notes THEN {Line(c).topic} ELSE {})
           /\ notes' = notes \/ \E i \in 1..MaxNotes : Adds(c, i)
           /\ UNCHANGED <<vectors, exported, told, unsure, calls, cuts>>
<1>1. /\ job[c].at = "line" /\ job[c].lines # <<>>
      /\ IF Skips(job[c], Line(c)) \/ job[c].dry THEN UNCHANGED notes ELSE Insert(Line(c))
      /\ Does(c, NextLine(c), IF notes' # notes THEN {Line(c).topic} ELSE {})
      /\ UNCHANGED <<vectors, exported, told, unsure, calls, cuts>>
    BY DEF ImportLine, Line, NextLine, Taken
<1>2. job[c].lines \in Seq(NoteLines) BY DEF NotesTypeOK, Jobs
<1>3. Line(c) \in NoteLines BY <1>1, <1>2 DEF Line
<1>4. ASSUME ~Skips(job[c], Line(c)), Insert(Line(c)), notes' # notes
      PROVE  \E i \in 1..MaxNotes : Adds(c, i)
    <2>1. ~Refused(Line(c))
          /\ \E i \in IF Line(c).id = 0 THEN NewIds ELSE {Line(c).id} :
                notes' = With(notes, i, RowOf(Line(c)))
        BY <1>4 DEF Insert
    <2>2. PICK i \in IF Line(c).id = 0 THEN NewIds ELSE {Line(c).id} :
                notes' = With(notes, i, RowOf(Line(c)))
        BY <2>1
    <2>3. Line(c).id \in 0..MaxNotes
        BY <1>3, <1>4 DEF NoteLines, Skips
    <2>4. i \in 1..MaxNotes /\ i \notin DOMAIN notes
        BY <2>1, <2>2, <2>3, NewIsNew DEF Refused
    <2> QED BY <1>4, <2>1, <2>2, <2>4 DEF Adds, Refused
<1> QED BY <1>1, <1>3, <1>4

LEMMA ImportLineTyped ==
    ASSUME NotesTypeOK, NEW c \in Clients, ImportLine(c)
    PROVE  NotesTypeOK'
<1>1. job[c].at = "line" /\ Line(c) \in NoteLines
      /\ Does(c, NextLine(c), IF notes' # notes THEN {Line(c).topic} ELSE {})
      /\ UNCHANGED <<vectors, exported, told, unsure, calls, cuts>>
    BY ImportLineShape
<1>2. job[c] \in Jobs(DOMAIN notes) BY DEF NotesTypeOK
<1>3. NextLine(c) \in Jobs(DOMAIN notes)
    <2>1. Taken(c) \in Jobs(DOMAIN notes) /\ Taken(c).lines = job[c].lines
        BY <1>1, <1>2 DEF Taken, Jobs, NoteLines
    <2>2. job[c].lines # <<>>
        BY DEF ImportLine
    <2>3. Tail(Taken(c).lines) \in Seq(NoteLines) BY <2>1, <2>2, <1>2 DEF Jobs
    <2> QED BY <2>1, <2>3, FreeTyped DEF NextLine, Jobs
<1>4. CASE notes' = notes
    <2>1. job' \in [Clients -> Jobs((DOMAIN notes)')] BY <1>1, <1>3, <1>4, StepTyped
    <2> QED BY <1>1, <1>4, <2>1 DEF NotesTypeOK
<1>5. ASSUME NEW i \in 1..MaxNotes, Adds(c, i) PROVE NotesTypeOK'
    <2>1. Line(c) # Malformed BY <1>5 DEF Adds, Skips
    <2>2. RowOf(Line(c)) \in NoteRows /\ Line(c).topic \in Topics
        BY <1>1, <2>1 DEF RowOf, NoteRows, NoteLines
    <2>3. DOMAIN notes' = DOMAIN notes \cup {i}
          /\ notes' \in [DOMAIN notes \cup {i} -> NoteRows]
        BY <1>5, <2>2 DEF Adds, With, NotesTypeOK
    <2>4. NextLine(c) \in Jobs(DOMAIN notes') BY <1>3, <2>3, JobsGrow
    <2>5. (IF notes' # notes THEN {Line(c).topic} ELSE {}) \in SUBSET Topics BY <2>2
    <2>6. job' \in [Clients -> Jobs((DOMAIN notes)')]
        BY <1>1, <2>3, <2>4, <2>5, DoesTyped
    <2> QED BY <1>1, <2>3, <2>6 DEF NotesTypeOK
<1> QED BY <1>4, <1>5, ImportLineShape

LEMMA ClientDiesTyped ==
    ASSUME NotesTypeOK, NEW c \in Clients, ClientDies(c)
    PROVE  NotesTypeOK'
<1>1. Does(c, Free, {}) /\ UNCHANGED <<notes, vectors, exported, told, calls>>
      /\ cuts' \in 0..MaxCuts
    BY NoteConstants DEF ClientDies, NotesTypeOK
<1>2. unsure' \subseteq DOMAIN notes BY DEF ClientDies, NotesTypeOK
<1>3. job' \in [Clients -> Jobs((DOMAIN notes)')] BY <1>1, FreeTyped, StepTyped
<1> QED BY <1>1, <1>2, <1>3 DEF NotesTypeOK

-----------------------------------------------------------------------------
(* The inductive invariant.                                                  *)

\* Only the writing of vectors has some to write, one for a note, and a revise has a
\* note to retire.
JobsFit == \A c \in Clients : /\ job[c].at # "embed" => job[c].todo = {}
                              /\ \A p, q \in job[c].todo : p[1] = q[1] => p = q
                              /\ job[c].at = "retire" => job[c].old # 0
\* A vector under way is of the note's text, or the note is unsure.
UnderWay == \A c \in Clients : \A p \in job[c].todo :
                notes[p[1]].body = p[2] \/ p[1] \in unsure
\* What an import takes for known, and what was written since, are all the topics.
LooksCover == \A c \in Clients : job[c].at = "line" =>
                \A i \in DOMAIN notes : notes[i].topic \in job[c].topics \cup job[c].since
ToldTopics == \A t \in DOMAIN told : told[t].topic = t

NotesIInv == /\ NotesTypeOK /\ JobsFit
             /\ UnderWay /\ VectorsCurrent
             /\ LooksCover
             /\ ToldTopics /\ LocalNotesStand

LEMMA OthersKeep ==
    ASSUME NotesTypeOK, NEW c \in Clients, NEW next, NEW t, Does(c, next, t)
    PROVE  \A d \in Clients \ {c} :
             /\ job'[d].todo = job[d].todo /\ job'[d].at = job[d].at
             /\ job'[d].old = job[d].old /\ job'[d].topics = job[d].topics
             /\ job[d].at = "line" => job'[d].since = job[d].since \cup t
<1> SUFFICES ASSUME NEW d \in Clients \ {c}
             PROVE  /\ job'[d].todo = job[d].todo /\ job'[d].at = job[d].at
                    /\ job'[d].old = job[d].old /\ job'[d].topics = job[d].topics
                    /\ job[d].at = "line" => job'[d].since = job[d].since \cup t
    OBVIOUS
<1>1. job[d] \in Jobs(DOMAIN notes) BY DEF NotesTypeOK
<1>2. job'[d] = IF job[d].at = "line" THEN [job[d] EXCEPT !.since = @ \cup t] ELSE job[d]
    BY DoesShape
<1> QED BY <1>1, <1>2 DEF Jobs

-----------------------------------------------------------------------------
(* Rows.                                                                     *)

\* A row is written where its topic has its place, and the commands have told so.
LEMMA LocalWritten ==
    ASSUME ToldTopics, LocalNotesStand, NEW i, NEW r,
           notes' = With(notes, i, r), told' = With(told, r.topic, r),
           \/ i \notin DOMAIN notes /\ OfTopic(r.topic) = {}
           \/ i \in DOMAIN notes /\ notes[i].topic = r.topic
    PROVE  ToldTopics' /\ LocalNotesStand'
<1>1. ToldTopics' BY DEF ToldTopics, With
<1>2. \A k, m \in DOMAIN notes' : notes'[k].topic = notes'[m].topic => k = m
    BY DEF LocalNotesStand, OfTopic, With
<1>3. ASSUME NEW t \in DOMAIN told' PROVE \E k \in DOMAIN notes' : notes'[k] = told'[t]
    <2>1. CASE t = r.topic BY <2>1 DEF With
    <2>2. CASE t # r.topic
        <3>1. t \in DOMAIN told /\ told'[t] = told[t] BY <1>3, <2>2 DEF With
        <3>2. PICK k \in DOMAIN notes : notes[k] = told[t] BY <3>1 DEF LocalNotesStand
        <3>3. notes[k].topic = t BY <3>1, <3>2 DEF ToldTopics
        <3>4. k # i BY <2>2, <3>3
        <3> QED BY <3>1, <3>2, <3>4 DEF With
    <2> QED BY <2>1, <2>2
<1> QED BY <1>1, <1>2, <1>3 DEF LocalNotesStand

\* An import only adds rows.
LEMMA LocalAdded ==
    ASSUME ToldTopics, LocalNotesStand, NEW i, NEW r, notes' = With(notes, i, r),
           told' = told, i \notin DOMAIN notes, OfTopic(r.topic) = {}
    PROVE  ToldTopics' /\ LocalNotesStand'
<1>1. ToldTopics' BY DEF ToldTopics
<1>2. \A k, m \in DOMAIN notes' : notes'[k].topic = notes'[m].topic => k = m
    BY DEF LocalNotesStand, OfTopic, With
<1>3. \A t \in DOMAIN told' : \E k \in DOMAIN notes' : notes'[k] = told'[t]
    BY DEF LocalNotesStand, With
<1> QED BY <1>1, <1>2, <1>3 DEF LocalNotesStand

LEMMA LocalRests ==
    ASSUME ToldTopics, LocalNotesStand, UNCHANGED <<notes, told>>
    PROVE  ToldTopics' /\ LocalNotesStand'
BY DEF ToldTopics, LocalNotesStand

LEMMA LocalUpsert ==
    ASSUME NotesIInv, NEW c \in Clients, NEW t \in Topics, NEW b \in Bodies, NEW old,
           Upsert(c, t, b, old)
    PROVE  ToldTopics' /\ LocalNotesStand'
<1> DEFINE now == [topic |-> t, body |-> b, retired |-> FALSE]
<1>1. PICK i \in IF OfTopic(t) = {} THEN NewIds ELSE OfTopic(t) :
        notes' = With(notes, i, now) /\ told' = With(told, now.topic, now)
    BY DEF Upsert
<1>2. \/ i \notin DOMAIN notes /\ OfTopic(now.topic) = {}
      \/ i \in DOMAIN notes /\ notes[i].topic = now.topic
    BY <1>1, NewIsNew DEF OfTopic
<1> QED BY <1>1, <1>2, LocalWritten DEF NotesIInv

LEMMA LocalRetires ==
    ASSUME NotesIInv, NEW i \in DOMAIN notes, Retires(i)
    PROVE  ToldTopics' /\ LocalNotesStand'
<1> DEFINE now == [notes[i] EXCEPT !.retired = TRUE]
<1>1. notes' = With(notes, i, now) /\ told' = With(told, now.topic, now) BY DEF Retires
<1>2. notes[i].topic = now.topic BY DEF NotesIInv, NotesTypeOK, NoteRows
<1> QED BY <1>1, <1>2, LocalWritten DEF NotesIInv

LEMMA LocalLine ==
    ASSUME NotesIInv, NEW c \in Clients, ImportLine(c)
    PROVE  ToldTopics' /\ LocalNotesStand'
<1>1. NotesTypeOK /\ ToldTopics /\ LocalNotesStand BY DEF NotesIInv
<1>2. told' = told /\ (notes' = notes \/ \E i \in 1..MaxNotes : Adds(c, i))
    BY <1>1, ImportLineShape
<1>3. CASE notes' = notes BY <1>1, <1>2, <1>3, LocalRests
<1>4. ASSUME NEW i \in 1..MaxNotes, Adds(c, i) PROVE ToldTopics' /\ LocalNotesStand'
    <2>1. notes' = With(notes, i, RowOf(Line(c))) /\ i \notin DOMAIN notes
          /\ OfTopic(RowOf(Line(c)).topic) = {}
        BY <1>4 DEF Adds, RowOf
    <2> QED BY <1>1, <1>2, <2>1, LocalAdded
<1> QED BY <1>2, <1>3, <1>4

-----------------------------------------------------------------------------
(* Vectors.                                                                  *)

VectorInv == JobsFit /\ UnderWay /\ VectorsCurrent

\* Steps that write no vector, begin none, and change no text.
LEMMA VectorsRest ==
    ASSUME NotesTypeOK, VectorInv, UNCHANGED <<vectors, unsure>>,
           \A i \in DOMAIN notes : i \in DOMAIN notes' /\ notes'[i].body = notes[i].body,
           \A d \in Clients :
             /\ job'[d].todo = job[d].todo
             /\ job'[d].at # "embed" => job[d].at # "embed" \/ job[d].todo = {}
             /\ job'[d].at = "retire" => job'[d].old # 0
    PROVE  VectorInv'
<1>1. \A d \in Clients : \A p \in job[d].todo : p[1] \in DOMAIN notes
    BY DEF NotesTypeOK, Jobs
<1>2. JobsFit' BY DEF VectorInv, JobsFit
<1>3. UnderWay' BY <1>1 DEF VectorInv, UnderWay
<1>4. VectorsCurrent'
    <2>1. DOMAIN vectors \subseteq DOMAIN notes BY DEF NotesTypeOK
    <2> QED BY <2>1 DEF VectorInv, VectorsCurrent
<1> QED BY <1>2, <1>3, <1>4 DEF VectorInv

\* The same, as one client's step from a job without vectors to one without.
LEMMA VectorsStep ==
    ASSUME NotesTypeOK, VectorInv, NEW c \in Clients, NEW next, NEW t, Does(c, next, t),
           next.todo = {}, next.at = "retire" => next.old # 0, job[c].todo = {},
           UNCHANGED <<vectors, unsure>>,
           \A i \in DOMAIN notes : i \in DOMAIN notes' /\ notes'[i].body = notes[i].body
    PROVE  VectorInv'
<1>1. job'[c] = next BY DoesShape
<1>2. ASSUME NEW d \in Clients
      PROVE  /\ job'[d].todo = job[d].todo
             /\ job'[d].at # "embed" => job[d].at # "embed" \/ job[d].todo = {}
             /\ job'[d].at = "retire" => job'[d].old # 0
    <2>1. CASE d = c BY <1>1, <2>1
    <2>2. CASE d # c BY <2>2, OthersKeep DEF VectorInv, JobsFit
    <2> QED BY <2>1, <2>2
<1> QED BY <1>2, VectorsRest

LEMMA VectorsUpsert ==
    ASSUME NotesIInv, NEW c \in Clients, NEW t \in Topics, NEW b \in Bodies, NEW old,
           Upsert(c, t, b, old), job[c] = Free, UNCHANGED vectors
    PROVE  VectorInv'
<1> DEFINE now == [topic |-> t, body |-> b, retired |-> FALSE]
           next(i) == [Free EXCEPT !.at = "embed", !.todo = {<<i, b>>},
                                   !.old = IF old = i THEN 0 ELSE old]
<1>0. NotesTypeOK /\ JobsFit /\ UnderWay /\ VectorsCurrent BY DEF NotesIInv
<1>1. PICK i \in IF OfTopic(t) = {} THEN NewIds ELSE OfTopic(t) :
        /\ notes' = With(notes, i, now)
        /\ unsure' = IF Overlapped(c, i) THEN unsure \cup {i} ELSE unsure
        /\ Does(c, next(i), {t})
    BY DEF Upsert
<1>2. /\ next(i).at = "embed" /\ next(i).todo = {<<i, b>>}
    BY DEF Free
<1>3. job'[c] = next(i) BY <1>1, DoesShape
<1>4. \A d \in Clients \ {c} : /\ job'[d].todo = job[d].todo /\ job'[d].at = job[d].at
                               /\ job'[d].old = job[d].old
    BY <1>0, <1>1, OthersKeep
<1>5. \A d \in Clients : \A p \in job[d].todo : p[1] \in DOMAIN notes
    BY <1>0 DEF NotesTypeOK, Jobs
<1>6. notes'[i].body = b /\ \A k \in DOMAIN notes \ {i} : notes'[k] = notes[k]
    BY <1>1 DEF With
<1>7. unsure \subseteq unsure' BY <1>1
<1>8. JobsFit'
    <2>1. \A p, q \in job'[c].todo : p = q BY <1>2, <1>3
    <2>2. job'[c].at = "embed" BY <1>2, <1>3
    <2> QED BY <1>0, <1>4, <2>1, <2>2 DEF JobsFit
<1>9. UnderWay'
    <2> SUFFICES ASSUME NEW d \in Clients, NEW p \in job'[d].todo
                 PROVE  notes'[p[1]].body = p[2] \/ p[1] \in unsure'
        BY DEF UnderWay
    <2>1. CASE d = c
        <3>1. p = <<i, b>> BY <1>2, <1>3, <2>1
        <3> QED BY <1>6, <3>1
    <2>2. CASE d # c /\ p[1] = i
        <3>1. Overlapped(c, i) BY <1>4, <2>2 DEF Overlapped
        <3> QED BY <1>1, <2>2, <3>1
    <2>3. CASE d # c /\ p[1] # i
        <3>1. p \in job[d].todo BY <1>4, <2>3
        <3> QED BY <1>0, <1>5, <1>6, <1>7, <2>3, <3>1 DEF UnderWay
    <2> QED BY <2>1, <2>2, <2>3
<1>10. VectorsCurrent'
    <2> SUFFICES ASSUME NEW k \in DOMAIN vectors, k \notin unsure'
                 PROVE  vectors[k] = notes'[k].body
                        \/ \E d \in Clients : <<k, notes'[k].body>> \in job'[d].todo
        BY DEF VectorsCurrent
    <2>1. CASE k = i BY <1>2, <1>3, <1>6, <2>1
    <2>2. CASE k # i
        <3>1. k \in DOMAIN notes BY <1>0 DEF NotesTypeOK
        <3>2. notes'[k] = notes[k] BY <1>6, <2>2, <3>1
        <3>3. vectors[k] = notes[k].body
              \/ \E d \in Clients : <<k, notes[k].body>> \in job[d].todo
            BY <1>0, <1>7 DEF VectorsCurrent
        <3>4. ASSUME NEW d \in Clients, <<k, notes[k].body>> \in job[d].todo
              PROVE  <<k, notes'[k].body>> \in job'[d].todo
            <4>1. d # c BY <3>4 DEF Free
            <4> QED BY <1>4, <3>2, <3>4, <4>1
        <3> QED BY <3>2, <3>3, <3>4
    <2> QED BY <2>1, <2>2
<1> QED BY <1>8, <1>9, <1>10 DEF VectorInv

LEMMA VectorsEmbed ==
    ASSUME NotesIInv, NEW c \in Clients, Embed(c)
    PROVE  VectorInv'
<1> DEFINE next(p) == IF job[c].todo # {p} THEN [job[c] EXCEPT !.todo = @ \ {p}]
                      ELSE IF job[c].old = 0 THEN Free
                      ELSE [job[c] EXCEPT !.at = "retire", !.todo = {}]
<1>0. NotesTypeOK /\ JobsFit /\ UnderWay /\ VectorsCurrent BY DEF NotesIInv
<1>1. PICK p \in job[c].todo :
          /\ vectors' = With(vectors, p[1], p[2])
          /\ unsure' = IF notes[p[1]].body = p[2] /\ ~Overlapped(c, p[1])
                       THEN unsure \ {p[1]} ELSE unsure
          /\ Does(c, next(p), {})
    BY DEF Embed
<1>2. notes' = notes /\ job[c].at = "embed" BY DEF Embed
<1>3. job[c] \in Jobs(DOMAIN notes) BY <1>0 DEF NotesTypeOK
<1>4. /\ job'[c].todo = job[c].todo \ {p}
      /\ job'[c].at # "embed" => job'[c].todo = {}
      /\ job'[c].at = "retire" => job'[c].old # 0
    <2>1. job'[c] = next(p) BY <1>1, DoesShape
    <2>2. CASE job[c].todo # {p} BY <1>2, <1>3, <2>1, <2>2 DEF Jobs
    <2>3. CASE job[c].todo = {p} /\ job[c].old = 0 BY <2>1, <2>3 DEF Free
    <2>4. CASE job[c].todo = {p} /\ job[c].old # 0 BY <1>3, <2>1, <2>4 DEF Jobs
    <2> QED BY <2>2, <2>3, <2>4
<1>5. \A d \in Clients \ {c} : /\ job'[d].todo = job[d].todo /\ job'[d].at = job[d].at
                               /\ job'[d].old = job[d].old
    BY <1>0, <1>1, OthersKeep
<1>6. p[1] \in DOMAIN notes /\ p = <<p[1], p[2]>> BY <1>1, <1>3 DEF Jobs
<1>7. \A k \in unsure : k # p[1] => k \in unsure' BY <1>1
<1>8. JobsFit' BY <1>0, <1>4, <1>5 DEF JobsFit
<1>9. UnderWay'
    <2> SUFFICES ASSUME NEW d \in Clients, NEW q \in job'[d].todo
                 PROVE  notes[q[1]].body = q[2] \/ q[1] \in unsure'
        BY <1>2 DEF UnderWay
    <2>1. q \in job[d].todo BY <1>4, <1>5
    <2>2. notes[q[1]].body = q[2] \/ q[1] \in unsure BY <1>0, <2>1 DEF UnderWay
    <2>3. CASE q[1] # p[1] BY <1>7, <2>2, <2>3
    <2>4. CASE q[1] = p[1] /\ d # c
        <3>1. Overlapped(c, p[1]) BY <2>1, <2>4 DEF Overlapped
        <3> QED BY <1>1, <2>2, <3>1
    <2>5. CASE q[1] = p[1] /\ d = c BY <1>0, <1>1, <1>4, <2>1, <2>5 DEF JobsFit
    <2> QED BY <2>3, <2>4, <2>5
<1>10. VectorsCurrent'
    <2> SUFFICES ASSUME NEW k \in DOMAIN vectors', k \notin unsure'
                 PROVE  vectors'[k] = notes[k].body
                        \/ \E d \in Clients : <<k, notes[k].body>> \in job'[d].todo
        BY <1>2 DEF VectorsCurrent
    <2>1. CASE k = p[1]
        <3>1. vectors'[k] = p[2] BY <1>1, <2>1 DEF With
        <3>2. CASE notes[k].body = p[2] BY <3>1, <3>2
        <3>3. CASE notes[k].body # p[2]
            <4>1. p[1] \in unsure BY <1>0, <2>1, <3>3 DEF UnderWay
            <4> QED BY <1>1, <2>1, <3>3, <4>1
        <3> QED BY <3>2, <3>3
    <2>2. CASE k # p[1]
        <3>1. k \in DOMAIN vectors /\ vectors'[k] = vectors[k] BY <1>1, <2>2 DEF With
        <3>2. vectors[k] = notes[k].body
              \/ \E d \in Clients : <<k, notes[k].body>> \in job[d].todo
            BY <1>0, <1>7, <2>2, <3>1 DEF VectorsCurrent
        <3>3. ASSUME NEW d \in Clients, <<k, notes[k].body>> \in job[d].todo
              PROVE  <<k, notes[k].body>> \in job'[d].todo
            BY <1>4, <1>5, <1>6, <2>2, <3>3
        <3> QED BY <3>1, <3>2, <3>3
    <2> QED BY <2>1, <2>2
<1> QED BY <1>8, <1>9, <1>10 DEF VectorInv

LEMMA VectorsSearch ==
    ASSUME NotesIInv, NEW c \in Clients, Search(c)
    PROVE  VectorInv'
<1> DEFINE missing == {<<i, notes[i].body>> : i \in DOMAIN notes \ DOMAIN vectors}
           next == [Free EXCEPT !.at = "embed", !.todo = missing]
<1>0. NotesTypeOK /\ JobsFit /\ UnderWay /\ VectorsCurrent BY DEF NotesIInv
<1>1. /\ Does(c, next, {}) /\ job[c] = Free
      /\ UNCHANGED <<notes, vectors, exported, told, unsure>>
    BY DEF Search
<1>2. job'[c].at = "embed" /\ job'[c].todo = missing
    <2>1. next.at = "embed" /\ next.todo = missing BY DEF Free
    <2> QED BY <1>1, <2>1, DoesShape
<1>3. \A d \in Clients \ {c} : /\ job'[d].todo = job[d].todo /\ job'[d].at = job[d].at
                               /\ job'[d].old = job[d].old
    BY <1>0, <1>1, OthersKeep
<1>4. JobsFit'
    <2>1. \A p, q \in missing : p[1] = q[1] => p = q OBVIOUS
    <2> QED BY <1>0, <1>2, <1>3, <2>1 DEF JobsFit
<1>5. UnderWay'
    <2>1. \A p \in missing : notes[p[1]].body = p[2] OBVIOUS
    <2> QED BY <1>0, <1>1, <1>2, <1>3, <2>1 DEF UnderWay
<1>6. VectorsCurrent'
    <2>1. job[c].todo = {} BY <1>1 DEF Free
    <2> QED BY <1>0, <1>1, <1>3, <2>1 DEF VectorsCurrent
<1> QED BY <1>4, <1>5, <1>6 DEF VectorInv

LEMMA VectorsDies ==
    ASSUME NotesIInv, NEW c \in Clients, ClientDies(c)
    PROVE  VectorInv'
<1>0. NotesTypeOK /\ JobsFit /\ UnderWay /\ VectorsCurrent BY DEF NotesIInv
<1>1. /\ Does(c, Free, {}) /\ UNCHANGED <<notes, vectors>>
      /\ unsure' = unsure \cup {p[1] : p \in {q \in job[c].todo :
                                  q[1] \in DOMAIN vectors /\ vectors[q[1]] # q[2]}}
    BY DEF ClientDies
<1>2. job'[c] = Free BY <1>1, DoesShape
<1>3. \A d \in Clients \ {c} : /\ job'[d].todo = job[d].todo /\ job'[d].at = job[d].at
                               /\ job'[d].old = job[d].old
    BY <1>0, <1>1, OthersKeep
<1>4. JobsFit' BY <1>0, <1>2, <1>3 DEF JobsFit, Free
<1>5. UnderWay' BY <1>0, <1>1, <1>2, <1>3 DEF UnderWay, Free
<1>6. VectorsCurrent'
    <2> SUFFICES ASSUME NEW k \in DOMAIN vectors, k \notin unsure', vectors[k] # notes[k].body
                 PROVE  \E d \in Clients : <<k, notes[k].body>> \in job'[d].todo
        BY <1>1 DEF VectorsCurrent
    <2>1. PICK d \in Clients : <<k, notes[k].body>> \in job[d].todo
        BY <1>0, <1>1 DEF VectorsCurrent
    <2>2. d # c
        <3> SUFFICES ASSUME d = c PROVE FALSE OBVIOUS
        <3>1. k \in {p[1] : p \in {q \in job[c].todo :
                                  q[1] \in DOMAIN vectors /\ vectors[q[1]] # q[2]}}
            BY <2>1
        <3> QED BY <1>1, <3>1
    <2> QED BY <1>3, <2>1, <2>2
<1> QED BY <1>4, <1>5, <1>6 DEF VectorInv

LEMMA VectorsRetires ==
    ASSUME NotesIInv, NEW c \in Clients, ReviseRetires(c) \/ \E i \in DOMAIN notes : Retire(c, i)
    PROVE  VectorInv'
<1>0. NotesTypeOK /\ VectorInv BY DEF NotesIInv, VectorInv
<1>1. \A i \in DOMAIN notes : Retires(i) =>
        \A k \in DOMAIN notes : k \in DOMAIN notes' /\ notes'[k].body = notes[k].body
    BY <1>0 DEF Retires, With, NotesTypeOK, NoteRows
<1>2. CASE ReviseRetires(c)
    <2>1. job[c].at = "retire" /\ Retires(job[c].old) /\ Does(c, Free, {})
          /\ UNCHANGED <<vectors, unsure>>
        BY <1>2 DEF ReviseRetires
    <2>2. job[c].old \in DOMAIN notes
        BY <1>0, <2>1 DEF VectorInv, JobsFit, NotesTypeOK, Jobs
    <2>3. job[c].todo = {} BY <1>0, <2>1 DEF VectorInv, JobsFit
    <2>4. Free.todo = {} /\ Free.at # "retire" BY DEF Free
    <2> QED BY <1>0, <1>1, <2>1, <2>2, <2>3, <2>4, VectorsStep
<1>3. CASE \E i \in DOMAIN notes : Retire(c, i)
    <2>1. UNCHANGED <<vectors, unsure, job>> BY <1>3 DEF Retire
    <2>2. \A k \in DOMAIN notes : k \in DOMAIN notes' /\ notes'[k].body = notes[k].body
        BY <1>1, <1>3 DEF Retire
    <2>3. \A d \in Clients :
             /\ job'[d].todo = job[d].todo
             /\ job'[d].at # "embed" => job[d].at # "embed" \/ job[d].todo = {}
             /\ job'[d].at = "retire" => job'[d].old # 0
        BY <1>0, <2>1 DEF VectorInv, JobsFit
    <2> QED BY <1>0, <2>1, <2>2, <2>3, VectorsRest
<1> QED BY <1>2, <1>3

LEMMA VectorsImport ==
    ASSUME NotesIInv, NEW c \in Clients,
           \/ \E dry \in BOOLEAN : ImportReads(c, dry)
           \/ ImportBodies(c) \/ ImportTopics(c) \/ ImportLine(c)
    PROVE  VectorInv'
<1>0. NotesTypeOK /\ VectorInv BY DEF NotesIInv, VectorInv
<1>1. job[c] \in Jobs(DOMAIN notes) BY <1>0 DEF NotesTypeOK
<1>2. job[c].at # "embed" => job[c].todo = {} BY <1>0 DEF VectorInv, JobsFit
<1>3. ASSUME NEW dry \in BOOLEAN, ImportReads(c, dry) PROVE VectorInv'
    <2> DEFINE next == [Free EXCEPT !.at = "bodies", !.lines = exported, !.dry = dry]
    <2>1. next.todo = {} /\ next.at # "retire" /\ Free.todo = {} BY DEF Free
    <2>2. job[c] = Free /\ Does(c, next, {}) /\ UNCHANGED <<notes, vectors, unsure>>
        BY <1>3 DEF ImportReads
    <2> HIDE DEF next
    <2> QED BY <1>0, <2>1, <2>2, VectorsStep
<1>4. CASE ImportBodies(c)
    <2> DEFINE next == [job[c] EXCEPT !.at = "topics",
                                      !.bodies = {notes[i].body : i \in DOMAIN notes}]
    <2>1. job[c].at = "bodies" /\ Does(c, next, {}) /\ UNCHANGED <<notes, vectors, unsure>>
        BY <1>4 DEF ImportBodies
    <2>2. next.todo = {} /\ next.at # "retire" BY <1>1, <1>2, <2>1 DEF Jobs
    <2> HIDE DEF next
    <2> QED BY <1>0, <1>2, <2>1, <2>2, VectorsStep
<1>5. CASE ImportTopics(c)
    <2> DEFINE next == [job[c] EXCEPT !.at = "line",
                                      !.topics = {notes[i].topic : i \in DOMAIN notes}]
    <2>1. job[c].at = "topics" /\ Does(c, next, {}) /\ UNCHANGED <<notes, vectors, unsure>>
        BY <1>5 DEF ImportTopics
    <2>2. next.todo = {} /\ next.at # "retire" BY <1>1, <1>2, <2>1 DEF Jobs
    <2> HIDE DEF next
    <2> QED BY <1>0, <1>2, <2>1, <2>2, VectorsStep
<1>6. CASE ImportLine(c)
    <2>1. /\ job[c].at = "line" /\ UNCHANGED <<vectors, unsure>>
          /\ Does(c, NextLine(c), IF notes' # notes THEN {Line(c).topic} ELSE {})
          /\ notes' = notes \/ \E i \in 1..MaxNotes : Adds(c, i)
        BY <1>0, <1>6, ImportLineShape
    <2>2. NextLine(c).todo = {} /\ NextLine(c).at # "retire"
        BY <1>1, <1>2, <2>1 DEF NextLine, Taken, Jobs, Free
    <2>3. \A k \in DOMAIN notes : k \in DOMAIN notes' /\ notes'[k].body = notes[k].body
        BY <2>1 DEF Adds, With
    <2> QED BY <1>0, <1>2, <2>1, <2>2, <2>3, VectorsStep
<1> QED BY <1>3, <1>4, <1>5, <1>6

-----------------------------------------------------------------------------
(* What imports take for known.                                              *)

LEMMA CoverStep ==
    ASSUME NotesTypeOK, LooksCover, NEW c \in Clients, NEW next, NEW t, Does(c, next, t),
           \A i \in DOMAIN notes' : \/ i \in DOMAIN notes /\ notes'[i].topic = notes[i].topic
                                   \/ notes'[i].topic \in t,
           next.at = "line" =>
             \A i \in DOMAIN notes' : notes'[i].topic \in next.topics \cup next.since
    PROVE  LooksCover'
<1> SUFFICES ASSUME NEW d \in Clients, job'[d].at = "line", NEW i \in DOMAIN notes'
             PROVE  notes'[i].topic \in job'[d].topics \cup job'[d].since
    BY DEF LooksCover
<1>1. CASE d = c
    <2>1. job'[d] = next BY <1>1, DoesShape
    <2> QED BY <2>1
<1>2. CASE d # c
    <2>1. /\ job[d].at = "line" /\ job'[d].topics = job[d].topics
          /\ job'[d].since = job[d].since \cup t
        BY <1>2, OthersKeep
    <2> QED BY <2>1 DEF LooksCover
<1> QED BY <1>1, <1>2

LEMMA CoverUpsert ==
    ASSUME NotesIInv, NEW c \in Clients, NEW t \in Topics, NEW b \in Bodies, NEW old,
           Upsert(c, t, b, old)
    PROVE  LooksCover'
<1> DEFINE now == [topic |-> t, body |-> b, retired |-> FALSE]
           next(i) == [Free EXCEPT !.at = "embed", !.todo = {<<i, b>>},
                                   !.old = IF old = i THEN 0 ELSE old]
<1>1. PICK i \in IF OfTopic(t) = {} THEN NewIds ELSE OfTopic(t) :
        notes' = With(notes, i, now) /\ Does(c, next(i), {t})
    BY DEF Upsert
<1>2. next(i).at # "line" BY DEF Free
<1>3. \A k \in DOMAIN notes' : \/ k \in DOMAIN notes /\ notes'[k].topic = notes[k].topic
                              \/ notes'[k].topic \in {t}
    BY <1>1 DEF With
<1> HIDE DEF next
<1> QED BY <1>1, <1>2, <1>3, CoverStep DEF NotesIInv

LEMMA CoverRetires ==
    ASSUME NotesIInv, NEW c \in Clients, ReviseRetires(c) \/ \E i \in DOMAIN notes : Retire(c, i)
    PROVE  LooksCover'
<1>0. NotesTypeOK /\ LooksCover /\ JobsFit BY DEF NotesIInv
<1>1. ASSUME NEW i \in DOMAIN notes, Retires(i)
      PROVE  DOMAIN notes' = DOMAIN notes
             /\ \A k \in DOMAIN notes : notes'[k].topic = notes[k].topic
    BY <1>0, <1>1 DEF Retires, With, NotesTypeOK, NoteRows
<1>2. CASE ReviseRetires(c)
    <2>1. job[c].at = "retire" /\ Retires(job[c].old) /\ Does(c, Free, {})
        BY <1>2 DEF ReviseRetires
    <2>2. job[c].old \in DOMAIN notes BY <1>0, <2>1 DEF JobsFit, NotesTypeOK, Jobs
    <2>3. Free.at # "line" BY DEF Free
    <2> QED BY <1>0, <1>1, <2>1, <2>2, <2>3, CoverStep
<1>3. CASE \E i \in DOMAIN notes : Retire(c, i)
    <2>1. job' = job BY <1>3 DEF Retire
    <2>2. DOMAIN notes' = DOMAIN notes /\ \A k \in DOMAIN notes : notes'[k].topic = notes[k].topic
        BY <1>1, <1>3 DEF Retire
    <2> QED BY <1>0, <2>1, <2>2 DEF LooksCover
<1> QED BY <1>2, <1>3

\* Steps of a client that is no import, and leaves the notes alone.
LEMMA CoverRests ==
    ASSUME NotesIInv, NEW c \in Clients,
           \/ Embed(c) \/ Search(c) \/ ClientDies(c) \/ ImportBodies(c)
           \/ \E dry \in BOOLEAN : ImportReads(c, dry)
    PROVE  LooksCover'
<1>0. NotesTypeOK /\ LooksCover BY DEF NotesIInv
<1>1. job[c] \in Jobs(DOMAIN notes) BY <1>0 DEF NotesTypeOK
<1>2. notes' = notes BY DEF Embed, Search, ClientDies, ImportBodies, ImportReads
<1>3. \E next : next.at # "line" /\ Does(c, next, {})
    <2>1. CASE Embed(c)
        <3> DEFINE rest(p) == IF job[c].todo # {p} THEN [job[c] EXCEPT !.todo = @ \ {p}]
                              ELSE IF job[c].old = 0 THEN Free
                              ELSE [job[c] EXCEPT !.at = "retire", !.todo = {}]
        <3>1. PICK p \in job[c].todo : Does(c, rest(p), {}) BY <2>1 DEF Embed
        <3>2. rest(p).at # "line" BY <1>1, <2>1 DEF Embed, Jobs, Free
        <3> HIDE DEF rest
        <3> QED BY <3>1, <3>2
    <2>2. CASE Search(c) \/ ClientDies(c) \/ \E dry \in BOOLEAN : ImportReads(c, dry)
        BY <2>2 DEF Search, ClientDies, ImportReads, Free
    <2>3. CASE ImportBodies(c)
        <3> DEFINE next == [job[c] EXCEPT !.at = "topics",
                                          !.bodies = {notes[i].body : i \in DOMAIN notes}]
        <3>1. Does(c, next, {}) BY <2>3 DEF ImportBodies
        <3>2. next.at # "line" BY <1>1 DEF Jobs
        <3> HIDE DEF next
        <3> QED BY <3>1, <3>2
    <2> QED BY <2>1, <2>2, <2>3
<1> QED BY <1>0, <1>2, <1>3, CoverStep

LEMMA CoverTopics ==
    ASSUME NotesIInv, NEW c \in Clients, ImportTopics(c)
    PROVE  LooksCover'
<1> DEFINE topics == {notes[i].topic : i \in DOMAIN notes}
           next == [job[c] EXCEPT !.at = "line", !.topics = topics]
<1>0. NotesTypeOK /\ LooksCover BY DEF NotesIInv
<1>1. job[c] \in Jobs(DOMAIN notes) BY <1>0 DEF NotesTypeOK
<1>2. Does(c, next, {}) /\ notes' = notes BY DEF ImportTopics
<1>3. next.topics = topics BY <1>1 DEF Jobs
<1>4. \A i \in DOMAIN notes : notes[i].topic \in next.topics BY <1>3
<1> HIDE DEF next, topics
<1> QED BY <1>0, <1>2, <1>4, CoverStep

LEMMA CoverLine ==
    ASSUME NotesIInv, NEW c \in Clients, ImportLine(c)
    PROVE  LooksCover'
<1> DEFINE t == IF notes' # notes THEN {Line(c).topic} ELSE {}
<1>0. NotesTypeOK /\ LooksCover BY DEF NotesIInv
<1>1. job[c] \in Jobs(DOMAIN notes) BY <1>0 DEF NotesTypeOK
<1>2. /\ job[c].at = "line" /\ Does(c, NextLine(c), t)
      /\ notes' = notes \/ \E i \in 1..MaxNotes : Adds(c, i)
    BY <1>0, ImportLineShape
<1>3. \A k \in DOMAIN notes' : \/ k \in DOMAIN notes /\ notes'[k] = notes[k]
                              \/ notes'[k].topic \in t
    <2>1. CASE notes' = notes BY <2>1
    <2>2. ASSUME NEW i \in 1..MaxNotes, Adds(c, i),
                 NEW k \in DOMAIN notes'
          PROVE  \/ k \in DOMAIN notes /\ notes'[k] = notes[k]
                 \/ notes'[k].topic \in t
        <3>1. /\ i \notin DOMAIN notes /\ DOMAIN notes' = DOMAIN notes \cup {i}
              /\ notes'[i] = RowOf(Line(c))
              /\ k # i => notes'[k] = notes[k]
            BY <2>2 DEF Adds, With
        <3>2. notes' # notes BY <3>1
        <3>3. t = {Line(c).topic} BY <3>2
        <3>4. RowOf(Line(c)).topic = Line(c).topic BY DEF RowOf
        <3> QED BY <3>1, <3>3, <3>4
    <2> QED BY <1>2, <2>1, <2>2
<1>4. ASSUME NextLine(c).at = "line"
      PROVE  \A k \in DOMAIN notes' : notes'[k].topic \in NextLine(c).topics \cup NextLine(c).since
    <2>1. NextLine(c) = [Taken(c) EXCEPT !.lines = Tail(@)] BY <1>4 DEF NextLine, Free
    <2>2. /\ job[c].topics \subseteq NextLine(c).topics
          /\ NextLine(c).since = job[c].since
        BY <1>1, <2>1 DEF Taken, Jobs
    <2>3. CASE notes' = notes BY <1>0, <1>2, <2>2, <2>3 DEF LooksCover
    <2>4. ASSUME NEW i \in 1..MaxNotes, Adds(c, i)
          PROVE  Line(c).topic \in NextLine(c).topics
        <3>1. Line(c) # Malformed /\ Line(c).body \notin job[c].bodies
            BY <2>4 DEF Adds, Skips
        <3> QED BY <1>1, <2>1, <3>1 DEF Taken, Jobs
    <2> QED BY <1>0, <1>2, <1>3, <2>2, <2>3, <2>4 DEF LooksCover
<1> HIDE DEF t
<1> QED BY <1>0, <1>2, <1>3, <1>4, CoverStep

-----------------------------------------------------------------------------
(* The theorems.                                                             *)

LEMMA UpsertKeeps ==
    ASSUME NotesIInv, NEW c \in Clients, NEW t \in Topics, NEW b \in Bodies,
           NEW old \in {0} \cup DOMAIN notes, Upsert(c, t, b, old),
           job[c] = Free, Called, UNCHANGED <<vectors, exported>>
    PROVE  NotesIInv'
<1>0. NotesTypeOK BY DEF NotesIInv
<1>1. NotesTypeOK'
    <2>1. calls' \in 0..MaxCalls /\ cuts' = cuts BY <1>0, CalledTyped
    <2> QED BY <1>0, <2>1, UpsertTyped DEF NotesTypeOK
<1>2. VectorInv' BY VectorsUpsert
<1>3. LooksCover' BY CoverUpsert
<1>4. ToldTopics' /\ LocalNotesStand' BY LocalUpsert
<1> QED BY <1>1, <1>2, <1>3, <1>4 DEF NotesIInv, VectorInv

LEMMA RetireKeeps ==
    ASSUME NotesIInv, NEW c \in Clients, ReviseRetires(c) \/ \E i \in DOMAIN notes : Retire(c, i)
    PROVE  NotesIInv'
<1>0. NotesTypeOK /\ JobsFit BY DEF NotesIInv
<1>1. VectorInv' BY VectorsRetires
<1>2. LooksCover' BY CoverRetires
<1>3. CASE ReviseRetires(c)
    <2>1. /\ job[c].at = "retire" /\ Retires(job[c].old) /\ Does(c, Free, {})
          /\ UNCHANGED <<vectors, exported, unsure, calls, cuts>>
        BY <1>3 DEF ReviseRetires
    <2>2. job[c].old \in DOMAIN notes BY <1>0, <2>1 DEF JobsFit, NotesTypeOK, Jobs
    <2>3. /\ DOMAIN notes' = DOMAIN notes /\ notes' \in [DOMAIN notes -> NoteRows]
          /\ (DOMAIN told)' \subseteq Topics /\ told' \in [(DOMAIN told)' -> NoteRows]
        BY <1>0, <2>1, <2>2, RetiresTyped
    <2>4. job' \in [Clients -> Jobs((DOMAIN notes)')]
        <3>1. {} \in SUBSET Topics /\ DOMAIN notes \subseteq (DOMAIN notes)' BY <2>3
        <3>2. Free \in Jobs((DOMAIN notes)') BY FreeTyped
        <3> QED BY <1>0, <2>1, <3>1, <3>2, DoesTyped
    <2>5. NotesTypeOK' BY <1>0, <2>1, <2>3, <2>4 DEF NotesTypeOK
    <2>6. ToldTopics' /\ LocalNotesStand' BY <2>1, <2>2, LocalRetires
    <2> QED BY <1>1, <1>2, <2>5, <2>6 DEF NotesIInv, VectorInv
<1>4. ASSUME NEW i \in DOMAIN notes, Retire(c, i) PROVE NotesIInv'
    <2>1. Retires(i) /\ Called /\ UNCHANGED <<vectors, exported, unsure, job>>
        BY <1>4 DEF Retire
    <2>2. /\ DOMAIN notes' = DOMAIN notes /\ notes' \in [DOMAIN notes -> NoteRows]
          /\ (DOMAIN told)' \subseteq Topics /\ told' \in [(DOMAIN told)' -> NoteRows]
        BY <1>0, <2>1, RetiresTyped
    <2>3. calls' \in 0..MaxCalls /\ cuts' = cuts BY <1>0, <2>1, CalledTyped
    <2>4. NotesTypeOK' BY <1>0, <2>1, <2>2, <2>3 DEF NotesTypeOK
    <2>5. ToldTopics' /\ LocalNotesStand' BY <2>1, LocalRetires
    <2> QED BY <1>1, <1>2, <2>4, <2>5 DEF NotesIInv, VectorInv
<1> QED BY <1>3, <1>4

LEMMA NotesStep == NotesIInv /\ [NotesNext]_noteVars => NotesIInv'
<1> SUFFICES ASSUME NotesIInv, [NotesNext]_noteVars PROVE NotesIInv' OBVIOUS
<1>0. NotesTypeOK /\ ToldTopics /\ LocalNotesStand BY DEF NotesIInv
<1>1. ASSUME NEW c \in Clients, NEW t \in Topics, NEW b \in Bodies, Save(c, t, b)
      PROVE  NotesIInv'
    BY <1>1, UpsertKeeps DEF Save
<1>2. ASSUME NEW c \in Clients, NEW i \in 1..MaxNotes, NEW t \in Topics, NEW b \in Bodies,
             Revise(c, i, t, b)
      PROVE  NotesIInv'
    BY <1>2, UpsertKeeps DEF Revise
<1>3. ASSUME NEW c \in Clients, NEW i \in 1..MaxNotes, Retire(c, i) PROVE NotesIInv'
    BY <1>3, RetireKeeps DEF Retire
<1>4. ASSUME NEW c \in Clients, Embed(c) PROVE NotesIInv'
    <2>1. UNCHANGED <<notes, told>> BY <1>4 DEF Embed
    <2> QED BY <1>0, <1>4, <2>1, EmbedTyped, VectorsEmbed, CoverRests, LocalRests
            DEF NotesIInv, VectorInv
<1>5. ASSUME NEW c \in Clients, ReviseRetires(c) PROVE NotesIInv'
    BY <1>5, RetireKeeps
<1>6. ASSUME NEW c \in Clients, Search(c) PROVE NotesIInv'
    <2>1. UNCHANGED <<notes, told>> BY <1>6 DEF Search
    <2> QED BY <1>0, <1>6, <2>1, SearchTyped, VectorsSearch, CoverRests, LocalRests
            DEF NotesIInv, VectorInv
<1>7. ASSUME NEW c \in Clients, Export(c) PROVE NotesIInv'
    <2>1. UNCHANGED <<notes, told, vectors, unsure, job>> BY <1>7 DEF Export
    <2>2. NotesTypeOK' BY <1>0, <1>7, ExportTyped
    <2> QED BY <2>1, <2>2
            DEF NotesIInv, JobsFit, UnderWay, VectorsCurrent, LooksCover, ToldTopics, LocalNotesStand
<1>8. ASSUME NEW c \in Clients, NEW dry \in BOOLEAN, ImportReads(c, dry) PROVE NotesIInv'
    <2>1. UNCHANGED <<notes, told>> BY <1>8 DEF ImportReads
    <2>2. VectorInv' /\ LooksCover' BY <1>8, VectorsImport, CoverRests
    <2>3. NotesTypeOK' BY <1>0, <1>8, ImportReadsTyped
    <2> QED BY <1>0, <2>1, <2>2, <2>3, LocalRests DEF NotesIInv, VectorInv
<1>9. ASSUME NEW c \in Clients, ImportBodies(c) PROVE NotesIInv'
    <2>1. UNCHANGED <<notes, told>> BY <1>9 DEF ImportBodies
    <2>2. VectorInv' /\ LooksCover' BY <1>9, VectorsImport, CoverRests
    <2> QED BY <1>0, <1>9, <2>1, <2>2, ImportBodiesTyped, LocalRests DEF NotesIInv, VectorInv
<1>10. ASSUME NEW c \in Clients, ImportTopics(c) PROVE NotesIInv'
    <2>1. UNCHANGED <<notes, told>> BY <1>10 DEF ImportTopics
    <2>2. VectorInv' /\ LooksCover' BY <1>10, VectorsImport, CoverTopics
    <2> QED BY <1>0, <1>10, <2>1, <2>2, ImportTopicsTyped, LocalRests DEF NotesIInv, VectorInv
<1>11. ASSUME NEW c \in Clients, ImportLine(c) PROVE NotesIInv'
    <2>1. VectorInv' /\ LooksCover' BY <1>11, VectorsImport, CoverLine
    <2> QED BY <1>0, <1>11, <2>1, ImportLineTyped, LocalLine DEF NotesIInv, VectorInv
<1>12. ASSUME NEW c \in Clients, ClientDies(c) PROVE NotesIInv'
    <2>1. UNCHANGED <<notes, told>> BY <1>12 DEF ClientDies
    <2> QED BY <1>0, <1>12, <2>1, ClientDiesTyped, VectorsDies, CoverRests, LocalRests
            DEF NotesIInv, VectorInv
<1>13. CASE UNCHANGED noteVars
    BY <1>13 DEF noteVars, NotesIInv, NotesTypeOK, JobsFit, UnderWay, VectorsCurrent, LooksCover,
                 ToldTopics, LocalNotesStand
<1> QED BY <1>1, <1>2, <1>3, <1>4, <1>5, <1>6, <1>7, <1>8, <1>9, <1>10, <1>11, <1>12, <1>13
        DEF NotesNext

\* At every moment jobs, vectors, imports and rows are as the steps need them: vectors
\* under way are of the notes' texts, and imports know of every topic they meet.
THEOREM NotesInvariant == NotesSpec => []NotesIInv
<1>1. NotesInit => NotesIInv
    <2> SUFFICES ASSUME NotesInit PROVE NotesIInv OBVIOUS
    <2>1. \A c \in Clients : job[c].todo = {} /\ job[c].at = "free"
        BY DEF NotesInit, Free
    <2>2. DOMAIN notes = {} /\ DOMAIN vectors = {} /\ DOMAIN told = {} BY DEF NotesInit
    <2>3. NotesTypeOK BY InitTyped
    <2> QED BY <2>1, <2>2, <2>3 DEF NotesIInv, JobsFit, UnderWay, VectorsCurrent, LooksCover,
                                    ToldTopics, LocalNotesStand
<1> QED BY <1>1, NotesStep, PTL DEF NotesSpec

\* Whatever saves, revises, searches, imports and deaths meet: what this machine said of a
\* topic stands, vectors are of their notes' texts unless a save was cut or overlapped, and
\* an import adds what its dry run tells unless another process or a taken id is in the way.
THEOREM NotesAlwaysAgree == NotesSpec => []NotesAgree
<1>1. NotesIInv => NotesAgree
    <2> SUFFICES ASSUME NotesIInv PROVE NotesAgree OBVIOUS
    <2>1. RefusalsExplained BY DEF NotesIInv, RefusalsExplained, LooksCover, Skips, Refused, OfTopic
    <2> QED BY <2>1 DEF NotesIInv, NotesAgree
<1> QED BY <1>1, NotesInvariant, PTL
=============================================================================
