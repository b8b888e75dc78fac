----------------------------- MODULE GuardCache ------------------------------
(* The guard plugin in one session: the results of reads and of read-only    *)
(* commands that PostToolUse hooks leave in read_cache, by which PreToolUse  *)
(* hooks deny a repeat, while the session's windows (the agent and its       *)
(* sub-agents) run tools side by side, some of which change files.           *)
(*                                                                           *)
(* A key is a file, for Read, or the one read-only command there is, whose   *)
(* output shows every file. Slices of files, empty results, the grammar that *)
(* tells a read-only command, Grep, Glob and skills are left out; a file has *)
(* one name. So a key has one meaning here. norm_cmd gives one key to        *)
(* commands that differ in blanks only, inside quotes as well; that the row  *)
(* of one may then deny another is outside this model.                       *)
EXTENDS Integers, FiniteSets

CONSTANTS Windows, Slots,       \* slots: the tool calls that may run at once
          Paths, Texts, Command,
          Large,                \* results over ARCHIVE_CAP_BYTES
          NoRow, MaxTools, MaxUpsets

Keys == Paths \cup {Command}
Results == Texts \cup [Paths -> Texts]

ASSUME GuardConstants ==
    /\ Command \notin Paths
    /\ NoRow \notin [result : Results, recent : BOOLEAN]
    /\ MaxTools \in Nat /\ MaxUpsets \in Nat

VARIABLES
    contents,   \* file -> text
    cached,     \* read_cache: window, key -> the archived result and whether it is in the window
    tool,       \* slot -> the tool call under way
    got,        \* window -> the results that its tools returned, each with its key
    blind,      \* the rows that this code cannot know to be old
    tools, upsets

guardVars == <<contents, cached, tool, got, blind, tools, upsets>>

(* A look (Read, or the command) or a change (Edit and Write of a file, or a  *)
(* command that may write any): before it runs, after it has, and between the *)
(* two statements of a change's hook. passed: a change has made the result   *)
(* old since the tool returned it.                                           *)
NoTool == [at |-> "idle"]
ToolCalls ==
    {NoTool}
    \cup [at : {"look"}, window : Windows, key : Keys]
    \cup [at : {"looked"}, window : Windows, key : Keys, result : Results, passed : BOOLEAN]
    \cup [at : {"change"}, files : SUBSET Paths]
    \cup [at : {"changed", "cleared"}, files : SUBSET Paths]

GuardTypeOK ==
    /\ contents \in [Paths -> Texts]
    /\ cached \in [Windows \X Keys -> {NoRow} \cup [result : Results, recent : BOOLEAN]]
    /\ tool \in [Slots -> ToolCalls]
    /\ got \in [Windows -> SUBSET (Keys \X Results)]
    /\ blind \subseteq Windows \X Keys
    /\ tools \in 0..MaxTools /\ upsets \in 0..MaxUpsets

GuardInit ==
    /\ contents \in [Paths -> Texts]
    /\ cached = [r \in Windows \X Keys |-> NoRow]
    /\ tool = [s \in Slots |-> NoTool]
    /\ got = [w \in Windows |-> {}]
    /\ blind = {}
    /\ tools = 0 /\ upsets = 0

-----------------------------------------------------------------------------
\* What the tool would return now.
Output(k) == IF k = Command THEN contents ELSE contents[k]
\* The keys whose results depend on these files.
Shown(files) == IF files = {} THEN {} ELSE files \cup {Command}

\* pre_tool: a result of this window and key, in the sliding window, with its archive.
Denies(w, k) == cached[<<w, k>>] # NoRow /\ cached[<<w, k>>].recent

PreLook(s, w, k) ==
    /\ tool[s] = NoTool /\ tools < MaxTools
    /\ ~Denies(w, k)
    /\ tool' = [tool EXCEPT ![s] = [at |-> "look", window |-> w, key |-> k]]
    /\ tools' = tools + 1
    /\ UNCHANGED <<contents, cached, got, blind, upsets>>

\* Paths that may change: one, or any. A change has no key and is never denied.
PreChange(s, files) ==
    /\ tool[s] = NoTool /\ tools < MaxTools
    /\ tool' = [tool EXCEPT ![s] = [at |-> "change", files |-> files]]
    /\ tools' = tools + 1
    /\ UNCHANGED <<contents, cached, got, blind, upsets>>

\* The host runs the tool.
Looks(s) ==
    /\ tool[s].at = "look"
    /\ LET t == tool[s]
           result == Output(t.key)
       IN  /\ tool' = [tool EXCEPT ![s] = [at |-> "looked", window |-> t.window, key |-> t.key,
                                           result |-> result, passed |-> FALSE]]
           /\ got' = [got EXCEPT ![t.window] = @ \cup {<<t.key, result>>}]
    /\ UNCHANGED <<contents, cached, blind, tools, upsets>>

\* A look whose result is older than a change of what it shows.
Passed(t, files) ==
    IF t.at = "looked" /\ t.key \in Shown(files) THEN [t EXCEPT !.passed = TRUE] ELSE t

Changes(s) ==
    /\ tool[s].at = "change"
    /\ \E new \in [Paths -> Texts] :
          /\ \A f \in Paths \ tool[s].files : new[f] = contents[f]
          /\ contents' = new
    /\ tool' = [d \in Slots |-> IF d = s THEN [at |-> "changed", files |-> tool[s].files]
                                ELSE Passed(tool[d], tool[s].files)]
    /\ UNCHANGED <<cached, got, blind, tools, upsets>>

\* post_tool of a look. Broken variant: a result that is too large leaves the row alone.
StoredOrLeft(t) == IF t.result \in Large THEN cached[<<t.window, t.key>>]
                   ELSE [result |-> t.result, recent |-> TRUE]
Stored(t) == IF t.result \in Large THEN NoRow ELSE [result |-> t.result, recent |-> TRUE]

PostLook(s) ==
    /\ tool[s].at = "looked"
    /\ LET t == tool[s] IN
          /\ cached' = [cached EXCEPT ![<<t.window, t.key>>] = Stored(t)]
          /\ blind' = IF t.passed THEN blind \cup {<<t.window, t.key>>}
                        ELSE blind \ {<<t.window, t.key>>}
    /\ tool' = [tool EXCEPT ![s] = NoTool]
    /\ UNCHANGED <<contents, got, tools, upsets>>

\* clear_read_cache by prefix: the keys of every window.
Cleared(keys) == [r \in Windows \X Keys |-> IF r[2] \in keys THEN NoRow ELSE cached[r]]

\* post_tool of a change: first the commands' rows, then those of the files.
PostChange(s) ==
    /\ tool[s].at = "changed"
    /\ cached' = Cleared({Command})
    /\ tool' = [tool EXCEPT ![s] = [at |-> "cleared", files |-> tool[s].files]]
    /\ UNCHANGED <<contents, got, blind, tools, upsets>>

PostChangeFiles(s) ==
    /\ tool[s].at = "cleared"
    /\ cached' = Cleared(tool[s].files)
    /\ tool' = [tool EXCEPT ![s] = NoTool]
    /\ UNCHANGED <<contents, got, blind, tools, upsets>>

-----------------------------------------------------------------------------
\* window_turns further calls, or a purge of the archive.
Lapses(w, k) ==
    /\ cached[<<w, k>>] # NoRow /\ cached[<<w, k>>].recent
    /\ cached' = [cached EXCEPT ![<<w, k>>].recent = FALSE]
    /\ UNCHANGED <<contents, tool, got, blind, tools, upsets>>

\* The rows of a change that its hook has yet to drop.
Pending(t) == IF t.at = "changed" THEN Shown(t.files)
              ELSE IF t.at = "cleared" THEN t.files ELSE {}

\* A hook that the host does not call, that finds the store locked or dies.
HookLost(s) ==
    /\ tool[s].at \in {"looked", "changed", "cleared"}
    /\ upsets < MaxUpsets /\ upsets' = upsets + 1
    /\ blind' = blind \cup Windows \X Pending(tool[s])
    /\ tool' = [tool EXCEPT ![s] = NoTool]
    /\ UNCHANGED <<contents, cached, got, tools>>

\* The user's editor, another session, or a tool the guard knows nothing of.
Outside(f, text) ==
    /\ contents[f] # text
    /\ upsets < MaxUpsets /\ upsets' = upsets + 1
    /\ contents' = [contents EXCEPT ![f] = text]
    /\ blind' = blind \cup Windows \X Shown({f})
    /\ tool' = [s \in Slots |-> Passed(tool[s], {f})]
    /\ UNCHANGED <<cached, got, tools>>

GuardNext ==
    \/ \E s \in Slots :
          \/ \E w \in Windows, k \in Keys : PreLook(s, w, k)
          \/ \E files \in {{f} : f \in Paths} \cup {Paths} : PreChange(s, files)
          \/ Looks(s) \/ Changes(s) \/ PostLook(s) \/ PostChange(s) \/ PostChangeFiles(s)
          \/ HookLost(s)
    \/ \E w \in Windows, k \in Keys : Lapses(w, k)
    \/ \E f \in Paths, text \in Texts : Outside(f, text)

GuardSpec == GuardInit /\ [][GuardNext]_guardVars

-----------------------------------------------------------------------------
\* A denial names a result that this window was given (T129), and that the tool would
\* return again: unless a change is under way, or the row was left by a look that a change
\* passed, or the file changed, or a hook was lost, with nothing for the guard to see.
DenialsAreTrue == \A w \in Windows, k \in Keys : Denies(w, k) =>
    /\ <<k, cached[<<w, k>>].result>> \in got[w]
    /\ \/ cached[<<w, k>>].result = Output(k)
       \/ <<w, k>> \in blind
       \/ \E s \in Slots : k \in Pending(tool[s])
=============================================================================
