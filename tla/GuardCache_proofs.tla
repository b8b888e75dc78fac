-------------------------- MODULE GuardCache_proofs ---------------------------
(* What holds of the guard's denials for any number of windows, files and    *)
(* tools at once.                                                            *)
EXTENDS GuardCache, TLAPS

-----------------------------------------------------------------------------
(* The inductive invariant.                                                  *)

\* A look that is over gave its window the result, and it is what the tool would return
\* again unless a change has passed it.
Told(t) == t.at = "looked" =>
    /\ <<t.key, t.result>> \in got[t.window]
    /\ t.passed \/ t.result = Output(t.key)
LooksTold == \A s \in Slots : Told(tool[s])

\* The same of every row, in the sliding window or not.
RowsTold == \A w \in Windows, k \in Keys : cached[<<w, k>>] # NoRow =>
    /\ <<k, cached[<<w, k>>].result>> \in got[w]
    /\ \/ cached[<<w, k>>].result = Output(k)
       \/ <<w, k>> \in blind
       \/ \E s \in Slots : k \in Pending(tool[s])

GuardIInv == GuardTypeOK /\ LooksTold /\ RowsTold

-----------------------------------------------------------------------------
(* Types.                                                                    *)

LEMMA LookedIs ==
    ASSUME NEW t \in ToolCalls, t.at = "looked"
    PROVE  /\ t.window \in Windows /\ t.key \in Keys /\ t.result \in Results
           /\ t.passed \in BOOLEAN
           /\ t \in [at : {"looked"}, window : Windows, key : Keys, result : Results,
                     passed : BOOLEAN]
BY DEF ToolCalls, NoTool

LEMMA ChangeIs ==
    ASSUME NEW t \in ToolCalls, t.at \in {"change", "changed", "cleared"}
    PROVE  t.files \in SUBSET Paths
BY DEF ToolCalls, NoTool

LEMMA OutputTyped == GuardTypeOK => \A k \in Keys : Output(k) \in Results
BY GuardConstants DEF GuardTypeOK, Output, Keys, Results

\* What a change does to the other tools under way.
LEMMA PassedIs ==
    ASSUME NEW t \in ToolCalls, NEW files
    PROVE  /\ Passed(t, files) \in ToolCalls
           /\ Passed(t, files).at = t.at
           /\ t.at # "looked" => Passed(t, files) = t
           /\ t.at = "looked" => /\ Passed(t, files).key = t.key
                                 /\ Passed(t, files).window = t.window
                                 /\ Passed(t, files).result = t.result
                                 /\ Passed(t, files).passed = (t.passed \/ t.key \in Shown(files))
<1>1. CASE t.at = "looked" /\ t.key \in Shown(files)
    <2>1. Passed(t, files) = [t EXCEPT !.passed = TRUE] BY <1>1 DEF Passed
    <2>2. t \in [at : {"looked"}, window : Windows, key : Keys, result : Results,
                 passed : BOOLEAN]
        BY <1>1, LookedIs
    <2>3. Passed(t, files) \in [at : {"looked"}, window : Windows, key : Keys,
                                result : Results, passed : BOOLEAN]
        BY <2>1, <2>2
    <2>4. Passed(t, files) \in ToolCalls BY <2>3 DEF ToolCalls
    <2> QED BY <1>1, <2>1, <2>2, <2>4
<1>2. CASE ~(t.at = "looked" /\ t.key \in Shown(files))
    <2>1. Passed(t, files) = t BY <1>2 DEF Passed
    <2>2. t.at = "looked" => t.passed \in BOOLEAN BY LookedIs
    <2> QED BY <1>2, <2>1, <2>2
<1> QED BY <1>1, <1>2

LEMMA PassedPends ==
    ASSUME NEW t \in ToolCalls, NEW files
    PROVE  Pending(Passed(t, files)) = Pending(t)
BY PassedIs DEF Pending

\* Files that did not change show the same.
LEMMA OutputRests ==
    ASSUME GuardTypeOK, GuardTypeOK', NEW files \in SUBSET Paths, NEW k \in Keys \ Shown(files),
           \A f \in Paths \ files : contents'[f] = contents[f]
    PROVE  Output(k)' = Output(k)
<1>1. CASE files = {}
    <2>1. contents' = contents BY <1>1 DEF GuardTypeOK
    <2> QED BY <2>1 DEF Output
<1>2. CASE files # {}
    <2>1. k # Command /\ k \in Paths \ files BY <1>2 DEF Shown, Keys
    <2> QED BY <2>1 DEF Output
<1> QED BY <1>1, <1>2

\* A slot's tool is one of them, and what it becomes is as well.
LEMMA SlotIs == GuardTypeOK => \A s \in Slots : tool[s] \in ToolCalls
BY DEF GuardTypeOK

LEMMA StoredTyped ==
    ASSUME NEW t \in ToolCalls, t.at = "looked"
    PROVE  Stored(t) \in {NoRow} \cup [result : Results, recent : BOOLEAN]
BY LookedIs DEF Stored

LEMMA ClearedTyped ==
    ASSUME GuardTypeOK, NEW keys
    PROVE  Cleared(keys) \in [Windows \X Keys -> {NoRow} \cup [result : Results, recent : BOOLEAN]]
BY DEF GuardTypeOK, Cleared

LEMMA PendingAreKeys ==
    ASSUME NEW t \in ToolCalls
    PROVE  Pending(t) \subseteq Keys
<1>1. CASE t.at \in {"changed", "cleared"}
    BY <1>1, ChangeIs DEF Pending, Shown, Keys
<1>2. CASE t.at \notin {"changed", "cleared"}
    BY <1>2 DEF Pending
<1> QED BY <1>1, <1>2

-----------------------------------------------------------------------------
(* What is kept by steps that change little.                                 *)

\* A row that a step leaves as it is, or only marks as not recent, stays told as long as
\* nothing it depends on is forgotten.
LEMMA RowKept ==
    ASSUME NEW w \in Windows, NEW k \in Keys,
           GuardIInv, GuardTypeOK',
           cached'[<<w, k>>] # NoRow,
           cached[<<w, k>>] # NoRow,
           cached'[<<w, k>>].result = cached[<<w, k>>].result,
           got[w] \subseteq got'[w],
           \/ Output(k)' = Output(k)
           \/ <<w, k>> \in blind'
           \/ \E s \in Slots : k \in Pending(tool'[s]),
           <<w, k>> \in blind => <<w, k>> \in blind',
           \A s \in Slots : k \in Pending(tool[s]) =>
               \/ <<w, k>> \in blind'
               \/ \E d \in Slots : k \in Pending(tool'[d])
    PROVE  /\ <<k, cached'[<<w, k>>].result>> \in got'[w]
           /\ \/ cached'[<<w, k>>].result = Output(k)'
              \/ <<w, k>> \in blind'
              \/ \E s \in Slots : k \in Pending(tool'[s])
BY DEF GuardIInv, RowsTold

-----------------------------------------------------------------------------
(* The hooks and tools of one slot.                                          *)

\* A tool that is about to run leaves every row and every other tool alone.
LEMMA PreKeeps ==
    ASSUME GuardIInv, NEW s \in Slots, NEW t \in ToolCalls,
           t.at \in {"look", "change"}, tool[s] = NoTool,
           tool' = [tool EXCEPT ![s] = t],
           tools < MaxTools, tools' = tools + 1,
           UNCHANGED <<contents, cached, got, blind, upsets>>
    PROVE  GuardIInv'
<1>1. GuardTypeOK'
    BY GuardConstants DEF GuardIInv, GuardTypeOK
<1>2. Pending(NoTool) = {} /\ Pending(t) = {} BY DEF Pending, NoTool
<1>3. \A d \in Slots : Pending(tool'[d]) = Pending(tool[d])
    BY <1>2 DEF GuardIInv, GuardTypeOK
<1>4. \A k : Output(k)' = Output(k) BY DEF Output
<1>5. LooksTold'
    BY DEF GuardIInv, GuardTypeOK, LooksTold, Told, Output
<1>6. RowsTold'
    BY <1>3, <1>4 DEF GuardIInv, RowsTold
<1> QED BY <1>1, <1>5, <1>6 DEF GuardIInv

LEMMA PreLookKeeps ==
    ASSUME GuardIInv, NEW s \in Slots, NEW w \in Windows, NEW k \in Keys, PreLook(s, w, k)
    PROVE  GuardIInv'
<1>1. [at |-> "look", window |-> w, key |-> k] \in ToolCalls BY DEF ToolCalls
<1> QED BY <1>1, PreKeeps DEF PreLook

LEMMA PreChangeKeeps ==
    ASSUME GuardIInv, NEW s \in Slots, NEW files \in SUBSET Paths, PreChange(s, files)
    PROVE  GuardIInv'
<1>1. [at |-> "change", files |-> files] \in ToolCalls BY DEF ToolCalls
<1> QED BY <1>1, PreKeeps DEF PreChange

\* A look gives its window what it saw.
LEMMA LooksKeeps ==
    ASSUME GuardIInv, NEW s \in Slots, Looks(s)
    PROVE  GuardIInv'
<1> DEFINE t == tool[s]
           seen == [at |-> "looked", window |-> t.window, key |-> t.key,
                    result |-> Output(t.key), passed |-> FALSE]
<1>1. t.window \in Windows /\ t.key \in Keys
    BY DEF Looks, GuardIInv, GuardTypeOK, ToolCalls, NoTool
<1>2. Output(t.key) \in Results BY <1>1, OutputTyped DEF GuardIInv
<1>3. seen \in ToolCalls BY <1>1, <1>2 DEF ToolCalls
<1>4. tool' = [tool EXCEPT ![s] = seen]
      /\ got' = [got EXCEPT ![t.window] = @ \cup {<<t.key, Output(t.key)>>}]
    BY DEF Looks
<1>5. GuardTypeOK'
    BY <1>1, <1>2, <1>3, <1>4 DEF Looks, GuardIInv, GuardTypeOK
<1>6. \A w \in Windows : got[w] \subseteq got'[w]
    BY <1>4 DEF GuardIInv, GuardTypeOK
<1>7. \A k : Output(k)' = Output(k) BY DEF Output, Looks
<1>8. Pending(seen) = {} /\ Pending(t) = {} BY DEF Pending, Looks
<1>9. \A d \in Slots : Pending(tool'[d]) = Pending(tool[d])
    BY <1>4, <1>8 DEF GuardIInv, GuardTypeOK
<1>10. LooksTold'
    <2>1. Told(tool[s])'
        <3>1. tool'[s] = seen BY <1>4 DEF GuardIInv, GuardTypeOK
        <3>2. <<t.key, Output(t.key)>> \in got'[t.window]
            BY <1>1, <1>4 DEF GuardIInv, GuardTypeOK
        <3>3. contents' = contents BY DEF Looks
        <3> QED BY <3>1, <3>2, <3>3 DEF Told, Output
    <2>2. ASSUME NEW d \in Slots, d # s PROVE Told(tool[d])'
        <3>1. tool'[d] = tool[d] BY <2>2, <1>4 DEF GuardIInv, GuardTypeOK
        <3>2. tool[d].at = "looked" => tool[d].window \in Windows
            BY SlotIs, LookedIs DEF GuardIInv
        <3>3. contents' = contents BY DEF Looks
        <3> QED BY <3>1, <3>2, <3>3, <1>6 DEF GuardIInv, LooksTold, Told, Output
    <2> QED BY <2>1, <2>2 DEF LooksTold
<1>11. RowsTold'
    BY <1>6, <1>7, <1>9 DEF Looks, GuardIInv, RowsTold
<1> QED BY <1>5, <1>10, <1>11 DEF GuardIInv

\* A change makes old what depends on its files: looks have been passed, and rows wait for
\* its hook.
LEMMA ChangesKeeps ==
    ASSUME GuardIInv, NEW s \in Slots, Changes(s)
    PROVE  GuardIInv'
<1> DEFINE files == tool[s].files
           changed == [at |-> "changed", files |-> files]
<1>1. files \in SUBSET Paths /\ changed \in ToolCalls
    BY SlotIs, ChangeIs DEF Changes, GuardIInv, ToolCalls
<1>2. tool' = [d \in Slots |-> IF d = s THEN changed ELSE Passed(tool[d], files)]
    BY DEF Changes
<1>3. GuardTypeOK'
    <2>1. contents' \in [Paths -> Texts] BY DEF Changes
    <2>2. tool' \in [Slots -> ToolCalls]
        BY <1>1, <1>2, SlotIs, PassedIs DEF GuardIInv
    <2> QED BY <2>1, <2>2 DEF Changes, GuardIInv, GuardTypeOK
<1>4. \A k \in Keys \ Shown(files) : Output(k)' = Output(k)
    BY <1>1, <1>3, OutputRests DEF Changes, GuardIInv
<1>5. LooksTold'
    <2>1. Told(tool[s])' BY <1>2 DEF Told
    <2>2. ASSUME NEW d \in Slots, d # s, tool[d].at = "looked" PROVE Told(tool[d])'
        <3>1. tool'[d] = Passed(tool[d], files) BY <1>2, <2>2
        <3>2. /\ tool'[d].key = tool[d].key /\ tool'[d].window = tool[d].window
              /\ tool'[d].result = tool[d].result
              /\ tool'[d].passed = (tool[d].passed \/ tool[d].key \in Shown(files))
            BY <2>2, <3>1, SlotIs, PassedIs DEF GuardIInv
        <3>3. tool[d].key \in Keys BY <2>2, SlotIs, LookedIs DEF GuardIInv
        <3>4. Told(tool[d]) BY DEF GuardIInv, LooksTold
        <3>5. got' = got BY DEF Changes
        <3> QED BY <2>2, <3>2, <3>3, <3>4, <3>5, <1>4 DEF Told, Output
    <2>3. ASSUME NEW d \in Slots, d # s, tool[d].at # "looked" PROVE Told(tool[d])'
        <3>1. tool'[d].at # "looked"
            BY <1>2, <2>3, SlotIs, PassedIs DEF GuardIInv
        <3> QED BY <3>1 DEF Told
    <2> QED BY <2>1, <2>2, <2>3 DEF LooksTold
<1>6. Pending(tool[s]) = {} BY DEF Changes, Pending
<1>7. \A d \in Slots : Pending(tool[d]) \subseteq Pending(tool'[d])
    <2>1. ASSUME NEW d \in Slots, d # s PROVE Pending(tool'[d]) = Pending(tool[d])
        BY <1>2, <2>1, SlotIs, PassedPends DEF GuardIInv
    <2> QED BY <1>6, <2>1
<1>8. Pending(tool'[s]) = Shown(files) BY <1>2 DEF Pending
<1>9. RowsTold'
    <2> SUFFICES ASSUME NEW w \in Windows, NEW k \in Keys, cached[<<w, k>>] # NoRow
                 PROVE  /\ <<k, cached[<<w, k>>].result>> \in got[w]
                        /\ \/ cached[<<w, k>>].result = Output(k)'
                           \/ <<w, k>> \in blind
                           \/ \E d \in Slots : k \in Pending(tool'[d])
        BY DEF RowsTold, Changes
    <2>1. CASE k \in Shown(files)
        BY <2>1, <1>8 DEF GuardIInv, RowsTold
    <2>2. CASE k \notin Shown(files)
        BY <2>2, <1>4, <1>7 DEF GuardIInv, RowsTold
    <2> QED BY <2>1, <2>2
<1> QED BY <1>3, <1>5, <1>9 DEF GuardIInv

\* The hook of a look writes the row of its result.
LEMMA PostLookKeeps ==
    ASSUME GuardIInv, NEW s \in Slots, PostLook(s)
    PROVE  GuardIInv'
<1> DEFINE t == tool[s]
           row == <<t.window, t.key>>
<1>1. /\ t \in ToolCalls /\ t.at = "looked"
      /\ t.window \in Windows /\ t.key \in Keys /\ t.passed \in BOOLEAN
    BY SlotIs, LookedIs DEF PostLook, GuardIInv
<1>2. cached' = [cached EXCEPT ![row] = Stored(t)] BY DEF PostLook
<1>3. blind' = IF t.passed THEN blind \cup {row} ELSE blind \ {row} BY DEF PostLook
<1>4. tool' = [tool EXCEPT ![s] = NoTool] BY DEF PostLook
<1>5. NoTool \in ToolCalls BY DEF ToolCalls
<1>6. GuardTypeOK'
    BY <1>1, <1>2, <1>3, <1>4, <1>5, StoredTyped DEF PostLook, GuardIInv, GuardTypeOK
<1>7. \A d \in Slots : Pending(tool'[d]) = Pending(tool[d])
    <2>1. Pending(NoTool) = {} /\ Pending(t) = {} BY <1>1 DEF Pending, NoTool
    <2> QED BY <1>4, <2>1 DEF GuardIInv, GuardTypeOK
<1>8. contents' = contents /\ got' = got BY DEF PostLook
<1>9. LooksTold'
    BY <1>4, <1>8 DEF GuardIInv, GuardTypeOK, LooksTold, Told, NoTool, Output
<1>10. RowsTold'
    <2> SUFFICES ASSUME NEW w \in Windows, NEW k \in Keys, cached'[<<w, k>>] # NoRow
                 PROVE  /\ <<k, cached'[<<w, k>>].result>> \in got[w]
                        /\ \/ cached'[<<w, k>>].result = Output(k)
                           \/ <<w, k>> \in blind'
                           \/ \E d \in Slots : k \in Pending(tool'[d])
        BY <1>8 DEF RowsTold, Output
    <2>1. CASE <<w, k>> = row
        <3>1. w = t.window /\ k = t.key BY <2>1
        <3>2. cached'[<<w, k>>] = Stored(t)
            BY <2>1, <1>1, <1>2 DEF GuardIInv, GuardTypeOK
        <3>3. cached'[<<w, k>>].result = t.result BY <3>2 DEF Stored
        <3>4. Told(t) BY DEF GuardIInv, LooksTold
        <3>5. t.passed => <<w, k>> \in blind' BY <1>3, <2>1
        <3> QED BY <1>1, <3>1, <3>3, <3>4, <3>5 DEF Told
    <2>2. CASE <<w, k>> # row
        <3>1. cached'[<<w, k>>] = cached[<<w, k>>]
            BY <2>2, <1>2 DEF GuardIInv, GuardTypeOK
        <3>2. <<w, k>> \in blind => <<w, k>> \in blind' BY <2>2, <1>3
        <3> QED BY <3>1, <3>2, <1>7 DEF GuardIInv, RowsTold
    <2> QED BY <2>1, <2>2
<1> QED BY <1>6, <1>9, <1>10 DEF GuardIInv

\* A step that clears keys and ends the wait for no others keeps what is told of the rest.
LEMMA ClearKeeps ==
    ASSUME GuardIInv, NEW s \in Slots, NEW keys, NEW t \in ToolCalls,
           cached' = Cleared(keys),
           tool' = [tool EXCEPT ![s] = t],
           t.at # "looked",
           \A k \in Keys \ keys : k \in Pending(tool[s]) => k \in Pending(t),
           UNCHANGED <<contents, got, blind, tools, upsets>>
    PROVE  GuardIInv'
<1>1. GuardTypeOK' BY ClearedTyped DEF GuardIInv, GuardTypeOK
<1>2. LooksTold'
    BY DEF GuardIInv, GuardTypeOK, LooksTold, Told, Output
<1>3. ASSUME NEW w \in Windows, NEW k \in Keys, cached'[<<w, k>>] # NoRow
      PROVE  /\ cached'[<<w, k>>] = cached[<<w, k>>]
             /\ k \notin keys
    BY <1>3 DEF Cleared
<1>4. ASSUME NEW k \in Keys \ keys, NEW d \in Slots, k \in Pending(tool[d])
      PROVE  k \in Pending(tool'[d])
    BY <1>4 DEF GuardIInv, GuardTypeOK
<1>5. RowsTold'
    <2> SUFFICES ASSUME NEW w \in Windows, NEW k \in Keys, cached'[<<w, k>>] # NoRow
                 PROVE  /\ <<k, cached'[<<w, k>>].result>> \in got[w]
                        /\ \/ cached'[<<w, k>>].result = Output(k)
                           \/ <<w, k>> \in blind
                           \/ \E d \in Slots : k \in Pending(tool'[d])
        BY DEF RowsTold, Output
    <2>1. cached'[<<w, k>>] = cached[<<w, k>>] /\ k \in Keys \ keys BY <1>3
    <2> QED BY <2>1, <1>4 DEF GuardIInv, RowsTold
<1> QED BY <1>1, <1>2, <1>5 DEF GuardIInv

LEMMA PostChangeKeeps ==
    ASSUME GuardIInv, NEW s \in Slots, PostChange(s)
    PROVE  GuardIInv'
<1> DEFINE t == [at |-> "cleared", files |-> tool[s].files]
<1>1. t \in ToolCalls
    BY SlotIs, ChangeIs DEF PostChange, GuardIInv, ToolCalls
<1>2. \A k \in Keys \ {Command} : k \in Pending(tool[s]) => k \in Pending(t)
    BY DEF PostChange, Pending, Shown
<1>3. t.at # "looked" OBVIOUS
<1>4. /\ cached' = Cleared({Command}) /\ tool' = [tool EXCEPT ![s] = t]
      /\ UNCHANGED <<contents, got, blind, tools, upsets>>
    BY DEF PostChange
<1> HIDE DEF t
<1> QED BY <1>1, <1>2, <1>3, <1>4, ClearKeeps

LEMMA PostChangeFilesKeeps ==
    ASSUME GuardIInv, NEW s \in Slots, PostChangeFiles(s)
    PROVE  GuardIInv'
<1> DEFINE files == tool[s].files
<1>1. NoTool \in ToolCalls /\ NoTool.at # "looked" BY DEF ToolCalls, NoTool
<1>2. \A k \in Keys \ files : k \in Pending(tool[s]) => k \in Pending(NoTool)
    BY DEF PostChangeFiles, Pending
<1>3. /\ cached' = Cleared(files) /\ tool' = [tool EXCEPT ![s] = NoTool]
      /\ UNCHANGED <<contents, got, blind, tools, upsets>>
    BY DEF PostChangeFiles
<1> HIDE DEF files
<1> QED BY <1>1, <1>2, <1>3, ClearKeeps

-----------------------------------------------------------------------------
(* What happens to the hooks and their rows.                                 *)

LEMMA LapsesKeeps ==
    ASSUME GuardIInv, NEW w \in Windows, NEW k \in Keys, Lapses(w, k)
    PROVE  GuardIInv'
<1> DEFINE row == cached[<<w, k>>]
           old == [row EXCEPT !.recent = FALSE]
<1>1. cached' = [cached EXCEPT ![<<w, k>>] = old] /\ row # NoRow BY DEF Lapses
<1>2. row \in [result : Results, recent : BOOLEAN]
    BY <1>1 DEF GuardIInv, GuardTypeOK
<1>3. old \in [result : Results, recent : BOOLEAN] /\ old.result = row.result BY <1>2
<1>4. GuardTypeOK' BY <1>1, <1>3 DEF Lapses, GuardIInv, GuardTypeOK
<1>5. LooksTold' BY DEF Lapses, GuardIInv, LooksTold, Told, Output
<1>6. \A v \in Windows, j \in Keys : cached'[<<v, j>>] # NoRow =>
          /\ cached[<<v, j>>] # NoRow
          /\ cached'[<<v, j>>].result = cached[<<v, j>>].result
    BY <1>1, <1>3 DEF GuardIInv, GuardTypeOK
<1>7. RowsTold' BY <1>6 DEF Lapses, GuardIInv, RowsTold, Output
<1> QED BY <1>4, <1>5, <1>7 DEF GuardIInv

\* A hook that is lost leaves its rows to what the guard cannot see.
LEMMA HookLostKeeps ==
    ASSUME GuardIInv, NEW s \in Slots, HookLost(s)
    PROVE  GuardIInv'
<1>1. tool' = [tool EXCEPT ![s] = NoTool]
      /\ blind' = blind \cup Windows \X Pending(tool[s])
      /\ UNCHANGED <<contents, cached, got>>
    BY DEF HookLost
<1>2. Pending(tool[s]) \subseteq Keys BY SlotIs, PendingAreKeys DEF GuardIInv
<1>3. GuardTypeOK'
    <2>1. NoTool \in ToolCalls BY DEF ToolCalls
    <2>2. tool' \in [Slots -> ToolCalls] BY <1>1, <2>1 DEF GuardIInv, GuardTypeOK
    <2>3. blind' \subseteq Windows \X Keys BY <1>1, <1>2 DEF GuardIInv, GuardTypeOK
    <2>4. tools' \in 0..MaxTools /\ upsets' \in 0..MaxUpsets
        BY GuardConstants DEF HookLost, GuardIInv, GuardTypeOK
    <2> QED BY <1>1, <2>2, <2>3, <2>4 DEF GuardIInv, GuardTypeOK
<1>4. LooksTold'
    BY <1>1 DEF GuardIInv, GuardTypeOK, LooksTold, Told, NoTool, Output
<1>5. RowsTold'
    <2> SUFFICES ASSUME NEW w \in Windows, NEW k \in Keys, cached[<<w, k>>] # NoRow
                 PROVE  /\ <<k, cached[<<w, k>>].result>> \in got[w]
                        /\ \/ cached[<<w, k>>].result = Output(k)
                           \/ <<w, k>> \in blind'
                           \/ \E d \in Slots : k \in Pending(tool'[d])
        BY <1>1 DEF RowsTold, Output
    <2>1. ASSUME NEW d \in Slots, k \in Pending(tool[d])
          PROVE  <<w, k>> \in blind' \/ k \in Pending(tool'[d])
        <3>1. CASE d = s BY <1>1, <2>1, <3>1
        <3>2. CASE d # s
            <4>1. tool'[d] = tool[d] BY <1>1, <3>2 DEF GuardIInv, GuardTypeOK
            <4> QED BY <2>1, <4>1
        <3> QED BY <3>1, <3>2
    <2>2. <<w, k>> \in blind => <<w, k>> \in blind' BY <1>1
    <2> QED BY <2>1, <2>2 DEF GuardIInv, RowsTold
<1> QED BY <1>3, <1>4, <1>5 DEF GuardIInv

\* A file that changes with nothing for the guard to see.
LEMMA OutsideKeeps ==
    ASSUME GuardIInv, NEW f \in Paths, NEW text \in Texts, Outside(f, text)
    PROVE  GuardIInv'
<1>1. /\ contents' = [contents EXCEPT ![f] = text]
      /\ blind' = blind \cup Windows \X Shown({f})
      /\ tool' = [s \in Slots |-> Passed(tool[s], {f})]
      /\ UNCHANGED <<cached, got, tools>>
    BY DEF Outside
<1>2. GuardTypeOK'
    <2>1. contents' \in [Paths -> Texts] BY <1>1 DEF GuardIInv, GuardTypeOK
    <2>2. tool' \in [Slots -> ToolCalls] BY <1>1, SlotIs, PassedIs DEF GuardIInv
    <2>3. blind' \subseteq Windows \X Keys
        BY <1>1 DEF GuardIInv, GuardTypeOK, Shown, Keys
    <2>4. upsets' \in 0..MaxUpsets BY GuardConstants DEF Outside, GuardIInv, GuardTypeOK
    <2> QED BY <1>1, <2>1, <2>2, <2>3, <2>4 DEF GuardIInv, GuardTypeOK
<1>3. \A k \in Keys \ Shown({f}) : Output(k)' = Output(k)
    <2>1. \A g \in Paths \ {f} : contents'[g] = contents[g]
        BY <1>1 DEF GuardIInv, GuardTypeOK
    <2>2. {f} \in SUBSET Paths OBVIOUS
    <2> QED BY <1>2, <2>1, <2>2, OutputRests DEF GuardIInv
<1>4. LooksTold'
    <2>1. ASSUME NEW d \in Slots, tool[d].at = "looked" PROVE Told(tool[d])'
        <3>1. tool'[d] = Passed(tool[d], {f}) BY <1>1
        <3>2. /\ tool'[d].key = tool[d].key /\ tool'[d].window = tool[d].window
              /\ tool'[d].result = tool[d].result
              /\ tool'[d].passed = (tool[d].passed \/ tool[d].key \in Shown({f}))
            BY <2>1, <3>1, SlotIs, PassedIs DEF GuardIInv
        <3>3. tool[d].key \in Keys BY <2>1, SlotIs, LookedIs DEF GuardIInv
        <3>4. Told(tool[d]) BY DEF GuardIInv, LooksTold
        <3>5. got' = got BY <1>1
        <3> QED BY <2>1, <3>2, <3>3, <3>4, <3>5, <1>3 DEF Told, Output
    <2>2. ASSUME NEW d \in Slots, tool[d].at # "looked" PROVE Told(tool[d])'
        <3>1. tool'[d].at # "looked" BY <1>1, <2>2, SlotIs, PassedIs DEF GuardIInv
        <3> QED BY <3>1 DEF Told
    <2> QED BY <2>1, <2>2 DEF LooksTold
<1>5. \A d \in Slots : Pending(tool'[d]) = Pending(tool[d])
    BY <1>1, SlotIs, PassedPends DEF GuardIInv
<1>6. RowsTold'
    <2> SUFFICES ASSUME NEW w \in Windows, NEW k \in Keys, cached[<<w, k>>] # NoRow
                 PROVE  /\ <<k, cached[<<w, k>>].result>> \in got[w]
                        /\ \/ cached[<<w, k>>].result = Output(k)'
                           \/ <<w, k>> \in blind'
                           \/ \E d \in Slots : k \in Pending(tool'[d])
        BY <1>1 DEF RowsTold
    <2>1. CASE k \in Shown({f}) BY <2>1, <1>1 DEF GuardIInv, RowsTold
    <2>2. CASE k \notin Shown({f}) BY <2>2, <1>1, <1>3, <1>5 DEF GuardIInv, RowsTold
    <2> QED BY <2>1, <2>2
<1> QED BY <1>2, <1>4, <1>6 DEF GuardIInv

-----------------------------------------------------------------------------
(* The theorems.                                                             *)

\* Every row of read_cache is a result that its window was given, and an old one only where
\* a change's hook is still to come or the guard could not see the change, whichever tools
\* and hooks run side by side.
THEOREM GuardInvariant == GuardSpec => []GuardIInv
<1>1. GuardInit => GuardIInv
    <2> SUFFICES ASSUME GuardInit PROVE GuardIInv
        OBVIOUS
    <2>1. NoTool \in ToolCalls BY DEF ToolCalls
    <2>2. GuardTypeOK BY <2>1, GuardConstants DEF GuardInit, GuardTypeOK
    <2>3. LooksTold BY DEF GuardInit, LooksTold, Told, NoTool
    <2>4. RowsTold BY DEF GuardInit, RowsTold
    <2> QED BY <2>2, <2>3, <2>4 DEF GuardIInv
<1>2. GuardIInv /\ [GuardNext]_guardVars => GuardIInv'
    <2> SUFFICES ASSUME GuardIInv, [GuardNext]_guardVars PROVE GuardIInv'
        OBVIOUS
    <2>1. ASSUME NEW s \in Slots, NEW w \in Windows, NEW k \in Keys, PreLook(s, w, k)
          PROVE  GuardIInv'
        BY <2>1, PreLookKeeps
    <2>2. ASSUME NEW s \in Slots, NEW files \in {{f} : f \in Paths} \cup {Paths},
                 PreChange(s, files)
          PROVE  GuardIInv'
        <3>1. files \in SUBSET Paths OBVIOUS
        <3> QED BY <2>2, <3>1, PreChangeKeeps
    <2>3. ASSUME NEW s \in Slots, Looks(s) PROVE GuardIInv'
        BY <2>3, LooksKeeps
    <2>4. ASSUME NEW s \in Slots, Changes(s) PROVE GuardIInv'
        BY <2>4, ChangesKeeps
    <2>5. ASSUME NEW s \in Slots, PostLook(s) PROVE GuardIInv'
        BY <2>5, PostLookKeeps
    <2>6. ASSUME NEW s \in Slots, PostChange(s) PROVE GuardIInv'
        BY <2>6, PostChangeKeeps
    <2>7. ASSUME NEW s \in Slots, PostChangeFiles(s) PROVE GuardIInv'
        BY <2>7, PostChangeFilesKeeps
    <2>8. ASSUME NEW s \in Slots, HookLost(s) PROVE GuardIInv'
        BY <2>8, HookLostKeeps
    <2>9. ASSUME NEW w \in Windows, NEW k \in Keys, Lapses(w, k) PROVE GuardIInv'
        BY <2>9, LapsesKeeps
    <2>10. ASSUME NEW f \in Paths, NEW text \in Texts, Outside(f, text) PROVE GuardIInv'
        BY <2>10, OutsideKeeps
    <2>11. CASE UNCHANGED guardVars
        BY <2>11 DEF guardVars, GuardIInv, GuardTypeOK, LooksTold, Told, RowsTold, Output
    <2> QED BY <2>1, <2>2, <2>3, <2>4, <2>5, <2>6, <2>7, <2>8, <2>9, <2>10, <2>11
            DEF GuardNext
<1> QED BY <1>1, <1>2, PTL DEF GuardSpec

\* A repeat is denied only with a result that the window has, and that the tool would return
\* again, where the guard could see what changed (guard/mod.rs, T55.8 and T129).
THEOREM DenialsAlwaysTrue == GuardSpec => []DenialsAreTrue
<1>1. GuardIInv => DenialsAreTrue
    BY DEF GuardIInv, RowsTold, DenialsAreTrue, Denies
<1> QED BY <1>1, GuardInvariant, PTL

=============================================================================
