----------------------------- MODULE ProxyCalls -----------------------------
(* The requests that pass the proxy at the same time (proxy/mod.rs) and the  *)
(* semantic cache they share (proxy/semantic_cache.rs): the calls row, the   *)
(* lookup, the upstream answer, and what the tee task writes after it. The   *)
(* client may hang up, upstream fail or be cut, the store refuse a           *)
(* statement, and the process restart. Paths without a wire (/v1/models),    *)
(* which owe no usage row, are left out.                                     *)
EXTENDS Integers, FiniteSets

CONSTANTS Requests,
          Asks,         \* what a request may be: [scope, text, eligible]; the scope is
                        \* the caller and all the cache key has but the last message
          Similar,      \* text -> the texts whose vector is within the threshold
          Ttl, MaxTime, MaxRestarts     \* ttl_s; bounds

ASSUME ProxyConstants ==
    /\ \A a \in Asks : a.eligible \in BOOLEAN /\ a.text \in Similar[a.text]
    /\ Ttl \in Nat \ {0} /\ MaxTime \in Nat /\ MaxRestarts \in Nat

VARIABLES
    ask,        \* request -> its body and headers
    stage,      \* request -> where its handler, later its tee task, is
    noted,      \* requests with a calls row
    good,       \* requests whose upstream answer was 2xx
    whole,      \* requests whose upstream answer arrived whole
    cache,      \* the entries; one serves both the direct and the semantic lookup
    served,     \* request -> the cache entries that answered it, with the time
    usage,      \* request -> its usage rows
    excused,    \* requests whose handler ended without a row: see UsageOnce
    now, restarts

proxyVars == <<ask, stage, noted, good, whole, cache, served, usage, excused, now, restarts>>

ProxyTypeOK ==
    /\ ask \in [Requests -> Asks]
    /\ stage \in [Requests -> {"new", "look", "send", "stream", "fill", "usage", "done"}]
    /\ noted \subseteq Requests /\ good \subseteq Requests /\ whole \subseteq Requests
    /\ \A e \in cache : e.of \in Requests /\ e.at \in 0..now
    /\ \A r \in Requests : \A h \in served[r] : h.entry.of \in Requests /\ h.at \in 0..now
    /\ usage \in [Requests -> Nat] /\ excused \subseteq Requests
    /\ now \in 0..MaxTime /\ restarts \in 0..MaxRestarts

ProxyInit ==
    /\ ask \in [Requests -> Asks]
    /\ stage = [r \in Requests |-> "new"]
    /\ noted = {} /\ good = {} /\ whole = {} /\ cache = {} /\ excused = {}
    /\ served = [r \in Requests |-> {}] /\ usage = [r \in Requests |-> 0]
    /\ now = 0 /\ restarts = 0

Stage(r, s) == stage' = [stage EXCEPT ![r] = s]
SamePrompt(a, b) == a.scope = b.scope /\ a.text = b.text

\* record_usage, best effort: a recorded request gets its row, or the insert fails.
UsageRow(r) ==
    \/ /\ usage' = IF r \in noted THEN [usage EXCEPT ![r] = @ + 1] ELSE usage
       /\ UNCHANGED excused
    \/ excused' = excused \cup {r} /\ UNCHANGED usage

\* The calls row, or an error, which lets the request pass without one.
Record(r) == noted' = noted \cup {r} \/ noted' = noted

\* shape_request; in plain mode nothing is recorded and nothing looked up.
Shape(r) ==
    /\ stage[r] = "new"
    /\ \/ Stage(r, "look") /\ Record(r)
       \/ Stage(r, "send") /\ noted' = noted
    /\ UNCHANGED <<ask, good, whole, cache, served, usage, excused, now, restarts>>

Live(e) == now - e.at < Ttl

\* Cache::lookup: the same prompt, or else a similar one of the same scope; which of
\* several is the nearest is left open.
Hits(a) ==
    LET direct == {e \in cache : Live(e) /\ SamePrompt(e, a)}
    IN  IF direct # {} THEN direct
        ELSE {e \in cache : Live(e) /\ e.scope = a.scope /\ e.text \in Similar[a.text]}

\* A hit is answered from the cache and writes its usage row.
CacheResponse(r, e) ==
    /\ served' = [served EXCEPT ![r] = @ \cup {[entry |-> e, at |-> now]}]
    /\ UsageRow(r) /\ Stage(r, "done")

LookUp(r) ==
    /\ stage[r] = "look"
    /\ IF ask[r].eligible /\ Hits(ask[r]) # {}
       THEN \E e \in Hits(ask[r]) : CacheResponse(r, e)
       ELSE Stage(r, "send") /\ UNCHANGED <<served, usage, excused>>
    /\ UNCHANGED <<ask, noted, good, whole, cache, now, restarts>>

\* The target does not parse (400), or the client hangs up before upstream has
\* answered and the handler is dropped: neither writes a usage row.
NotSent(r) ==
    /\ stage[r] \in {"look", "send"} /\ Stage(r, "done")
    /\ excused' = excused \cup {r}
    /\ UNCHANGED <<ask, noted, good, whole, cache, served, usage, now, restarts>>

\* Broken variant: no response, no row.
SendFailsSilently(r) ==
    /\ stage[r] = "send" /\ Stage(r, "done")
    /\ UNCHANGED <<ask, noted, good, whole, cache, served, usage, excused, now, restarts>>

\* Upstream cannot be reached (502).
SendFails(r) ==
    /\ stage[r] = "send" /\ Stage(r, "done")
    /\ UsageRow(r)
    /\ UNCHANGED <<ask, noted, good, whole, cache, served, now, restarts>>

\* Upstream's status arrives and the tee task starts, which a hang-up does not end.
Answered(r) ==
    /\ stage[r] = "send" /\ Stage(r, "stream")
    /\ good' = good \cup {r} \/ good' = good
    /\ UNCHANGED <<ask, noted, whole, cache, served, usage, excused, now, restarts>>

\* The stream ends: whole, or cut by upstream, by the client or by the buffer's cap.
StreamEnds(r) ==
    /\ stage[r] = "stream"
    /\ Stage(r, IF r \in noted THEN "fill" ELSE "done")
    /\ whole' = whole \cup {r} \/ whole' = whole
    /\ UNCHANGED <<ask, noted, good, cache, served, usage, excused, now, restarts>>

\* Broken variant: also from a body that was cut.
FillAny(r) ==
    /\ stage[r] = "fill" /\ Stage(r, "usage")
    /\ cache' = IF ask[r].eligible /\ r \in good
                THEN {e \in cache : Live(e) /\ ~SamePrompt(e, ask[r])}
                     \cup {[scope |-> ask[r].scope, text |-> ask[r].text, of |-> r, at |-> now]}
                ELSE cache
    /\ UNCHANGED <<ask, noted, good, whole, served, usage, excused, now, restarts>>

\* finish fills the cache: Cache::store drops what has expired and the prompt's
\* old entry ...
Fill(r) ==
    /\ stage[r] = "fill" /\ Stage(r, "usage")
    /\ cache' = IF ask[r].eligible /\ r \in whole \cap good
                THEN {e \in cache : Live(e) /\ ~SamePrompt(e, ask[r])}
                     \cup {[scope |-> ask[r].scope, text |-> ask[r].text, of |-> r, at |-> now]}
                ELSE cache
    /\ UNCHANGED <<ask, noted, good, whole, served, usage, excused, now, restarts>>

\* ... and only then writes the usage row.
Finish(r) ==
    /\ stage[r] = "usage" /\ Stage(r, "done")
    /\ UsageRow(r)
    /\ UNCHANGED <<ask, noted, good, whole, cache, served, now, restarts>>

Tick ==
    /\ now < MaxTime /\ now' = now + 1
    /\ UNCHANGED <<ask, stage, noted, good, whole, cache, served, usage, excused, restarts>>

\* The process stops with its requests and its cache, and starts again.
Restart ==
    /\ restarts < MaxRestarts /\ restarts' = restarts + 1
    /\ LET cut == {r \in Requests : stage[r] \notin {"new", "done"}} IN
          /\ stage' = [r \in Requests |-> IF r \in cut THEN "done" ELSE stage[r]]
          /\ excused' = excused \cup cut
    /\ cache' = {}
    /\ UNCHANGED <<ask, noted, good, whole, served, usage, now>>

ProxyNext ==
    \/ \E r \in Requests :
          \/ Shape(r) \/ LookUp(r) \/ NotSent(r) \/ SendFails(r)
          \/ Answered(r) \/ StreamEnds(r) \/ Fill(r) \/ Finish(r)
    \/ Tick \/ Restart

ProxySpec == ProxyInit /\ [][ProxyNext]_proxyVars

-----------------------------------------------------------------------------
\* What came out of the cache was a whole 2xx answer to the same or a similar
\* question of the same caller, stored less than `ttl_s` ago, and no prompt has two
\* answers (T323; several requests miss, stream and store at the same time).
HitIsOwn ==
    /\ \A e1, e2 \in cache : SamePrompt(e1, e2) => e1 = e2
    /\ \A r \in Requests : \A h \in served[r] :
          LET q == h.entry.of IN
          /\ ask[q].scope = ask[r].scope /\ ask[q].text \in Similar[ask[r].text]
          /\ ask[q].eligible /\ q \in good \cap whole \cap noted
          /\ h.at - h.entry.at < Ttl

\* "Every request owes one usage row (T5.1)": a recorded request has one when it
\* is over, and never two; but for those never sent, those cut by a restart, and
\* those whose insert failed. The row comes last: "a visible usage row then implies
\* a warm cache", while nothing has expired and the process is the same.
UsageOnce ==
    /\ \A r \in Requests : usage[r] <= 1
    /\ \A r \in noted \ excused : stage[r] = "done" => usage[r] = 1
    /\ restarts = 0 /\ now < Ttl =>
          \A r \in good \cap whole : ask[r].eligible /\ usage[r] = 1 =>
              \E e \in cache : SamePrompt(e, ask[r])
=============================================================================
