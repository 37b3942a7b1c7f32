----------------------------- MODULE ListCache ------------------------------
(***************************************************************************)
(* How the compliance desk comes by a sanctions list: the disk cache of    *)
(* raw bodies (roster/compliance/cache.ts), the download with its fallback *)
(* urls and the in-process memo of the parsed snapshot (sources.ts).  Every *)
(* screening request loads every source, and a start-up hook warms them,   *)
(* so loads of one source overlap.  The source modelled is OFAC's, the one *)
(* with two files: the list proper, which a load cannot do without, and    *)
(* its aliases, which it can.  The others are the case of one file.        *)
(***************************************************************************)
EXTENDS Integers, Sequences, FiniteSets

CONSTANTS Loaders,        \* the requests that load the source
          FileUrls,       \* "sdn", "alt" -> its urls, in the order tried
          CACHE_TTL,      \* the freshness window
          ListHorizon,    \* bound on the clock
          MaxIssues       \* bound on the issues the authority publishes

VARIABLES listClock,
          issue,      \* the issue the authority serves; the odd ones are drifted
          cached,     \* url -> the cache file: [body, at, stamp]; stamp 0: none
          memo,       \* the parsed snapshot: [snap, probe, at]
          loader,     \* per request: control state and locals
          stamps      \* file modification stamps handed out

listVars == <<listClock, issue, cached, memo, loader, stamps>>

Urls     == UNION {{FileUrls[f][i] : i \in DOMAIN FileUrls[f]} : f \in DOMAIN FileUrls}

ASSUME ListAssumption ==
    /\ CACHE_TTL \in Nat \ {0} /\ ListHorizon \in Nat /\ MaxIssues \in Nat
    /\ DOMAIN FileUrls = {"sdn", "alt"} /\ \A f \in DOMAIN FileUrls : FileUrls[f] \in Seq(Urls) \ {<<>>}

NoFile   == [body |-> 0, at |-> 0, stamp |-> 0]
NoSnap   == [f \in {} |-> 0]
NoMemo   == [snap |-> NoSnap, probe |-> <<>>, at |-> 0]
Load(at, now, file, snap) == [at |-> at, now |-> now, probe |-> <<>>, file |-> file, url |-> 1, body |-> 0,
                              fetched |-> 0, snap |-> snap]
IdleLoad == Load("idle", 0, "sdn", NoSnap)
GapLoad  == Load("gap", 0, "sdn", NoSnap)

\* The cache outlives the process: an earlier one may have left its files.
ListInit ==
    /\ listClock = 0 /\ issue = 2 /\ stamps = 1
    /\ \/ cached = [u \in Urls |-> NoFile]
       \/ cached = [u \in Urls |-> [body |-> 2, at |-> 0, stamp |-> 1]]
    /\ memo = NoMemo
    /\ loader = [l \in Loaders |-> IdleLoad]

Tick ==
    /\ listClock < ListHorizon /\ listClock' = listClock + 1
    /\ UNCHANGED <<issue, cached, memo, loader, stamps>>

\* The authority publishes another issue; an odd one parses into next to
\* nothing.
PublishIssue ==
    /\ issue < 2 + MaxIssues /\ issue' = issue + 1
    /\ UNCHANGED <<listClock, cached, memo, loader, stamps>>

Drifted(body) == body % 2 = 1

\* (mtime, size) of the source's cache files.
probeVersion == [u \in Urls |-> cached[u].stamp]

Becomes(l, load) == loader' = [loader EXCEPT ![l] = load]
Step(l, at)      == Becomes(l, [loader[l] EXCEPT !.at = at])
Return(l, snap)  == Becomes(l, Load("returned", loader[l].now, "sdn", snap))
Gap(l)           == Becomes(l, GapLoad)
TheUrl(l)        == FileUrls[loader[l].file][loader[l].url]
\* memoizedLoad up to the first await, and the look at the memo after it.
LoadStart(l) ==
    /\ loader[l].at = "idle"
    /\ Becomes(l, [Load("memo", listClock, "sdn", NoSnap) EXCEPT !.probe = probeVersion])
    /\ UNCHANGED <<listClock, issue, cached, memo, stamps>>

MemoFresh(l) == memo.snap # NoSnap /\ memo.probe = loader[l].probe /\ loader[l].now - memo.at <= CACHE_TTL

LoadMemo(l) ==
    /\ loader[l].at = "memo"
    /\ IF MemoFresh(l)
       THEN Return(l, memo.snap)
       ELSE Becomes(l, Load("read", loader[l].now, "sdn", NoSnap))
    /\ UNCHANGED <<listClock, issue, cached, memo, stamps>>

\* readCachedBody: a stale file, or one from the future, is a miss.
readCachedBody(u) == cached[u].stamp # 0 /\ listClock - cached[u].at \in 0 .. CACHE_TTL

\* The list proper is followed by its aliases.
Have(l, body, at) ==
    LET x == loader[l]
        snap == [f \in {x.file} \cup DOMAIN x.snap |-> IF f = x.file THEN [body |-> body, at |-> at] ELSE x.snap[f]]
    IN  Load(IF x.file = "sdn" THEN "read" ELSE "parse", x.now, "alt", snap)

LoadRead(l) ==
    /\ loader[l].at = "read"
    /\ LET u == TheUrl(l) IN
       IF readCachedBody(u) THEN Becomes(l, Have(l, cached[u].body, cached[u].at))
       ELSE Step(l, "fetch")
    /\ UNCHANGED <<listClock, issue, cached, memo, stamps>>

\* The fetch answers, or fails: then the next url is tried, and with none
\* left the list proper throws out of the load while the aliases are done
\* without.
LoadFetch(l) ==
    /\ loader[l].at = "fetch"
    /\ \/ Becomes(l, [loader[l] EXCEPT !.at = "write", !.body = issue, !.fetched = listClock])
       \/ IF loader[l].url < Len(FileUrls[loader[l].file])
          THEN Becomes(l, [loader[l] EXCEPT !.at = "read", !.url = @ + 1])
          ELSE IF loader[l].file = "sdn" THEN Gap(l) ELSE Step(l, "parse")
    /\ UNCHANGED <<listClock, issue, cached, memo, stamps>>

LoadWrite(l) ==
    /\ loader[l].at = "write"
    /\ stamps' = stamps + 1
    /\ cached' = [cached EXCEPT ![TheUrl(l)] = [body |-> loader[l].body, at |-> loader[l].fetched, stamp |-> stamps']]
    /\ Becomes(l, Have(l, loader[l].body, loader[l].fetched))
    /\ UNCHANGED <<listClock, issue, memo>>

\* The sanity floor: a body that parses into next to nothing throws.
FloorMet(snap) == ~Drifted(snap["sdn"].body)

\* The second probe is taken after the load, and again awaited.
LoadParse(l) ==
    /\ loader[l].at = "parse"
    /\ IF FloorMet(loader[l].snap)
       THEN Becomes(l, [loader[l] EXCEPT !.at = "set", !.probe = probeVersion])
       ELSE Gap(l)
    /\ UNCHANGED <<listClock, issue, cached, memo, stamps>>

\* A slip: the memo counts as read when the load ended.
LoadSetLate(l) ==
    /\ loader[l].at = "set"
    /\ memo' = [snap |-> loader[l].snap, probe |-> loader[l].probe, at |-> listClock]
    /\ Return(l, loader[l].snap)
    /\ UNCHANGED <<listClock, issue, cached, stamps>>

LoadSet(l) ==
    /\ loader[l].at = "set"
    /\ memo' = [snap |-> loader[l].snap, probe |-> loader[l].probe, at |-> loader[l].now]
    /\ Return(l, loader[l].snap)
    /\ UNCHANGED <<listClock, issue, cached, stamps>>

LoadStep(l) == LoadStart(l) \/ LoadMemo(l) \/ LoadRead(l) \/ LoadFetch(l) \/ LoadWrite(l) \/ LoadParse(l) \/ LoadSet(l)

ListNext == Tick \/ PublishIssue \/ \E l \in Loaders : LoadStep(l)

-----------------------------------------------------------------------------

\* A snapshot a request screens against was downloaded at most two freshness
\* windows before the request began: one window for the cache file it was
\* parsed from, and one for the memo that served it since.  However loads
\* overlap, no memo carries a body beyond that.
ServedIsRecent ==
    \A l \in Loaders : loader[l].at = "returned" =>
        \A f \in DOMAIN loader[l].snap : loader[l].now - loader[l].snap[f].at <= 2 * CACHE_TTL

\* No request screens against a list that failed the sanity floor, whichever
\* of cache, memo or download it came from.
ServedIsWhole == \A l \in Loaders : loader[l].at = "returned" =>
                     "sdn" \in DOMAIN loader[l].snap /\ ~Drifted(loader[l].snap["sdn"].body)
=============================================================================
