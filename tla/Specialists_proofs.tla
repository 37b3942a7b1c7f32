------------------------- MODULE Specialists_proofs -------------------------
(***************************************************************************)
(* Proofs about the specialists that research and report (MCDesks).        *)
(*                                                                         *)
(* As for the desks, a step of the composition is a step of one of them or *)
(* leaves it alone: the list cache, due diligence, dependency upgrades,    *)
(* screening and site audits.                                              *)
(***************************************************************************)
EXTENDS MCDesks, FiniteSetTheorems, WellFoundedInduction, TLAPS

-----------------------------------------------------------------------------
(* Compliance screening: the list cache.                                   *)

LEMMA ListPart == MCSpec => (ListInit \/ RestList) /\ [][ListNext]_listVars
<1>1. MCInit => ListInit \/ RestList
  BY Zenon DEF MCInit, SpecialistsInit, RestSpecialists
<1>2. [MCNext]_mcVars => [ListNext]_listVars
  BY Zenon DEF MCNext, SpecialistsNext, mcVars, specialistVars
<1> QED
  BY <1>1, <1>2, PTL DEF MCSpec

(* What a snapshot holds was downloaded no earlier than this.              *)
SnapForm(snap) == \A f \in DOMAIN snap : snap[f].at \in Int /\ snap[f].body \in Nat
Since(snap, time) == \A f \in DOMAIN snap : snap[f].at >= time
Whole(snap) == "sdn" \in DOMAIN snap /\ ~Drifted(snap["sdn"].body)

LoadRec(x) ==
  x = [at |-> x.at, now |-> x.now, probe |-> x.probe, file |-> x.file, url |-> x.url, body |-> x.body,
       fetched |-> x.fetched, snap |-> x.snap]
LoadForm(x) ==
  /\ LoadRec(x) /\ x.now \in Nat /\ x.body \in Nat /\ x.fetched \in Nat
  /\ x.file \in {"sdn", "alt"} /\ x.url \in 1 .. Len(FileUrls[x.file])

(* A load keeps what it downloaded since it began and what was fresh then  *)
(* or became so since; the list proper comes before its aliases.  What it  *)
(* leaves in the memo passed the floor.                                    *)
LoadOK(x, time) ==
  /\ SnapForm(x.snap)
  /\ x.at \in {"idle", "memo"} => x.file = "sdn" /\ DOMAIN x.snap = {}
  /\ x.at # "idle" => x.now <= time
  /\ x.at = "write" => x.fetched >= x.now
  /\ x.at \in {"read", "fetch", "write", "parse", "set"} => Since(x.snap, x.now - CACHE_TTL)
  /\ x.at \in {"read", "fetch", "write", "parse", "set"} /\ x.file = "alt" => "sdn" \in DOMAIN x.snap
  /\ x.at \in {"parse", "set"} => x.file = "alt"
  /\ x.at = "set" => Whole(x.snap)
  /\ x.at = "returned" => Since(x.snap, x.now - 2 * CACHE_TTL) /\ Whole(x.snap)

LoadersInv ==
  /\ loader = [l \in Loaders |-> loader[l]]
  /\ \A l \in Loaders : LoadForm(loader[l]) /\ LoadOK(loader[l], listClock)
ListInv ==
  /\ listClock \in Nat /\ issue \in Nat
  /\ cached = [u \in Urls |-> cached[u]]
  /\ \A u \in Urls : cached[u].at \in Nat /\ cached[u].body \in Nat
  /\ memo.at \in Nat /\ SnapForm(memo.snap)
  /\ memo.snap # NoSnap => Since(memo.snap, memo.at - CACHE_TTL) /\ Whole(memo.snap)
  /\ LoadersInv

LEMMA LoadIs ==
  ASSUME NEW at, NEW now, NEW file, NEW snap, NEW x, x = Load(at, now, file, snap)
  PROVE  /\ LoadRec(x) /\ x.at = at /\ x.now = now /\ x.file = file /\ x.snap = snap
         /\ x.url = 1 /\ x.body = 0 /\ x.fetched = 0 /\ x.probe = <<>>
BY DEF Load, LoadRec

LEMMA FirstUrl == 1 \in 1 .. Len(FileUrls["sdn"]) /\ 1 \in 1 .. Len(FileUrls["alt"])
BY ListAssumption

LEMMA IdleLoads ==
  ASSUME NEW x, x = IdleLoad \/ x = GapLoad, listClock \in Nat
  PROVE  LoadForm(x) /\ LoadOK(x, listClock)
<1>1. /\ LoadRec(x) /\ x.now = 0 /\ x.file = "sdn" /\ x.url = 1 /\ x.body = 0 /\ x.fetched = 0
      /\ x.snap = NoSnap /\ x.at \in {"idle", "gap"}
  BY LoadIs DEF IdleLoad, GapLoad
<1>2. DOMAIN x.snap = {}
  BY <1>1 DEF NoSnap
<1>3. SnapForm(x.snap)
  BY <1>2 DEF SnapForm
<1>4. LoadForm(x)
  BY <1>1, FirstUrl DEF LoadForm
<1> QED
  BY <1>1, <1>2, <1>3, <1>4 DEF LoadOK

LEMMA ListStarts == ListInit \/ RestList => ListInv
<1> SUFFICES ASSUME ListInit \/ RestList PROVE ListInv
  OBVIOUS
<1>1. /\ listClock \in {0, ListHorizon} /\ issue \in {2, 2 + MaxIssues} /\ memo = NoMemo
      /\ \/ cached = [u \in Urls |-> NoFile]
         \/ cached = [u \in Urls |-> [body |-> 2, at |-> 0, stamp |-> 1]]
      /\ \/ loader = [l \in Loaders |-> IdleLoad]
         \/ loader = [l \in Loaders |-> GapLoad]
  BY DEF ListInit, RestList
<1>2. listClock \in Nat /\ issue \in Nat
  BY <1>1, ListAssumption
<1>3. /\ cached = [u \in Urls |-> cached[u]]
      /\ \A u \in Urls : cached[u].at \in Nat /\ cached[u].body \in Nat
  BY <1>1 DEF NoFile
<1>4. memo.at \in Nat /\ memo.snap = NoSnap /\ SnapForm(memo.snap)
  BY <1>1 DEF NoMemo, NoSnap, SnapForm
<1>5. LoadersInv
  BY <1>1, <1>2, IdleLoads DEF LoadersInv
<1> QED
  BY <1>2, <1>3, <1>4, <1>5 DEF ListInv

LEMMA LoaderMoves ==
  ASSUME ListInv, NEW l \in Loaders, NEW y, Becomes(l, y), LoadForm(y), LoadOK(y, listClock), UNCHANGED listClock
  PROVE  LoadersInv'
<1>1. loader' = [loader EXCEPT ![l] = y] /\ loader = [k \in Loaders |-> loader[k]]
  BY DEF Becomes, ListInv, LoadersInv
<1>2. /\ loader' = [k \in Loaders |-> loader'[k]]
      /\ \A k \in Loaders : loader'[k] = y \/ loader'[k] = loader[k]
  BY <1>1
<1>3. \A k \in Loaders : LoadForm(loader[k]) /\ LoadOK(loader[k], listClock)
  BY DEF ListInv, LoadersInv
<1>4. \A k \in Loaders : LoadForm(loader'[k]) /\ LoadOK(loader'[k], listClock')
  BY <1>2, <1>3
<1> QED
  BY <1>2, <1>4 DEF LoadersInv

(* A step that leaves the disk and the memo alone.                         *)
LEMMA LoaderOnly ==
  ASSUME ListInv, NEW l \in Loaders, NEW y, Becomes(l, y), LoadForm(y), LoadOK(y, listClock),
         UNCHANGED <<listClock, issue, cached, memo, stamps>>
  PROVE  ListInv'
<1>1. LoadersInv'
  BY LoaderMoves
<1> QED
  BY <1>1 DEF ListInv, SnapForm, Since, Whole

LEMMA GapKeeps ==
  ASSUME ListInv, NEW l \in Loaders, Gap(l), UNCHANGED <<listClock, issue, cached, memo, stamps>> PROVE ListInv'
<1>1. listClock \in Nat
  BY DEF ListInv
<1> QED
  BY <1>1, IdleLoads, LoaderOnly DEF Gap

LEMMA ReturnKeeps ==
  ASSUME ListInv, NEW l \in Loaders, NEW snap, Return(l, snap), loader[l].at # "idle",
         SnapForm(snap), Since(snap, loader[l].now - 2 * CACHE_TTL), Whole(snap), UNCHANGED listClock
  PROVE  LoadersInv'
<1> DEFINE y == Load("returned", loader[l].now, "sdn", snap)
<1>1. Becomes(l, y)
  BY DEF Return
<1>2. /\ LoadRec(y) /\ y.now = loader[l].now /\ y.file = "sdn" /\ y.url = 1 /\ y.body = 0 /\ y.fetched = 0
      /\ y.snap = snap /\ y.at = "returned"
  BY LoadIs
<1> HIDE DEF y
<1>3. loader[l].now \in Nat /\ loader[l].now <= listClock
  BY DEF ListInv, LoadersInv, LoadForm, LoadOK
<1>4. LoadForm(y) /\ LoadOK(y, listClock)
  BY <1>2, <1>3, FirstUrl DEF LoadForm, LoadOK
<1> QED
  BY <1>1, <1>4, LoaderMoves

LEMMA LoadStartKeeps == ASSUME ListInv, NEW l \in Loaders, LoadStart(l) PROVE ListInv'
<1> DEFINE x == Load("memo", listClock, "sdn", NoSnap)
           y == [x EXCEPT !.probe = probeVersion]
<1>1. Becomes(l, y) /\ UNCHANGED <<listClock, issue, cached, memo, stamps>>
  BY Zenon DEF LoadStart
<1>2. listClock \in Nat
  BY DEF ListInv
<1>3. /\ LoadRec(x) /\ x.at = "memo" /\ x.now = listClock /\ x.snap = NoSnap
      /\ x.file = "sdn" /\ x.url = 1 /\ x.body = 0 /\ x.fetched = 0
  BY LoadIs
<1> HIDE DEF x
<1>4. /\ LoadRec(y) /\ y.at = x.at /\ y.now = x.now /\ y.snap = x.snap
      /\ y.file = x.file /\ y.url = x.url /\ y.body = x.body /\ y.fetched = x.fetched
  BY <1>3 DEF LoadRec
<1> HIDE DEF y
<1>5. DOMAIN y.snap = {}
  BY <1>3, <1>4 DEF NoSnap
<1>6. LoadForm(y)
  BY <1>2, <1>3, <1>4, FirstUrl DEF LoadForm
<1>7. LoadOK(y, listClock)
  BY <1>2, <1>3, <1>4, <1>5 DEF LoadOK, SnapForm
<1> QED
  BY <1>1, <1>6, <1>7, LoaderOnly

LEMMA LoadMemoKeeps == ASSUME ListInv, NEW l \in Loaders, LoadMemo(l) PROVE ListInv'
<1>1. LoadForm(loader[l]) /\ LoadOK(loader[l], listClock) /\ loader[l].at = "memo" /\ listClock \in Nat
  BY DEF ListInv, LoadersInv, LoadMemo
<1>2. CASE MemoFresh(l)
  <2>1. /\ Return(l, memo.snap) /\ UNCHANGED <<listClock, issue, cached, memo, stamps>>
        /\ memo.snap # NoSnap /\ loader[l].now - memo.at <= CACHE_TTL
    BY <1>2 DEF LoadMemo, MemoFresh
  <2>2. /\ SnapForm(memo.snap) /\ Since(memo.snap, memo.at - CACHE_TTL) /\ Whole(memo.snap)
        /\ memo.at \in Nat /\ loader[l].now \in Nat
    BY <1>1, <2>1 DEF ListInv, LoadForm
  <2>3. Since(memo.snap, loader[l].now - 2 * CACHE_TTL)
    BY <2>1, <2>2, ListAssumption DEF Since, SnapForm
  <2>4. LoadersInv'
    BY <1>1, <2>1, <2>2, <2>3, ReturnKeeps
  <2> QED
    BY <2>1, <2>4 DEF ListInv, SnapForm, Since, Whole
<1>3. CASE ~MemoFresh(l)
  <2> DEFINE y == Load("read", loader[l].now, "sdn", NoSnap)
  <2>1. Becomes(l, y) /\ UNCHANGED <<listClock, issue, cached, memo, stamps>>
    BY <1>3 DEF LoadMemo
  <2>2. /\ LoadRec(y) /\ y.at = "read" /\ y.now = loader[l].now /\ y.snap = NoSnap
        /\ y.file = "sdn" /\ y.url = 1 /\ y.body = 0 /\ y.fetched = 0
    BY LoadIs
  <2> HIDE DEF y
  <2>3. DOMAIN y.snap = {}
    BY <2>2 DEF NoSnap
  <2>4. LoadForm(y)
    BY <1>1, <2>2, FirstUrl DEF LoadForm
  <2>5. LoadOK(y, listClock)
    BY <1>1, <2>2, <2>3 DEF LoadOK, SnapForm, Since
  <2> QED
    BY <2>1, <2>4, <2>5, LoaderOnly
<1> QED
  BY <1>2, <1>3

(* A working load goes on to another of its stages.                        *)
LEMMA StepKeeps ==
  ASSUME ListInv, NEW l \in Loaders, NEW at, Step(l, at), loader[l].at \in {"read", "fetch"},
         at = "fetch" \/ (at = "parse" /\ loader[l].file = "alt"),
         UNCHANGED <<listClock, issue, cached, memo, stamps>>
  PROVE  ListInv'
<1> DEFINE y == [loader[l] EXCEPT !.at = at]
<1>1. LoadForm(loader[l]) /\ LoadOK(loader[l], listClock) /\ Becomes(l, y)
  BY DEF ListInv, LoadersInv, Step
<1>2. /\ LoadRec(y) /\ y.at = at /\ y.now = loader[l].now /\ y.snap = loader[l].snap /\ y.file = loader[l].file
      /\ y.url = loader[l].url /\ y.body = loader[l].body /\ y.fetched = loader[l].fetched
  BY <1>1 DEF LoadForm, LoadRec
<1> HIDE DEF y
<1>3. LoadForm(y)
  BY <1>1, <1>2 DEF LoadForm
<1>4. LoadOK(y, listClock)
  BY <1>1, <1>2 DEF LoadOK
<1> QED
  BY <1>1, <1>3, <1>4, LoaderOnly

LEMMA HaveKeeps ==
  ASSUME ListInv, NEW l \in Loaders, NEW body \in Nat, NEW at \in Nat, loader[l].at \in {"read", "write"},
         at >= loader[l].now - CACHE_TTL
  PROVE  LoadForm(Have(l, body, at)) /\ LoadOK(Have(l, body, at), listClock)
<1> DEFINE x == loader[l]
           s == [f \in {x.file} \cup DOMAIN x.snap |-> IF f = x.file THEN [body |-> body, at |-> at] ELSE x.snap[f]]
           z == IF x.file = "sdn" THEN "read" ELSE "parse"
           y == Load(z, x.now, "alt", s)
<1>1. Have(l, body, at) = y
  BY DEF Have
<1>2. /\ LoadRec(y) /\ y.at = z /\ y.now = x.now /\ y.snap = s
      /\ y.file = "alt" /\ y.url = 1 /\ y.body = 0 /\ y.fetched = 0
  BY LoadIs
<1>3. /\ DOMAIN s = {x.file} \cup DOMAIN x.snap
      /\ \A f \in DOMAIN s : s[f] = [body |-> body, at |-> at] \/ (f \in DOMAIN x.snap /\ s[f] = x.snap[f])
  OBVIOUS
<1> HIDE DEF s, y
<1>4. LoadForm(x) /\ LoadOK(x, listClock)
  BY DEF ListInv, LoadersInv
<1>5. SnapForm(s) /\ Since(s, x.now - CACHE_TTL)
  BY <1>3, <1>4 DEF LoadOK, SnapForm, Since
<1>6. "sdn" \in DOMAIN s
  BY <1>3, <1>4 DEF LoadOK, LoadForm
<1>7. LoadForm(y)
  BY <1>2, <1>4, FirstUrl DEF LoadForm
<1>8. z \in {"read", "parse"}
  OBVIOUS
<1> HIDE DEF z
<1>9. LoadOK(y, listClock)
  BY <1>2, <1>4, <1>5, <1>6, <1>8 DEF LoadOK
<1> QED
  BY <1>1, <1>7, <1>9

LEMMA UrlIsOne == ASSUME ListInv, NEW l \in Loaders PROVE TheUrl(l) \in Urls
<1>1. loader[l].file \in DOMAIN FileUrls /\ loader[l].url \in 1 .. Len(FileUrls[loader[l].file])
  BY ListAssumption DEF ListInv, LoadersInv, LoadForm
<1> QED
  BY <1>1, ListAssumption DEF TheUrl

LEMMA LoadReadKeeps == ASSUME ListInv, NEW l \in Loaders, LoadRead(l) PROVE ListInv'
<1> DEFINE u == TheUrl(l)
<1>1. /\ LoadForm(loader[l]) /\ LoadOK(loader[l], listClock) /\ loader[l].at = "read" /\ listClock \in Nat
      /\ UNCHANGED <<listClock, issue, cached, memo, stamps>>
  BY DEF ListInv, LoadersInv, LoadRead
<1>2. CASE readCachedBody(u)
  <2>1. Becomes(l, Have(l, cached[u].body, cached[u].at))
    BY <1>2 DEF LoadRead
  <2>2. cached[u].body \in Nat /\ cached[u].at \in Nat
    BY UrlIsOne DEF ListInv
  <2>3. loader[l].now \in Nat /\ loader[l].now <= listClock
    BY <1>1 DEF LoadForm, LoadOK
  <2>4. cached[u].at >= loader[l].now - CACHE_TTL
    <3>1. listClock \in Nat /\ CACHE_TTL \in Nat
      BY <1>1, ListAssumption
    <3>2. listClock - cached[u].at \in 0 .. CACHE_TTL
      BY <1>2 DEF readCachedBody
    <3> QED
      BY <2>2, <2>3, <3>1, <3>2
  <2>5. LoadForm(Have(l, cached[u].body, cached[u].at)) /\ LoadOK(Have(l, cached[u].body, cached[u].at), listClock)
    BY <1>1, <2>2, <2>4, HaveKeeps
  <2> QED
    BY <1>1, <2>1, <2>5, LoaderOnly
<1>3. CASE ~readCachedBody(u)
  BY <1>1, <1>3, StepKeeps DEF LoadRead
<1> QED
  BY <1>2, <1>3

(* What a fetch brought, as three edits of the load.                       *)
Fetched(x, body, time) == [x EXCEPT !.at = "write", !.body = body, !.fetched = time]
LEMMA FetchedIs ==
  ASSUME NEW x, LoadRec(x), NEW body, NEW time, NEW y, y = Fetched(x, body, time)
  PROVE  /\ LoadRec(y) /\ y.at = "write" /\ y.now = x.now /\ y.snap = x.snap /\ y.file = x.file /\ y.url = x.url
         /\ y.body = body /\ y.fetched = time
<1> DEFINE a == [x EXCEPT !.at = "write"]
           b == [a EXCEPT !.body = body]
           c == [b EXCEPT !.fetched = time]
<1>1. y = c
  BY Zenon DEF Fetched
<1>2. /\ LoadRec(a) /\ a.at = "write" /\ a.now = x.now /\ a.snap = x.snap /\ a.file = x.file /\ a.url = x.url
  BY DEF LoadRec
<1> HIDE DEF a
<1>3. /\ LoadRec(b) /\ b.at = a.at /\ b.now = a.now /\ b.snap = a.snap /\ b.file = a.file /\ b.url = a.url
      /\ b.body = body
  BY <1>2 DEF LoadRec
<1> HIDE DEF b
<1>4. /\ LoadRec(c) /\ c.at = b.at /\ c.now = b.now /\ c.snap = b.snap /\ c.file = b.file /\ c.url = b.url
      /\ c.body = b.body /\ c.fetched = time
  BY <1>3 DEF LoadRec
<1> QED
  BY <1>1, <1>2, <1>3, <1>4

NextUrl(x) == [x EXCEPT !.at = "read", !.url = @ + 1]
LEMMA NextUrlIs ==
  ASSUME NEW x, LoadRec(x), NEW y, y = NextUrl(x)
  PROVE  /\ LoadRec(y) /\ y.at = "read" /\ y.now = x.now /\ y.snap = x.snap /\ y.file = x.file /\ y.url = x.url + 1
         /\ y.body = x.body /\ y.fetched = x.fetched
<1> DEFINE a == [x EXCEPT !.at = "read"]
           b == [a EXCEPT !.url = @ + 1]
<1>1. y = b
  BY Zenon DEF NextUrl
<1>2. /\ LoadRec(a) /\ a.at = "read" /\ a.now = x.now /\ a.snap = x.snap /\ a.file = x.file /\ a.url = x.url
      /\ a.body = x.body /\ a.fetched = x.fetched
  BY DEF LoadRec
<1> HIDE DEF a
<1>3. /\ LoadRec(b) /\ b.at = a.at /\ b.now = a.now /\ b.snap = a.snap /\ b.file = a.file /\ b.url = a.url + 1
      /\ b.body = a.body /\ b.fetched = a.fetched
  BY <1>2 DEF LoadRec
<1> QED
  BY <1>1, <1>2, <1>3

Parsed(x, probe) == [x EXCEPT !.at = "set", !.probe = probe]
LEMMA ParsedIs ==
  ASSUME NEW x, LoadRec(x), NEW probe, NEW y, y = Parsed(x, probe)
  PROVE  /\ LoadRec(y) /\ y.at = "set" /\ y.now = x.now /\ y.snap = x.snap /\ y.file = x.file /\ y.url = x.url
         /\ y.body = x.body /\ y.fetched = x.fetched
<1> DEFINE a == [x EXCEPT !.at = "set"]
           b == [a EXCEPT !.probe = probe]
<1>1. y = b
  BY Zenon DEF Parsed
<1>2. /\ LoadRec(a) /\ a.at = "set" /\ a.now = x.now /\ a.snap = x.snap /\ a.file = x.file /\ a.url = x.url
      /\ a.body = x.body /\ a.fetched = x.fetched
  BY DEF LoadRec
<1> HIDE DEF a
<1>3. /\ LoadRec(b) /\ b.at = a.at /\ b.now = a.now /\ b.snap = a.snap /\ b.file = a.file /\ b.url = a.url
      /\ b.body = a.body /\ b.fetched = a.fetched
  BY <1>2 DEF LoadRec
<1> QED
  BY <1>1, <1>2, <1>3

LEMMA LoadFetchKeeps == ASSUME ListInv, NEW l \in Loaders, LoadFetch(l) PROVE ListInv'
<1> DEFINE x == loader[l]
           write == Fetched(x, issue, listClock)
           next == NextUrl(x)
<1>1. /\ LoadForm(x) /\ LoadOK(x, listClock) /\ x.at = "fetch" /\ listClock \in Nat /\ issue \in Nat
      /\ UNCHANGED <<listClock, issue, cached, memo, stamps>>
  BY DEF ListInv, LoadersInv, LoadFetch
<1>2. \/ Becomes(l, write)
      \/ x.url < Len(FileUrls[x.file]) /\ Becomes(l, next)
      \/ x.file = "sdn" /\ Gap(l)
      \/ x.file # "sdn" /\ Step(l, "parse")
  BY Zenon DEF LoadFetch, NextUrl, Fetched
<1>3. /\ LoadRec(write) /\ write.at = "write" /\ write.now = x.now /\ write.snap = x.snap /\ write.file = x.file
      /\ write.url = x.url /\ write.body = issue /\ write.fetched = listClock
  <2>1. LoadRec(x)
    BY <1>1 DEF LoadForm
  <2> QED
    BY <2>1, FetchedIs
<1>4. /\ LoadRec(next) /\ next.at = "read" /\ next.now = x.now /\ next.snap = x.snap /\ next.file = x.file
      /\ next.url = x.url + 1 /\ next.body = x.body /\ next.fetched = x.fetched
  <2>1. LoadRec(x)
    BY <1>1 DEF LoadForm
  <2> QED
    BY <2>1, NextUrlIs
<1> HIDE DEF write, next
<1>5. CASE Becomes(l, write)
  <2>1. LoadForm(write)
    BY <1>1, <1>3 DEF LoadForm
  <2>2. LoadOK(write, listClock)
    BY <1>1, <1>3 DEF LoadOK, LoadForm
  <2> QED
    BY <1>1, <1>5, <2>1, <2>2, LoaderOnly
<1>6. CASE x.url < Len(FileUrls[x.file]) /\ Becomes(l, next)
  <2>1. Len(FileUrls[x.file]) \in Nat
    BY <1>1, ListAssumption DEF LoadForm
  <2>2. LoadForm(next)
    BY <1>1, <1>4, <1>6, <2>1 DEF LoadForm
  <2>3. LoadOK(next, listClock)
    BY <1>1, <1>4 DEF LoadOK
  <2> QED
    BY <1>1, <1>6, <2>2, <2>3, LoaderOnly
<1>7. CASE x.file = "sdn" /\ Gap(l)
  BY <1>1, <1>7, GapKeeps
<1>8. CASE x.file # "sdn" /\ Step(l, "parse")
  BY <1>1, <1>8, StepKeeps DEF LoadForm
<1> QED
  BY <1>2, <1>5, <1>6, <1>7, <1>8

LEMMA LoadWriteKeeps == ASSUME ListInv, NEW l \in Loaders, LoadWrite(l) PROVE ListInv'
<1> DEFINE u == TheUrl(l)
           file == [body |-> loader[l].body, at |-> loader[l].fetched, stamp |-> stamps']
           y == Have(l, loader[l].body, loader[l].fetched)
<1>1. /\ LoadForm(loader[l]) /\ LoadOK(loader[l], listClock) /\ loader[l].at = "write"
      /\ UNCHANGED <<listClock, issue, memo>> /\ Becomes(l, y) /\ cached' = [cached EXCEPT ![u] = file]
  BY DEF ListInv, LoadersInv, LoadWrite
<1>2. loader[l].body \in Nat /\ loader[l].fetched \in Nat /\ loader[l].fetched >= loader[l].now - CACHE_TTL
  BY <1>1, ListAssumption DEF LoadForm, LoadOK
<1>3. LoadForm(y) /\ LoadOK(y, listClock)
  BY <1>1, <1>2, HaveKeeps
<1> HIDE DEF y
<1>4. LoadersInv'
  BY <1>1, <1>3, LoaderMoves
<1>5. /\ cached' = [v \in Urls |-> cached'[v]]
      /\ \A v \in Urls : cached'[v].at \in Nat /\ cached'[v].body \in Nat
  BY <1>1, <1>2 DEF ListInv
<1> QED
  BY <1>1, <1>4, <1>5 DEF ListInv, SnapForm, Since, Whole

LEMMA LoadParseKeeps == ASSUME ListInv, NEW l \in Loaders, LoadParse(l) PROVE ListInv'
<1> DEFINE x == loader[l]
           y == Parsed(x, probeVersion)
<1>1. /\ LoadForm(x) /\ LoadOK(x, listClock) /\ x.at = "parse"
      /\ UNCHANGED <<listClock, issue, cached, memo, stamps>>
  BY DEF ListInv, LoadersInv, LoadParse
<1>2. (FloorMet(x.snap) /\ Becomes(l, y)) \/ Gap(l)
  BY Zenon DEF LoadParse, Parsed
<1>3. /\ LoadRec(y) /\ y.at = "set" /\ y.now = x.now /\ y.snap = x.snap /\ y.file = x.file
      /\ y.url = x.url /\ y.body = x.body /\ y.fetched = x.fetched
  <2>1. LoadRec(x)
    BY <1>1 DEF LoadForm
  <2> QED
    BY <2>1, ParsedIs
<1> HIDE DEF y
<1>4. LoadForm(y)
  BY <1>1, <1>3 DEF LoadForm
<1>5. FloorMet(x.snap) => LoadOK(y, listClock)
  BY <1>1, <1>3 DEF LoadOK, FloorMet, Whole
<1> QED
  BY <1>1, <1>2, <1>4, <1>5, GapKeeps, LoaderOnly

LEMMA LoadSetKeeps == ASSUME ListInv, NEW l \in Loaders, LoadSet(l) PROVE ListInv'
<1> DEFINE x == loader[l]
<1>1. /\ LoadForm(x) /\ LoadOK(x, listClock) /\ x.at = "set" /\ UNCHANGED <<listClock, issue, cached, stamps>>
      /\ memo' = [snap |-> x.snap, probe |-> x.probe, at |-> x.now] /\ Return(l, x.snap)
  BY DEF ListInv, LoadersInv, LoadSet
<1>2. x.now \in Nat /\ SnapForm(x.snap) /\ Since(x.snap, x.now - CACHE_TTL) /\ Whole(x.snap)
  BY <1>1 DEF LoadForm, LoadOK
<1>3. Since(x.snap, x.now - 2 * CACHE_TTL)
  BY <1>2, ListAssumption DEF Since, SnapForm
<1>4. LoadersInv'
  BY <1>1, <1>2, <1>3, ReturnKeeps
<1>5. memo'.at = x.now /\ memo'.snap = x.snap
  BY <1>1
<1>6. memo'.at \in Nat /\ SnapForm(memo'.snap) /\ Since(memo'.snap, memo'.at - CACHE_TTL) /\ Whole(memo'.snap)
  BY <1>2, <1>5
<1> QED
  BY <1>1, <1>4, <1>6 DEF ListInv

LEMMA ListMoves == ASSUME ListInv, Tick \/ PublishIssue \/ UNCHANGED listVars PROVE ListInv'
<1>1. /\ listClock \in Nat /\ listClock' \in Nat /\ listClock' >= listClock /\ issue' \in Nat
      /\ UNCHANGED <<cached, memo, loader>>
  BY DEF ListInv, Tick, PublishIssue, listVars
<1>2. ASSUME NEW x, LoadForm(x), LoadOK(x, listClock) PROVE LoadOK(x, listClock')
  BY <1>1, <1>2 DEF LoadOK, LoadForm
<1>3. LoadersInv'
  BY <1>1, <1>2 DEF ListInv, LoadersInv
<1> QED
  BY <1>1, <1>3 DEF ListInv

LEMMA ListInvHolds == MCSpec => []ListInv
<1>1. ListInv /\ [ListNext]_listVars => ListInv'
  BY ListMoves, LoadStartKeeps, LoadMemoKeeps, LoadReadKeeps, LoadFetchKeeps, LoadWriteKeeps, LoadParseKeeps,
     LoadSetKeeps DEF ListNext, LoadStep
<1> QED
  BY <1>1, ListPart, ListStarts, PTL

(* However many requests load a list at once, whatever their downloads and *)
(* the cache files do meanwhile and whenever the memo answers, the list a  *)
(* request screens against is no older than two freshness windows and met  *)
(* the sanity floor.                                                       *)
LEMMA ListsHold == MCSpec => [](ServedIsRecent /\ ServedIsWhole)
<1>1. ListInv => ServedIsRecent /\ ServedIsWhole
  <2> SUFFICES ASSUME ListInv PROVE ServedIsRecent /\ ServedIsWhole
    OBVIOUS
  <2>1. ASSUME NEW l \in Loaders, loader[l].at = "returned"
        PROVE  /\ \A f \in DOMAIN loader[l].snap : loader[l].now - loader[l].snap[f].at <= 2 * CACHE_TTL
               /\ Whole(loader[l].snap)
    <3>1. /\ Since(loader[l].snap, loader[l].now - 2 * CACHE_TTL) /\ Whole(loader[l].snap)
          /\ SnapForm(loader[l].snap) /\ loader[l].now \in Nat
      BY <2>1 DEF ListInv, LoadersInv, LoadForm, LoadOK
    <3>2. 2 * CACHE_TTL \in Nat
      BY ListAssumption
    <3>3. ASSUME NEW f \in DOMAIN loader[l].snap
          PROVE  loader[l].now - loader[l].snap[f].at <= 2 * CACHE_TTL
      BY <3>1, <3>2 DEF Since, SnapForm
    <3> QED
      BY <3>1, <3>3
  <2> QED
    BY <2>1 DEF ServedIsRecent, ServedIsWhole, Whole
<1> QED
  BY <1>1, ListInvHolds, PTL

-----------------------------------------------------------------------------
(* Due diligence.                                                          *)

LEMMA ResearchPart == MCSpec => (DDInit \/ RestDD) /\ [][DDNext]_ddVars
<1>1. MCInit => DDInit \/ RestDD
  BY Zenon DEF MCInit, SpecialistsInit, RestSpecialists
<1>2. [MCNext]_mcVars => [DDNext]_ddVars
  BY Zenon DEF MCNext, SpecialistsNext, mcVars, specialistVars
<1> QED
  BY <1>1, <1>2, PTL DEF MCSpec

DDSources == {"npm-registry", "npm-downloads", "github-advisories", "github-repo", "coingecko-coin"}
ItemOK(x) == x.source \in DDSources /\ x.ok \in BOOLEAN /\ (x.ok => x.doc \in Documents[x.source])
ItemsOK == Len(items) \in Nat /\ DOMAIN items = 1 .. Len(items) /\ \A i \in DOMAIN items : ItemOK(items[i])

(* A source was asked: it is a gap or in the evidence, or it is the        *)
(* repository and no evidence names one.  The repository comes last, so    *)
(* that what names it is in the evidence when it is looked for.            *)
Panel == SourcesOf(dd.kind)
Asked(source) == source \in holes \/ \E i \in DOMAIN items : items[i].source = source
LookedAt(source) == Asked(source) \/ (source = "github-repo" /\ ~RegistryRepo)
DDInv ==
  /\ items \in Seq({items[i] : i \in DOMAIN items}) /\ ItemsOK
  /\ dd = [at |-> dd.at, kind |-> dd.kind, next |-> dd.next]
  /\ dd.next \in 1 .. Len(Panel)
  /\ dd.at = "gather" => ddReport = {} /\ \A k \in 1 .. dd.next - 1 : Asked(Panel[k])
  /\ dd.at = "derive" => ddReport = {} /\ \A k \in 1 .. Len(Panel) : LookedAt(Panel[k])
  /\ \A r \in ddReport :
       /\ r = [evidence |-> items, findings |-> deriveFindings, gaps |-> holes,
               recommend |-> recommendation(deriveFindings)]
       /\ \A k \in 1 .. Len(Panel) : LookedAt(Panel[k])

LEMMA PanelIs ==
  ASSUME NEW kind
  PROVE  /\ Len(SourcesOf(kind)) \in {1, 4} /\ DOMAIN SourcesOf(kind) = 1 .. Len(SourcesOf(kind))
         /\ \A k \in DOMAIN SourcesOf(kind) : SourcesOf(kind)[k] \in DDSources
         /\ \A k \in DOMAIN SourcesOf(kind) : SourcesOf(kind)[k] = "github-repo" => k = Len(SourcesOf(kind))
<1> DEFINE npm == <<"npm-registry", "npm-downloads", "github-advisories", "github-repo">>
           coin == <<"coingecko-coin">>
<1>1. SourcesOf(kind) = npm \/ SourcesOf(kind) = coin
  BY DEF SourcesOf
<1>2. /\ Len(npm) = 4 /\ DOMAIN npm = 1 .. 4 /\ npm[1] = "npm-registry" /\ npm[2] = "npm-downloads"
      /\ npm[3] = "github-advisories" /\ npm[4] = "github-repo"
      /\ Len(coin) = 1 /\ DOMAIN coin = 1 .. 1 /\ coin[1] = "coingecko-coin"
  OBVIOUS
<1>3. 1 .. 4 = {1, 2, 3, 4} /\ 1 .. 1 = {1}
  OBVIOUS
<1> HIDE DEF npm, coin
<1> QED
  BY <1>1, <1>2, <1>3 DEF DDSources

LEMMA ResearchStarts == DDInit \/ RestDD => DDInv
<1> SUFFICES ASSUME DDInit \/ RestDD PROVE DDInv
  OBVIOUS
<1>1. /\ dd = [at |-> dd.at, kind |-> dd.kind, next |-> 1] /\ dd.at \in {"gather", "done"}
      /\ items = <<>> /\ holes = {} /\ ddReport = {}
  BY DEF DDInit, RestDD
<1>2. dd.next = 1 /\ 1 \in 1 .. Len(Panel)
  BY <1>1, PanelIs DEF Panel
<1>3. items \in Seq({items[i] : i \in DOMAIN items}) /\ ItemsOK
  BY <1>1 DEF ItemsOK
<1> QED
  BY <1>1, <1>2, <1>3 DEF DDInv

(* What collecting a source leaves.                                        *)
LEMMA CollectAdds ==
  ASSUME DDInv, Collect, NEW source, source = Panel[dd.next]
  PROVE  /\ items' \in Seq({items'[i] : i \in DOMAIN items'}) /\ ItemsOK'
         /\ \A s : Asked(s) => Asked(s)'
         /\ Asked(source)' \/ (LookedAt(source)' /\ source = "github-repo")
<1>1. dd.at = "gather" /\ dd.next \in 1 .. Len(Panel) /\ ItemsOK /\ items \in Seq({items[i] : i \in DOMAIN items})
  BY DEF Collect, DDInv
<1>2. source \in DDSources
  BY <1>1, PanelIs DEF Panel
<1>3. \/ source = "github-repo" /\ ~RegistryRepo /\ UNCHANGED <<items, holes>>
      \/ holes' = holes \cup {source} /\ UNCHANGED items
      \/ \E x : ItemOK(x) /\ x.source = source /\ items' = Append(items, x) /\ UNCHANGED holes
  <2>1. \/ source = "github-repo" /\ ~RegistryRepo /\ UNCHANGED <<items, holes>>
        \/ holes' = holes \cup {source} /\ UNCHANGED items
        \/ /\ items' = Append(items, [source |-> source, ok |-> FALSE, doc |-> [unavailable |-> TRUE]])
           /\ UNCHANGED holes
        \/ /\ \E d \in Documents[source] : items' = Append(items, [source |-> source, ok |-> TRUE, doc |-> d])
           /\ UNCHANGED holes
    BY DEF Collect, Panel
  <2>2. ItemOK([source |-> source, ok |-> FALSE, doc |-> [unavailable |-> TRUE]])
    BY <1>2 DEF ItemOK
  <2>3. ASSUME NEW d \in Documents[source] PROVE ItemOK([source |-> source, ok |-> TRUE, doc |-> d])
    BY <1>2 DEF ItemOK
  <2> QED
    BY <2>1, <2>2, <2>3
<1>5. CASE UNCHANGED items
  <2>1. /\ items' \in Seq({items'[i] : i \in DOMAIN items'}) /\ ItemsOK' /\ RegistryRepo' = RegistryRepo
    BY <1>1, <1>5 DEF ItemsOK, RegistryRepo
  <2>2. holes \subseteq holes' /\ (source \in holes' \/ (source = "github-repo" /\ ~RegistryRepo))
    BY <1>3, <1>5
  <2> QED
    BY <1>5, <2>1, <2>2 DEF Asked, LookedAt
<1>6. ASSUME NEW x, ItemOK(x), x.source = source, items' = Append(items, x), UNCHANGED holes
      PROVE  /\ items' \in Seq({items'[i] : i \in DOMAIN items'}) /\ ItemsOK'
             /\ \A s : Asked(s) => Asked(s)'
             /\ Asked(source)'
  <2>1. /\ Len(items') = Len(items) + 1 /\ items'[Len(items) + 1] = x /\ DOMAIN items' = 1 .. Len(items) + 1
        /\ \A i \in DOMAIN items : items'[i] = items[i]
    BY <1>1, <1>6 DEF ItemsOK
  <2>2. items' \in Seq({items'[i] : i \in DOMAIN items'})
    <3> DEFINE S == {items'[i] : i \in DOMAIN items'}
    <3>1. x \in S /\ \A i \in DOMAIN items : items[i] \in S
      BY <1>1, <2>1
    <3> HIDE DEF S
    <3>2. items \in Seq(S)
      BY <1>1, <3>1
    <3>3. items' \in Seq(S)
      BY <1>6, <3>1, <3>2
    <3> QED
      BY <3>3 DEF S
  <2>3. ItemsOK'
    BY <1>1, <1>6, <2>1 DEF ItemsOK
  <2> QED
    BY <1>1, <1>6, <2>1, <2>2, <2>3 DEF Asked, ItemsOK
<1> QED
  BY <1>3, <1>5, <1>6

LEMMA CollectKeeps == ASSUME DDInv, Collect PROVE DDInv'
<1> DEFINE last == dd.next = Len(Panel)
           a == IF last THEN "derive" ELSE "gather"
           n == IF last THEN dd.next ELSE dd.next + 1
<1>1. /\ dd.at = "gather" /\ dd = [at |-> dd.at, kind |-> dd.kind, next |-> dd.next] /\ ddReport' = {}
      /\ dd.next \in 1 .. Len(Panel) /\ \A k \in 1 .. dd.next - 1 : Asked(Panel[k])
  BY DEF Collect, DDInv
<1>2. dd' = [dd EXCEPT !.at = a, !.next = n]
  BY Zenon DEF Collect, Panel
<1>3. /\ (a = "derive" /\ n = dd.next /\ dd.next = Len(Panel)) \/ (a = "gather" /\ n = dd.next + 1 /\ n \in 1 .. Len(Panel))
      /\ Len(Panel) \in Nat
  BY <1>1, PanelIs DEF Panel
<1> HIDE DEF a, n
<1>4. dd' = [at |-> a, kind |-> dd.kind, next |-> n]
  BY <1>1, <1>2, Zenon
<1>5. dd'.at = a /\ dd'.kind = dd.kind /\ dd'.next = n /\ dd' = [at |-> dd'.at, kind |-> dd'.kind, next |-> dd'.next]
  BY <1>4
<1>6. Panel' = Panel
  BY <1>5 DEF Panel
<1>7. \A k \in 1 .. dd.next - 1 : Asked(Panel[k])'
  <2> SUFFICES ASSUME NEW k \in 1 .. dd.next - 1 PROVE Asked(Panel[k])'
    OBVIOUS
  <2>1. PICK s : s = Panel[k]
    OBVIOUS
  <2>2. Asked(s)'
    BY <1>1, <2>1, CollectAdds
  <2> QED
    BY <1>6, <2>1, <2>2 DEF Asked
<1>8. PICK source : source = Panel[dd.next]
  OBVIOUS
<1>9. Asked(source)' \/ (LookedAt(source)' /\ source = "github-repo")
  BY <1>8, CollectAdds
<1>10. items' \in Seq({items'[i] : i \in DOMAIN items'}) /\ ItemsOK'
  BY <1>8, CollectAdds
<1>11. CASE a = "derive"
  <2>1. ASSUME NEW k \in 1 .. Len(Panel) PROVE LookedAt(Panel[k])'
    <3>1. CASE k = dd.next
      BY <1>6, <1>8, <1>9, <3>1 DEF LookedAt, Asked
    <3>2. CASE k # dd.next
      <4>1. Asked(Panel[k])'
        BY <1>3, <1>7, <1>11, <3>2
      <4> QED
        BY <4>1 DEF LookedAt
    <3> QED
      BY <3>1, <3>2
  <2> QED
    BY <1>1, <1>3, <1>5, <1>6, <1>10, <1>11, <2>1 DEF DDInv
<1>12. CASE a = "gather"
  <2>1. n = dd.next + 1 /\ dd.next < Len(Panel)
    BY <1>1, <1>3, <1>12
  <2>2. source # "github-repo"
    BY <1>1, <1>8, <2>1, PanelIs DEF Panel
  <2>3. ASSUME NEW k \in 1 .. n - 1 PROVE Asked(Panel[k])'
    <3>1. CASE k = dd.next
      BY <1>6, <1>8, <1>9, <2>2, <3>1 DEF Asked
    <3>2. CASE k # dd.next
      BY <1>1, <1>7, <2>1, <3>2
    <3> QED
      BY <3>1, <3>2
  <2> QED
    BY <1>1, <1>3, <1>5, <1>6, <1>10, <1>12, <2>3 DEF DDInv
<1> QED
  BY <1>3, <1>11, <1>12

LEMMA ResearchKeeps == ASSUME DDInv, Research PROVE DDInv'
<1>1. /\ dd.at = "derive" /\ dd' = [dd EXCEPT !.at = "done"] /\ UNCHANGED <<items, holes>>
      /\ ddReport' = {[evidence |-> items, findings |-> deriveFindings, gaps |-> holes,
                       recommend |-> recommendation(deriveFindings)]}
      /\ \A k \in 1 .. Len(Panel) : LookedAt(Panel[k])
  BY DEF Research, DDInv
<1>2. /\ dd'.at = "done" /\ dd'.kind = dd.kind /\ dd'.next = dd.next
      /\ dd' = [at |-> dd'.at, kind |-> dd'.kind, next |-> dd'.next]
  BY <1>1 DEF DDInv
<1>3. Panel' = Panel /\ deriveFindings' = deriveFindings /\ ItemsOK' = ItemsOK
  BY <1>1, <1>2 DEF Panel, deriveFindings, RulesOf, ItemsOK
<1>4. \A s : LookedAt(s) => LookedAt(s)'
  BY <1>1 DEF LookedAt, Asked, RegistryRepo
<1>5. \A k \in 1 .. Len(Panel) : LookedAt(Panel[k])'
  BY <1>1, <1>3 DEF LookedAt, Asked, RegistryRepo
<1> QED
  BY <1>1, <1>2, <1>3, <1>5 DEF DDInv

LEMMA ResearchInvHolds == MCSpec => []DDInv
<1>1. DDInv /\ [DDNext]_ddVars => DDInv'
  <2>1. ASSUME DDInv, UNCHANGED ddVars PROVE DDInv'
    <3>1. Panel' = Panel /\ deriveFindings' = deriveFindings /\ ItemsOK' = ItemsOK /\ RegistryRepo' = RegistryRepo
      BY <2>1 DEF Panel, deriveFindings, ItemsOK, RegistryRepo, ddVars
    <3>2. \A s : (LookedAt(s)' <=> LookedAt(s)) /\ (Asked(s)' <=> Asked(s))
      BY <2>1, <3>1 DEF LookedAt, Asked, ddVars
    <3> QED
      BY <2>1, <3>1, <3>2 DEF DDInv, ddVars, LookedAt, Asked
  <2> QED
    BY <2>1, CollectKeeps, ResearchKeeps DEF DDNext
<1> QED
  BY <1>1, ResearchPart, ResearchStarts, PTL

(* What the rules make of a document.                                      *)
IsFlag(g) == g = Flag(g.rule, g.sev)

LEMMA GradedFlags == ASSUME NEW rule, NEW field, NEW cautious PROVE \A g \in Graded(rule, field, cautious) : IsFlag(g)
BY DEF Graded, Flag, IsFlag

LEMMA RulesFlag == ASSUME NEW x, ItemOK(x) PROVE \A g \in RulesOf(x) : IsFlag(g)
<1>1. ASSUME NEW d PROVE \A g \in npmRegistryRules(d) : IsFlag(g)
  BY GradedFlags DEF npmRegistryRules, Flag, IsFlag
<1>2. ASSUME NEW d PROVE \A g \in npmDownloadsRules(d) : IsFlag(g)
  BY GradedFlags DEF npmDownloadsRules
<1>3. ASSUME NEW d PROVE \A g \in githubAdvisoryRules(d) : IsFlag(g)
  BY DEF githubAdvisoryRules, Flag, IsFlag
<1>4. ASSUME NEW d PROVE \A g \in githubRules(d) : IsFlag(g)
  BY GradedFlags DEF githubRules, Flag, IsFlag
<1>5. ASSUME NEW d PROVE \A g \in coingeckoRules(d) : IsFlag(g)
  BY GradedFlags DEF coingeckoRules, Flag, IsFlag
<1>6. \A s : \A g \in unavailableFinding(s) : IsFlag(g)
  BY DEF unavailableFinding, Flag, IsFlag
<1> QED
  BY <1>1, <1>2, <1>3, <1>4, <1>5, <1>6 DEF RulesOf, ItemOK, DDSources

LEMMA FindingOf ==
  ASSUME NEW i \in DOMAIN items, NEW g \in RulesOf(items[i])
  PROVE  [rule |-> g.rule, sev |-> g.sev, cites |-> i] \in deriveFindings
BY DEF deriveFindings, Cited

(* A caution on any document keeps a report from being clean, a red flag   *)
(* from being anything but a no.                                           *)
LEMMA FlagsTell ==
  ASSUME NEW i \in DOMAIN items, NEW g \in RulesOf(items[i])
  PROVE  /\ g.sev \in {"caution", "red-flag"} => recommendation(deriveFindings) # "clean"
         /\ g.sev = "red-flag" => recommendation(deriveFindings) = "do-not-proceed"
<1>1. \E f \in deriveFindings : f.sev = g.sev
  <2>1. [rule |-> g.rule, sev |-> g.sev, cites |-> i].sev = g.sev
    OBVIOUS
  <2> QED
    BY <2>1, FindingOf
<1> QED
  BY <1>1 DEF recommendation

LEMMA CautionsOf ==
  ASSUME NEW x
  PROVE  /\ ~x.ok => Flag(x.source, "caution") \in RulesOf(x)
         /\ x.ok /\ x.source = "npm-registry" /\ ~x.doc.repo => Flag("npm-no-repo", "caution") \in RulesOf(x)
BY DEF RulesOf, unavailableFinding, npmRegistryRules

(* A serious advisory makes the worst one serious, wherever it stands.     *)
LEMMA WorstIsSerious ==
  ASSUME NEW advisories \in Seq(DOMAIN SEVERITY_RANK), NEW k \in DOMAIN advisories,
         advisories[k] \in {"critical", "high"}
  PROVE  worstSeverity(advisories) >= 3
<1> DEFINE R == {SEVERITY_RANK[advisories[i]] : i \in DOMAIN advisories}
<1>1. \A i \in DOMAIN advisories : SEVERITY_RANK[advisories[i]] \in 0 .. 4
  BY DEF SEVERITY_RANK
<1>2. SEVERITY_RANK[advisories[k]] \in {3, 4} /\ SEVERITY_RANK[advisories[k]] \in R
  BY DEF SEVERITY_RANK
<1>3. \A r \in R : r \in 0 .. 4
  BY <1>1
<1>4. worstSeverity(advisories) = CHOOSE r \in R : \A y \in R : y <= r
  BY DEF worstSeverity
<1> HIDE DEF R
<1>5. \E r \in R : \A y \in R : y <= r
  <2>1. CASE 4 \in R
    BY <1>3, <2>1
  <2>2. CASE 4 \notin R
    BY <1>2, <1>3, <2>2
  <2> QED
    BY <2>1, <2>2
<1>6. worstSeverity(advisories) \in R /\ \A y \in R : y <= worstSeverity(advisories)
  BY <1>4, <1>5
<1> QED
  BY <1>2, <1>3, <1>6

LEMMA RedFlagsOf ==
  ASSUME NEW x, ItemOK(x), x.ok
  PROVE  /\ x.source = "npm-registry" /\ ~(x.doc.license /\ ~x.doc.deprecated) => \E g \in RulesOf(x) : g.sev = "red-flag"
         /\ x.source = "github-advisories" /\ (\E k \in DOMAIN x.doc.advisories : x.doc.advisories[k] \in {"critical", "high"}) =>
              \E g \in RulesOf(x) : g.sev = "red-flag"
         /\ x.source = "github-repo" /\ x.doc.archived => \E g \in RulesOf(x) : g.sev = "red-flag"
         /\ x.source = "coingecko-coin" /\ (\E v \in x.doc.drawdown : ~(v < 90)) => \E g \in RulesOf(x) : g.sev = "red-flag"
<1> DEFINE d == x.doc
<1>0. \A rule, s : Flag(rule, s).sev = s
  BY DEF Flag
<1>1. ASSUME x.source = "npm-registry", ~(d.license /\ ~d.deprecated) PROVE \E g \in RulesOf(x) : g.sev = "red-flag"
  <2>1. d.license \in BOOLEAN /\ d.deprecated \in BOOLEAN
    BY <1>1, DocumentsAssumption DEF ItemOK
  <2>2. Flag("npm-deprecated", "red-flag") \in RulesOf(x) \/ Flag("npm-license", "red-flag") \in RulesOf(x)
    BY <1>1, <2>1 DEF RulesOf, npmRegistryRules
  <2> QED
    BY <1>0, <2>2
<1>2. ASSUME x.source = "github-advisories", NEW k \in DOMAIN d.advisories, d.advisories[k] \in {"critical", "high"}
      PROVE  \E g \in RulesOf(x) : g.sev = "red-flag"
  <2>1. d.advisories \in Seq(DOMAIN SEVERITY_RANK) /\ d.advisories # <<>>
    BY <1>2, DocumentsAssumption DEF ItemOK
  <2>2. worstSeverity(d.advisories) >= 3
    BY <1>2, <2>1, WorstIsSerious
  <2>3. Flag("gh-advisories", "red-flag") \in RulesOf(x)
    BY <1>2, <2>1, <2>2 DEF RulesOf, githubAdvisoryRules
  <2> QED
    BY <1>0, <2>3
<1>3. ASSUME x.source = "github-repo", d.archived PROVE \E g \in RulesOf(x) : g.sev = "red-flag"
  <2>1. Flag("gh-archived", "red-flag") \in RulesOf(x)
    BY <1>3 DEF RulesOf, githubRules
  <2> QED
    BY <1>0, <2>1
<1>4. ASSUME x.source = "coingecko-coin", NEW v \in d.drawdown, ~(v < 90) PROVE \E g \in RulesOf(x) : g.sev = "red-flag"
  <2>1. v \in Int
    BY <1>4, DocumentsAssumption DEF ItemOK
  <2>2. Flag("cg-drawdown", IF v >= 90 THEN "red-flag" ELSE IF v >= 70 THEN "caution" ELSE "info") \in RulesOf(x)
    BY <1>4 DEF RulesOf, coingeckoRules
  <2>3. Flag("cg-drawdown", "red-flag") \in RulesOf(x)
    BY <1>4, <2>1, <2>2
  <2> QED
    BY <1>0, <2>3
<1> QED
  BY <1>1, <1>2, <1>3, <1>4

(* Of a clean report without gaps, every item is an answer, and the        *)
(* registry's names a repository, so that this was asked too.              *)
LEMMA CleanLooked == ASSUME DDInv PROVE CleanMeansLooked
<1> SUFFICES ASSUME NEW r \in ddReport, r.recommend = "clean", r.gaps = {}, NEW k \in DOMAIN Panel
             PROVE  \E i \in DOMAIN r.evidence : r.evidence[i].source = Panel[k] /\ r.evidence[i].ok
  BY DEF CleanMeansLooked, Panel
<1>1. /\ r.evidence = items /\ r.recommend = recommendation(deriveFindings) /\ r.gaps = holes
      /\ \A n \in 1 .. Len(Panel) : LookedAt(Panel[n])
  BY DEF DDInv
<1>2. /\ recommendation(deriveFindings) = "clean" /\ holes = {} /\ DOMAIN Panel = 1 .. Len(Panel)
      /\ \A i \in DOMAIN items : ItemOK(items[i])
  BY <1>1, PanelIs DEF DDInv, ItemsOK, Panel
<1>3. ASSUME NEW i \in DOMAIN items, NEW g \in RulesOf(items[i]) PROVE g.sev # "caution"
  BY <1>2, <1>3, FlagsTell
<1>4. \A rule, s : Flag(rule, s).sev = s
  BY DEF Flag
<1>5. ASSUME NEW i \in DOMAIN items
      PROVE  items[i].ok /\ (items[i].source = "npm-registry" => items[i].doc.repo)
  <2>1. ~(Flag(items[i].source, "caution") \in RulesOf(items[i])) /\ ~(Flag("npm-no-repo", "caution") \in RulesOf(items[i]))
    BY <1>3, <1>4
  <2> QED
    BY <1>2, <2>1, CautionsOf DEF ItemOK
<1>6. ASSUME NEW n \in DOMAIN Panel, Panel[n] # "github-repo" PROVE \E i \in DOMAIN items : items[i].source = Panel[n]
  BY <1>1, <1>2, <1>6 DEF LookedAt, Asked
<1>7. ASSUME Panel[k] = "github-repo" PROVE \E i \in DOMAIN items : items[i].source = "github-repo"
  <2>1. 1 \in DOMAIN Panel /\ Panel[1] = "npm-registry"
    BY <1>7 DEF Panel, SourcesOf
  <2>2. RegistryRepo
    BY <1>5, <1>6, <2>1 DEF RegistryRepo
  <2> QED
    BY <1>1, <1>2, <1>7, <2>2 DEF LookedAt, Asked
<1>8. PICK i \in DOMAIN items : items[i].source = Panel[k]
  BY <1>6, <1>7
<1> QED
  BY <1>1, <1>5, <1>8

LEMMA StoppersStopped == ASSUME DDInv PROVE StoppersStop
<1> SUFFICES ASSUME NEW r \in ddReport, r.recommend # "do-not-proceed", NEW i \in DOMAIN r.evidence, r.evidence[i].ok
             PROVE  CASE r.evidence[i].source = "npm-registry" -> r.evidence[i].doc.license /\ ~r.evidence[i].doc.deprecated
                      [] r.evidence[i].source = "github-advisories" ->
                           \A k \in DOMAIN r.evidence[i].doc.advisories : r.evidence[i].doc.advisories[k] \notin {"critical", "high"}
                      [] r.evidence[i].source = "github-repo" -> ~r.evidence[i].doc.archived
                      [] r.evidence[i].source = "coingecko-coin" -> \A v \in r.evidence[i].doc.drawdown : v < 90
                      [] OTHER -> TRUE
  BY Zenon DEF StoppersStop
<1>1. r.evidence = items /\ r.recommend = recommendation(deriveFindings)
  BY DEF DDInv
<1>2. i \in DOMAIN items /\ ItemOK(items[i])
  BY <1>1 DEF DDInv, ItemsOK
<1>3. \A g \in RulesOf(items[i]) : g.sev # "red-flag"
  BY <1>1, <1>2, FlagsTell
<1> PICK x : x = items[i]
  OBVIOUS
<1>4. ItemOK(x) /\ x.ok /\ \A g \in RulesOf(x) : g.sev # "red-flag"
  BY <1>1, <1>2, <1>3
<1>5. /\ x.source = "npm-registry" => x.doc.license /\ ~x.doc.deprecated
      /\ x.source = "github-advisories" => \A k \in DOMAIN x.doc.advisories : x.doc.advisories[k] \notin {"critical", "high"}
      /\ x.source = "github-repo" => ~x.doc.archived
      /\ x.source = "coingecko-coin" => \A v \in x.doc.drawdown : v < 90
  BY <1>4, RedFlagsOf
<1> QED
  BY <1>1, <1>5

LEMMA FindingsCite == ASSUME DDInv PROVE FindingsCiteTheirSource
<1> SUFFICES ASSUME NEW r \in ddReport, NEW f \in r.findings
             PROVE  f.cites \in DOMAIN r.evidence /\ Flag(f.rule, f.sev) \in RulesOf(r.evidence[f.cites])
  BY Zenon DEF FindingsCiteTheirSource, verifyDDReport
<1>1. r.evidence = items /\ r.findings = deriveFindings
  BY DEF DDInv
<1>2. PICK i \in DOMAIN items : \E g \in RulesOf(items[i]) : f = [rule |-> g.rule, sev |-> g.sev, cites |-> i]
  BY <1>1 DEF deriveFindings, Cited
<1>3. PICK g \in RulesOf(items[i]) : f = [rule |-> g.rule, sev |-> g.sev, cites |-> i]
  BY <1>2
<1>4. g = Flag(g.rule, g.sev)
  BY RulesFlag DEF DDInv, ItemsOK, IsFlag
<1> QED
  BY <1>1, <1>3, <1>4

(* Whatever each source of a panel answers, and whichever of them fails, a *)
(* clean report without gaps means that every source answered; a serious   *)
(* fact that any of them stated stops the buyer; every finding cites the   *)
(* evidence its rule read.                                                 *)
LEMMA ResearchHolds == MCSpec => [](CleanMeansLooked /\ StoppersStop /\ FindingsCiteTheirSource)
<1>1. DDInv => CleanMeansLooked /\ StoppersStop /\ FindingsCiteTheirSource
  BY CleanLooked, StoppersStopped, FindingsCite
<1> QED
  BY <1>1, ResearchInvHolds, PTL

(* Together: the lists a request screens against are whole and at most two *)
(* freshness windows old, and a report hides no failed source and no       *)
(* serious fact.                                                           *)
THEOREM EvidenceHolds == MCSpec => []EvidenceIsSound
<1>1. ServedIsRecent /\ ServedIsWhole /\ CleanMeansLooked /\ StoppersStop /\ FindingsCiteTheirSource => EvidenceIsSound
  BY DEF EvidenceIsSound
<1> QED
  BY <1>1, ListsHold, ResearchHolds, PTL

-----------------------------------------------------------------------------
(* Dependency upgrades: what the agent commits, and the workspace.         *)

LEMMA UpgradePart == MCSpec => (UpgradeInit \/ RestUpgrade) /\ [][UpgradeNext]_upgradeVars
<1>1. MCInit => UpgradeInit \/ RestUpgrade
  BY Zenon DEF MCInit, SpecialistsInit, RestSpecialists
<1>2. [MCNext]_mcVars => [UpgradeNext]_upgradeVars
  BY Zenon DEF MCNext, SpecialistsNext, mcVars, specialistVars
<1> QED
  BY <1>1, <1>2, PTL DEF MCSpec

UpForm(x) == x = [at |-> x.at, item |-> x.item, text |-> x.text, green |-> x.green, cleaned |-> x.cleaned]

(* Between two items the workspace holds the text so far, and once an item *)
(* was applied, that text is one both commands passed on.                  *)
AnyApplied(rs) == \E i \in DOMAIN rs : rs[i].applied
AgentOK ==
  /\ results \in Seq({results[i] : i \in DOMAIN results})
  /\ up.at \in {"apply", "deliver"} => up.text = disk
  /\ up.at \in {"fetch", "intel"} => ~AnyApplied(results)
  /\ AnyApplied(results) => up.text \in up.green
  /\ sealed # {} => up.at \in {"done", "thrown"}
  /\ \A pr \in sealed : pr.manifest \in up.green /\ pr.manifest = disk
UpgradeInv ==
  /\ UpForm(up) /\ job.kind \in {"agent", "execute"}
  /\ job.kind = "agent" => AgentOK
  /\ job.kind = "execute" /\ up.at \in {"done", "thrown"} => up.cleaned

LEMMA UpgradeStarts == UpgradeInit \/ RestUpgrade => UpgradeInv
<1> SUFFICES ASSUME UpgradeInit \/ RestUpgrade PROVE UpgradeInv
  OBVIOUS
<1>1. /\ UpForm(up) /\ up.at \in {"fetch", "rest"} /\ results = <<>> /\ sealed = {}
      /\ job.kind \in {"agent", "execute"}
  BY UpgradeAssumption DEF UpgradeInit, RestUpgrade, UpForm
<1>2. results \in Seq({results[i] : i \in DOMAIN results}) /\ ~AnyApplied(results)
  BY <1>1 DEF AnyApplied
<1> QED
  BY <1>1, <1>2 DEF UpgradeInv, AgentOK

(* The two ways a stage goes on.                                           *)
LEMMA GotoIs ==
  ASSUME UpgradeInv, NEW at, Goto(at)
  PROVE  UpForm(up') /\ up'.at = at /\ up'.text = up.text /\ up'.green = up.green /\ up'.cleaned = up.cleaned
BY DEF Goto, UpgradeInv, UpForm

Closed(x, at, kind) == [x EXCEPT !.at = at, !.cleaned = (kind = "execute")]
LEMMA ClosedIs ==
  ASSUME NEW x, UpForm(x), NEW at, NEW kind, NEW y, y = Closed(x, at, kind)
  PROVE  UpForm(y) /\ y.at = at /\ y.text = x.text /\ y.green = x.green /\ (kind = "execute" => y.cleaned)
<1> DEFINE cleaned == (kind = "execute")
           a == [x EXCEPT !.at = at]
           b == [a EXCEPT !.cleaned = cleaned]
<1>1. y = b
  BY Zenon DEF Closed
<1>2. kind = "execute" => cleaned
  OBVIOUS
<1> HIDE DEF cleaned
<1>3. UpForm(a) /\ a.at = at /\ a.text = x.text /\ a.green = x.green
  BY DEF UpForm
<1> HIDE DEF a
<1>4. UpForm(b) /\ b.at = a.at /\ b.text = a.text /\ b.green = a.green /\ b.cleaned = cleaned
  BY <1>3 DEF UpForm
<1> HIDE DEF b
<1>5. kind = "execute" => b.cleaned
  BY <1>2, <1>4, Zenon
<1> QED
  BY <1>1, <1>3, <1>4, <1>5

LEMMA EndedIs ==
  ASSUME UpgradeInv, NEW at, Ended(at)
  PROVE  UpForm(up') /\ up'.at = at /\ up'.text = up.text /\ up'.green = up.green /\ (job.kind = "execute" => up'.cleaned)
<1>1. up' = Closed(up, at, job.kind)
  BY Zenon DEF Ended, Closed
<1>2. UpForm(up)
  BY DEF UpgradeInv
<1> QED
  BY <1>1, <1>2, ClosedIs

(* A step that leaves what was tested and delivered alone.                 *)
LEMMA QuietKeeps ==
  ASSUME UpgradeInv, UNCHANGED <<job, disk, results, sealed>>, UpForm(up'),
         up'.text = up.text, up'.green = up.green,
         job.kind = "agent" => up'.at \notin {"fetch", "apply", "deliver"} /\ (up'.at = "intel" => up.at = "fetch") /\ (sealed # {} => up'.at \in {"done", "thrown"}),
         job.kind = "execute" /\ up'.at \in {"done", "thrown"} => up'.cleaned
  PROVE  UpgradeInv'
<1>1. job.kind = "agent" => AgentOK'
  BY DEF UpgradeInv, AgentOK
<1> QED
  BY <1>1 DEF UpgradeInv

LEMMA FetchRefKeeps == ASSUME UpgradeInv, Fetch PROVE UpgradeInv'
<1>1. PICK at \in {"unfetched", "intel", "available"} : Goto(at)
  BY DEF Fetch
<1>2. UpForm(up') /\ up'.at = at /\ up'.text = up.text /\ up'.green = up.green
  BY <1>1, GotoIs
<1>3. up.at = "fetch" /\ (job.kind = "agent" => sealed = {})
  BY DEF Fetch, UpgradeInv, AgentOK
<1>4. UNCHANGED <<job, disk, results, sealed>>
  BY DEF Fetch
<1> QED
  BY <1>2, <1>3, <1>4, QuietKeeps

(* The edits a plan and an item make, and what is left of the rest.        *)
Begun(x, at, text) == [x EXCEPT !.at = at, !.item = 1, !.text = text]
Moved(x, text, item, green, at) == [x EXCEPT !.text = text, !.item = item, !.green = green, !.at = at]

LEMMA MovedIs ==
  ASSUME NEW x, UpForm(x), NEW text, NEW item, NEW green, NEW at, NEW y, y = Moved(x, text, item, green, at)
  PROVE  UpForm(y) /\ y.at = at /\ y.text = text /\ y.green = green /\ y.cleaned = x.cleaned
<1> DEFINE a == [x EXCEPT !.text = text]
           b == [a EXCEPT !.item = item]
           c == [b EXCEPT !.green = green]
           d == [c EXCEPT !.at = at]
<1>1. y = d
  BY Zenon DEF Moved
<1>2. UpForm(a) /\ a.text = text /\ a.cleaned = x.cleaned
  BY DEF UpForm
<1> HIDE DEF a
<1>3. UpForm(b) /\ b.text = a.text /\ b.cleaned = a.cleaned
  BY <1>2 DEF UpForm
<1> HIDE DEF b
<1>4. UpForm(c) /\ c.text = b.text /\ c.cleaned = b.cleaned /\ c.green = green
  BY <1>3 DEF UpForm
<1> HIDE DEF c
<1>5. UpForm(d) /\ d.text = c.text /\ d.cleaned = c.cleaned /\ d.green = c.green /\ d.at = at
  BY <1>4 DEF UpForm
<1> QED
  BY <1>1, <1>2, <1>3, <1>4, <1>5

LEMMA BegunIs ==
  ASSUME NEW x, UpForm(x), NEW at, NEW text, NEW y, y = Begun(x, at, text)
  PROVE  UpForm(y) /\ y.at = at /\ y.text = text /\ y.green = x.green /\ y.cleaned = x.cleaned
<1> DEFINE a == [x EXCEPT !.at = at]
           b == [a EXCEPT !.item = 1]
           c == [b EXCEPT !.text = text]
<1>1. y = c
  BY Zenon DEF Begun
<1>2. UpForm(a) /\ a.at = at /\ a.cleaned = x.cleaned /\ a.green = x.green
  BY DEF UpForm
<1> HIDE DEF a
<1>3. UpForm(b) /\ b.at = a.at /\ b.cleaned = a.cleaned /\ b.green = a.green
  BY <1>2 DEF UpForm
<1> HIDE DEF b
<1>4. UpForm(c) /\ c.at = b.at /\ c.cleaned = b.cleaned /\ c.green = b.green /\ c.text = text
  BY <1>3 DEF UpForm
<1> QED
  BY <1>1, <1>2, <1>3, <1>4

LEMMA StartItemsIs ==
  ASSUME UpgradeInv, NEW at, StartItems(at)
  PROVE  UpForm(up') /\ up'.at = at /\ up'.text = disk /\ up'.green = up.green
<1>1. up' = Begun(up, at, disk)
  BY Zenon DEF StartItems, Begun
<1> QED
  BY <1>1, BegunIs DEF UpgradeInv

LEMMA PlanKeeps == ASSUME UpgradeInv, Plan PROVE UpgradeInv'
<1>1. /\ up.at = "intel" /\ UpForm(up) /\ UNCHANGED <<job, disk, results, sealed>>
      /\ job.kind \in {"agent", "execute"}
      /\ job.kind = "agent" => sealed = {} /\ ~AnyApplied(results) /\ AgentOK
  BY DEF Plan, UpgradeInv, AgentOK
<1>2. \/ Ended("thrown")
      \/ job.kind = "agent" /\ (StartItems("done") \/ StartItems("apply"))
      \/ job.kind # "agent" /\ (StartItems("clean") \/ StartItems("apply"))
  BY DEF Plan
<1>3. CASE Ended("thrown")
  <2>1. /\ UpForm(up') /\ up'.at = "thrown" /\ up'.text = up.text /\ up'.green = up.green
        /\ (job.kind = "execute" => up'.cleaned)
    BY <1>3, EndedIs
  <2> QED
    BY <1>1, <2>1, QuietKeeps
<1>4. ASSUME job.kind = "agent", NEW at \in {"done", "apply"}, StartItems(at) PROVE UpgradeInv'
  <2>1. UpForm(up') /\ up'.at = at /\ up'.text = disk /\ up'.green = up.green
    BY <1>4, StartItemsIs
  <2> QED
    BY <1>1, <1>4, <2>1 DEF UpgradeInv, AgentOK
<1>5. ASSUME job.kind # "agent", NEW at \in {"clean", "apply"}, StartItems(at) PROVE UpgradeInv'
  <2>1. UpForm(up') /\ up'.at = at
    BY <1>5, StartItemsIs
  <2> QED
    BY <1>1, <1>5, <2>1 DEF UpgradeInv
<1> QED
  BY <1>2, <1>3, <1>4, <1>5

LEMMA AgentApplyKeeps == ASSUME UpgradeInv, AgentApply PROVE UpgradeInv'
<1>1. /\ job.kind = "agent" /\ up.at = "apply" /\ Goto("verify") /\ UNCHANGED <<job, results, sealed>>
      /\ AgentOK
  BY DEF AgentApply, UpgradeInv
<1>2. UpForm(up') /\ up'.at = "verify" /\ up'.text = up.text /\ up'.green = up.green
  BY <1>1, GotoIs
<1> QED
  BY <1>1, <1>2 DEF UpgradeInv, AgentOK

LEMMA AgentVerifyKeepsInv == ASSUME UpgradeInv, AgentVerify PROVE UpgradeInv'
<1>1. /\ job.kind = "agent" /\ up.at = "verify" /\ UNCHANGED <<job, sealed>> /\ AgentOK /\ UpForm(up)
      /\ sealed = {}
  BY DEF AgentVerify, UpgradeInv, AgentOK
<1>2. PICK ok \in BOOLEAN : \E text : NextItem(text, ok) /\ disk' = text /\ (ok => text = disk) /\ (~ok => text = up.text)
  BY DEF AgentVerify
<1>a. PICK text : NextItem(text, ok) /\ disk' = text /\ (ok => text = disk) /\ (~ok => text = up.text)
  BY <1>2
<1>3. PICK green, at : /\ up' = Moved(up, text, up.item + 1, green, at) /\ at \in {"apply", "deliver"}
                       /\ green = IF ok THEN up.green \cup {disk} ELSE up.green
  <2> DEFINE green == IF ok THEN up.green \cup {disk} ELSE up.green
             at == IF up.item < Len(plan) THEN "apply" ELSE "deliver"
  <2>1. up' = Moved(up, text, up.item + 1, green, at)
    BY <1>a, Zenon DEF NextItem, Moved
  <2> QED
    BY <2>1
<1>4. PICK item : results' = Append(results, [item |-> item, applied |-> ok])
  BY <1>a DEF NextItem
<1>5. UpForm(up') /\ up'.at = at /\ up'.text = text /\ up'.green = green
  BY <1>1, <1>3, MovedIs
<1>6. /\ results' \in Seq({results'[i] : i \in DOMAIN results'})
      /\ AnyApplied(results') => AnyApplied(results) \/ ok
  <2>1. results \in Seq({results[i] : i \in DOMAIN results})
    BY <1>1 DEF AgentOK
  <2>2. /\ DOMAIN results' = 1 .. Len(results) + 1 /\ DOMAIN results = 1 .. Len(results) /\ Len(results) \in Nat
        /\ \A i \in DOMAIN results : results'[i] = results[i]
        /\ results'[Len(results) + 1] = [item |-> item, applied |-> ok]
    BY <1>4, <2>1
  <2>3. results' \in Seq({results'[i] : i \in DOMAIN results'})
    BY <1>4, <2>1, <2>2
  <2> QED
    BY <2>2, <2>3 DEF AnyApplied
<1>7. AnyApplied(results') => text \in green
  BY <1>1, <1>a, <1>3, <1>6 DEF AgentOK
<1> QED
  BY <1>1, <1>a, <1>3, <1>5, <1>6, <1>7 DEF UpgradeInv, AgentOK

LEMMA AgentDeliverKeeps == ASSUME UpgradeInv, AgentDeliver PROVE UpgradeInv'
<1>1. /\ job.kind = "agent" /\ up.at = "deliver" /\ UNCHANGED <<job, disk, results>> /\ AgentOK /\ sealed = {}
  BY DEF AgentDeliver, UpgradeInv, AgentOK
<1>2. PICK at \in {"done", "thrown"} :
        Goto(at) /\ (sealed' = sealed \/ (AnyApplied(results) /\ \E pr : sealed' = {[manifest |-> up.text, opened |-> pr]}))
  BY DEF AgentDeliver, AnyApplied
<1>3. UpForm(up') /\ up'.at = at /\ up'.text = up.text /\ up'.green = up.green
  BY <1>2, GotoIs
<1>4. \A pr \in sealed' : pr.manifest \in up.green /\ pr.manifest = disk
  BY <1>1, <1>2 DEF AgentOK
<1> QED
  BY <1>1, <1>2, <1>3, <1>4 DEF UpgradeInv, AgentOK

LEMMA ExecKeeps ==
  ASSUME UpgradeInv, ExecAvailable \/ ExecApply \/ ExecInstall \/ ExecCheck \/ ExecRescan PROVE UpgradeInv'
<1>1. job.kind = "execute" /\ UNCHANGED job
  BY DEF ExecAvailable, ExecApply, ExecInstall, ExecCheck, ExecRescan
<1>2. PICK at : Ended(at) \/ (Goto(at) /\ at \notin {"done", "thrown"})
  <2>1. CASE ExecAvailable
    <3>1. Ended("done") \/ Goto("intel")
      BY <2>1, Zenon DEF ExecAvailable
    <3> QED
      BY <3>1
  <2>2. CASE ExecApply
    BY <2>2 DEF ExecApply
  <2>3. CASE ExecInstall
    <3>1. Ended("thrown") \/ Goto("checks") \/ Goto("rescan")
      BY <2>3 DEF ExecInstall
    <3> QED
      BY <3>1
  <2>4. CASE ExecCheck
    <3>1. Ended("thrown") \/ Goto("checks") \/ Goto("rescan")
      BY <2>4 DEF ExecCheck
    <3> QED
      BY <3>1
  <2>5. CASE ExecRescan
    BY <2>5 DEF ExecRescan
  <2> QED
    BY <2>1, <2>2, <2>3, <2>4, <2>5
<1>3. UpForm(up') /\ up'.at = at /\ (Ended(at) => (job.kind = "execute" => up'.cleaned))
  BY <1>2, GotoIs, EndedIs
<1> QED
  BY <1>1, <1>2, <1>3 DEF UpgradeInv

LEMMA UpgradeInvHolds == MCSpec => []UpgradeInv
<1>1. UpgradeInv /\ [UpgradeNext]_upgradeVars => UpgradeInv'
  <2>1. ASSUME UpgradeInv, UNCHANGED upgradeVars PROVE UpgradeInv'
    BY <2>1 DEF UpgradeInv, AgentOK, upgradeVars
  <2> QED
    BY <2>1, FetchRefKeeps, PlanKeeps, AgentApplyKeeps, AgentVerifyKeepsInv, AgentDeliverKeeps, ExecKeeps DEF UpgradeNext
<1> QED
  BY <1>1, UpgradePart, UpgradeStarts, PTL

-----------------------------------------------------------------------------
(* Versions: the order of releases, and what stands at either end of a     *)
(* finite set of them.                                                     *)

(* A finite set has an element that nothing of it comes before.            *)
LEMMA FirstOf ==
  ASSUME NEW S, IsFiniteSet(S), S # {}, NEW R,
         \A x \in S : <<x, x>> \notin R,
         \A x, y, z \in S : <<x, y>> \in R /\ <<y, z>> \in R => <<x, z>> \in R
  PROVE  \E x \in S : \A y \in S : <<y, x>> \notin R
<1> DEFINE Ends(T) == \E x \in T : \A y \in T : <<y, x>> \notin R
           Stuck == {n \in Nat : \E T \in SUBSET S : Cardinality(T) = n /\ T # {} /\ ~ Ends(T)}
<1>1. ASSUME Stuck # {} PROVE FALSE
  <2>1. PICK n \in Stuck : \A m \in Stuck : ~(m < n)
    <3>1. Stuck \subseteq Nat
      OBVIOUS
    <3> HIDE DEF Stuck
    <3>2. PICK n \in Stuck : \A m \in Stuck : ~(<<m, n>> \in OpToRel(<, Nat))
      BY <1>1, <3>1, NatLessThanWellFounded, WFMin
    <3> QED
      BY <3>1, <3>2 DEF OpToRel
  <2>2. PICK T \in SUBSET S : Cardinality(T) = n /\ T # {} /\ ~ Ends(T)
    BY <2>1
  <2>3. PICK x \in T : TRUE
    BY <2>2
  <2> DEFINE U == T \ {x}
  <2>4. IsFiniteSet(T) /\ n \in Nat
    BY <2>1, FS_Subset
  <2>5. Cardinality(U) = n - 1
    BY <2>2, <2>3, <2>4, FS_RemoveElement
  <2>6. IsFiniteSet(U)
    BY <2>4, FS_RemoveElement
  <2>7. Cardinality(U) \in Nat
    BY <2>6, FS_CardinalityType
  <2>8. n - 1 < n /\ n - 1 \in Nat
    BY <2>4, <2>5, <2>7
  <2>9. n - 1 \notin Stuck
    BY <2>1, <2>8
  <2>10. U \in SUBSET S
    OBVIOUS
  <2>11. U # {} => Ends(U)
    <3> HIDE DEF U, Ends
    <3> QED
      BY <2>5, <2>8, <2>9, <2>10
  <2>12. CASE U = {}
    <3>1. T = {x} /\ x \in S
      BY <2>12, <2>3
    <3>2. \A y \in T : <<y, x>> \notin R
      BY <3>1
    <3> QED
      BY <2>2, <2>3, <3>2
  <2>13. CASE U # {}
    <3>1. PICK m \in U : \A y \in U : <<y, m>> \notin R
      BY <2>11, <2>13
    <3>2. m \in T /\ m \in S /\ x \in S /\ \A y \in T : y \in S /\ (y # x => y \in U)
      BY <2>3
    <3>3. CASE <<x, m>> \in R
      <4>1. \A y \in T : <<y, x>> \notin R
        BY <3>1, <3>2, <3>3
      <4> QED
        BY <2>2, <2>3, <4>1
    <3>4. CASE <<x, m>> \notin R
      <4>1. \A y \in T : <<y, m>> \notin R
        BY <3>1, <3>2, <3>4
      <4> QED
        BY <2>2, <3>2, <4>1
    <3> QED
      BY <3>3, <3>4
  <2> QED
    BY <2>12, <2>13
<1>2. Cardinality(S) \in Nat /\ S \in SUBSET S
  BY FS_CardinalityType
<1>3. Cardinality(S) \notin Stuck
  <2> HIDE DEF Stuck
  <2> QED
    BY <1>1
<1>4. Ends(S)
  <2> HIDE DEF Ends
  <2> QED
    BY <1>2, <1>3
<1> QED
  BY <1>4

Triples == [1 .. 3 -> Nat]
Lex(a, b) == \/ a[1] < b[1]
             \/ a[1] = b[1] /\ a[2] < b[2]
             \/ a[1] = b[1] /\ a[2] = b[2] /\ a[3] < b[3]
IsRelease(v) == v.n \in Nat \X Nat \X Nat /\ v.pre = <<>> /\ v = [n |-> v.n, pre |-> v.pre]

LEMMA StableIsRelease ==
  ASSUME NEW v \in Versions \cup {Unparseable}, isStable(v)
  PROVE  IsRelease(v)
BY DEF isStable, IsRelease, Versions

LEMMA ReleaseOrder ==
  ASSUME NEW v, NEW w, IsRelease(v), IsRelease(w)
  PROVE  Below(v, w) <=> Lex(v.n, w.n)
<1> DEFINE a == v.n
           b == w.n
<1>1. /\ Len(a) = 3 /\ Len(b) = 3
      /\ a[1] \in Nat /\ a[2] \in Nat /\ a[3] \in Nat /\ b[1] \in Nat /\ b[2] \in Nat /\ b[3] \in Nat
  BY DEF IsRelease
<1>2. ~ comparePrerelease(v.pre, w.pre)
  BY DEF comparePrerelease, IsRelease
<1>3. Below(v, w) <=> \E i \in 1 .. 3 : (\A j \in 1 .. i - 1 : j <= 3 /\ a[j] = b[j]) /\ a[i] < b[i]
  <2>1. Below(v, w) <=> \E i \in 1 .. Len(b) : /\ \A j \in 1 .. i - 1 : j <= Len(a) /\ a[j] = b[j]
                                               /\ IF i > Len(a) THEN TRUE ELSE a[i] < b[i]
    BY <1>2 DEF Below, LexLess
  <2> HIDE DEF a, b
  <2> QED
    BY <1>1, <2>1
<1>4. Below(v, w) <=> Lex(a, b)
  <2> HIDE DEF a, b
  <2>1. ASSUME NEW i \in 1 .. 3, \A j \in 1 .. i - 1 : j <= 3 /\ a[j] = b[j], a[i] < b[i] PROVE Lex(a, b)
    <3>1. i > 1 => a[1] = b[1]
      BY <2>1
    <3>2. i > 2 => a[2] = b[2]
      BY <2>1
    <3>3. i = 1 \/ i = 2 \/ i = 3
      OBVIOUS
    <3> QED
      BY <2>1, <3>1, <3>2, <3>3 DEF Lex
  <2>2. ASSUME Lex(a, b) PROVE \E i \in 1 .. 3 : (\A j \in 1 .. i - 1 : j <= 3 /\ a[j] = b[j]) /\ a[i] < b[i]
    <3>1. CASE a[1] < b[1]
      <4>1. \A j \in 1 .. 1 - 1 : j <= 3 /\ a[j] = b[j]
        OBVIOUS
      <4> QED
        BY <3>1, <4>1
    <3>2. CASE a[1] = b[1] /\ a[2] < b[2]
      <4>1. \A j \in 1 .. 2 - 1 : j <= 3 /\ a[j] = b[j]
        BY <3>2
      <4> QED
        BY <3>2, <4>1
    <3>3. CASE a[1] = b[1] /\ a[2] = b[2] /\ a[3] < b[3]
      <4>1. \A j \in 1 .. 3 - 1 : j <= 3 /\ a[j] = b[j]
        BY <3>3
      <4> QED
        BY <3>3, <4>1
    <3> QED
      BY <2>2, <3>1, <3>2, <3>3 DEF Lex
  <2> QED
    BY <1>3, <2>1, <2>2
<1> QED
  BY <1>4

LEMMA ReleasesAreOrdered ==
  ASSUME NEW u, NEW v, NEW w, IsRelease(u), IsRelease(v), IsRelease(w)
  PROVE  /\ ~ Below(u, u)
         /\ Below(u, v) /\ Below(v, w) => Below(u, w)
         /\ Below(u, v) \/ Below(v, u) \/ u = v
<1>1. ASSUME NEW x, IsRelease(x) PROVE x.n[1] \in Nat /\ x.n[2] \in Nat /\ x.n[3] \in Nat
  BY <1>1 DEF IsRelease
<1>2. ~ Below(u, u)
  BY <1>1, ReleaseOrder DEF Lex
<1>3. Below(u, v) /\ Below(v, w) => Below(u, w)
  <2>1. (Below(u, v) <=> Lex(u.n, v.n)) /\ (Below(v, w) <=> Lex(v.n, w.n)) /\ (Below(u, w) <=> Lex(u.n, w.n))
    BY ReleaseOrder
  <2> QED
    BY <1>1, <2>1 DEF Lex
<1>4. Below(u, v) \/ Below(v, u) \/ u = v
  <2>1. (Below(u, v) <=> Lex(u.n, v.n)) /\ (Below(v, u) <=> Lex(v.n, u.n))
    BY ReleaseOrder
  <2>2. u.n[1] = v.n[1] /\ u.n[2] = v.n[2] /\ u.n[3] = v.n[3] => u = v
    BY DEF IsRelease
  <2> QED
    BY <1>1, <2>1, <2>2 DEF Lex
<1> QED
  BY <1>2, <1>3, <1>4

(* The nearest and the topmost of a finite set of releases are of it.      *)
LEMMA EndsOf ==
  ASSUME NEW S, IsFiniteSet(S), S # {}, \A v \in S : IsRelease(v)
  PROVE  /\ \E v \in S : \A w \in S : ~ Below(w, v)
         /\ \E v \in S : \A w \in S : ~ Below(v, w)
<1> DEFINE Up == {p \in S \X S : Below(p[1], p[2])}
           Dn == {p \in S \X S : Below(p[2], p[1])}
<1>1. \A x, y \in S : (<<x, y>> \in Up <=> Below(x, y)) /\ (<<x, y>> \in Dn <=> Below(y, x))
  OBVIOUS
<1> HIDE DEF Up, Dn
<1>2. \A x \in S : ~ Below(x, x)
  BY ReleasesAreOrdered
<1>3. \A x, y, z \in S : Below(x, y) /\ Below(y, z) => Below(x, z)
  BY ReleasesAreOrdered
<1>4. \E x \in S : \A y \in S : <<y, x>> \notin Up
  <2>1. \A x \in S : <<x, x>> \notin Up
    BY <1>1, <1>2
  <2>2. \A x, y, z \in S : <<x, y>> \in Up /\ <<y, z>> \in Up => <<x, z>> \in Up
    BY <1>1, <1>3
  <2> QED
    BY <2>1, <2>2, FirstOf
<1>5. \E x \in S : \A y \in S : <<y, x>> \notin Dn
  <2>1. \A x \in S : <<x, x>> \notin Dn
    BY <1>1, <1>2
  <2>2. \A x, y, z \in S : <<x, y>> \in Dn /\ <<y, z>> \in Dn => <<x, z>> \in Dn
    BY <1>1, <1>3
  <2> QED
    BY <2>1, <2>2, FirstOf
<1> QED
  BY <1>1, <1>4, <1>5

(* A range of one token admits what the token's comparators do.            *)
OneToken(op, p) == <<<<[op |-> op, p |-> p]>>>>
LEMMA OneTokenAdmits ==
  ASSUME NEW op, NEW p, NEW v
  PROVE  satisfies(v, OneToken(op, p)) <=>
         /\ v # Unparseable
         /\ \A c \in Elements(parseComparatorToken([op |-> op, p |-> p])) : testComparator(v, c)
<1>1. Elements(OneToken(op, p)) = {<<[op |-> op, p |-> p]>>}
  BY DEF Elements, OneToken
<1>2. Elements(<<[op |-> op, p |-> p]>>) = {[op |-> op, p |-> p]}
  BY DEF Elements
<1> QED
  BY <1>1, <1>2, Zenon DEF satisfies

LEMMA IntervalAdmits ==
  ASSUME NEW p, NEW upper, NEW v
  PROVE  (\A c \in Elements(Interval(p, upper)) : testComparator(v, c)) <=>
         compareSemver(v, padded(p)) \in {0, 1} /\ compareSemver(v, upper) = -1
<1>1. Elements(Interval(p, upper)) = {[op |-> ">=", v |-> padded(p)], [op |-> "<", v |-> upper]}
  BY DEF Elements, Interval
<1>2. testComparator(v, [op |-> ">=", v |-> padded(p)]) <=> compareSemver(v, padded(p)) \in {0, 1}
  BY DEF testComparator
<1>3. testComparator(v, [op |-> "<", v |-> upper]) <=> compareSemver(v, upper) = -1
  BY DEF testComparator
<1> QED
  BY <1>1, <1>2, <1>3

LEMMA Comparisons ==
  ASSUME NEW v, NEW w, IsRelease(v), IsRelease(w)
  PROVE  /\ compareSemver(v, w) \in {0, 1} <=> ~ Below(v, w)
         /\ compareSemver(v, w) = -1 <=> Below(v, w)
         /\ compareSemver(v, v) = 0
BY ReleasesAreOrdered DEF compareSemver

LEMMA ReleaseIs ==
  ASSUME NEW a \in Nat, NEW b \in Nat, NEW c \in Nat
  PROVE  IsRelease(Release(a, b, c)) /\ Release(a, b, c).n = <<a, b, c>>
BY DEF IsRelease, Release

(* A release is its own padding.                                           *)
LEMMA PaddedRelease ==
  ASSUME NEW v, IsRelease(v)
  PROVE  padded(v) = v
<1>1. v.n = <<v.n[1], v.n[2], v.n[3]>> /\ v.n[1] \in Nat /\ v.n[2] \in Nat /\ v.n[3] \in Nat
  BY DEF IsRelease
<1>2. [i \in 1 .. 3 |-> IF v.n[i] = X THEN 0 ELSE v.n[i]] = v.n
  BY <1>1 DEF X
<1>3. padded(v) = [v EXCEPT !.n = v.n]
  BY <1>2, Zenon DEF padded
<1> QED
  BY <1>3 DEF IsRelease

(* Partial versions, as ranges write them: what a caret and a tilde admit. *)
PartialOf(a, b, c) == [n |-> <<a, b, c>>, pre |-> <<>>]
Filled(x) == IF x = X THEN 0 ELSE x

LEMMA PaddedIs ==
  ASSUME NEW a \in Nat, NEW b \in Nat \cup {X}, NEW c \in Nat \cup {X}
  PROVE  padded(PartialOf(a, b, c)) = Release(a, Filled(b), Filled(c))
<1> DEFINE p == PartialOf(a, b, c)
           q == <<a, Filled(b), Filled(c)>>
<1>1. p.n = <<a, b, c>> /\ p.pre = <<>> /\ p = [n |-> p.n, pre |-> p.pre]
  BY DEF PartialOf
<1>2. [i \in 1 .. 3 |-> IF p.n[i] = X THEN 0 ELSE p.n[i]] = q
  BY <1>1 DEF X, Filled
<1> HIDE DEF p, q
<1>3. padded(p) = [p EXCEPT !.n = q]
  BY <1>2, Zenon DEF padded
<1>4. padded(p) = [n |-> q, pre |-> <<>>]
  BY <1>1, <1>3
<1> QED
  BY <1>4 DEF p, q, Release

LEMMA CaretToken ==
  ASSUME NEW p, NEW v, NEW upper, caretComparators(p) = Interval(p, upper),
         IsRelease(v), IsRelease(upper), IsRelease(padded(p))
  PROVE  satisfies(v, OneToken("^", p)) <=> ~ Below(v, padded(p)) /\ Below(v, upper)
<1>1. parseComparatorToken([op |-> "^", p |-> p]) = Interval(p, upper)
  BY DEF parseComparatorToken
<1>2. v # Unparseable
  BY DEF IsRelease, Unparseable
<1>3. (compareSemver(v, padded(p)) \in {0, 1} <=> ~ Below(v, padded(p))) /\ (compareSemver(v, upper) = -1 <=> Below(v, upper))
  BY Comparisons
<1> QED
  BY <1>1, <1>2, <1>3, OneTokenAdmits, IntervalAdmits

LEMMA TildeToken ==
  ASSUME NEW p, NEW v, NEW upper, tildeComparators(p) = Interval(p, upper),
         IsRelease(v), IsRelease(upper), IsRelease(padded(p))
  PROVE  satisfies(v, OneToken("~", p)) <=> ~ Below(v, padded(p)) /\ Below(v, upper)
<1>1. parseComparatorToken([op |-> "~", p |-> p]) = Interval(p, upper)
  BY DEF parseComparatorToken
<1>2. v # Unparseable
  BY DEF IsRelease, Unparseable
<1>3. (compareSemver(v, padded(p)) \in {0, 1} <=> ~ Below(v, padded(p))) /\ (compareSemver(v, upper) = -1 <=> Below(v, upper))
  BY Comparisons
<1> QED
  BY <1>1, <1>2, <1>3, OneTokenAdmits, IntervalAdmits

CaretUpper(a, b, c) ==
  IF b = X \/ a > 0 THEN Release(a + 1, 0, 0)
  ELSE IF b > 0 \/ c = X THEN Release(0, b + 1, 0) ELSE Release(0, 0, c + 1)
TildeUpper(a, b) == IF b = X THEN Release(a + 1, 0, 0) ELSE Release(a, b + 1, 0)

LEMMA UppersAre ==
  ASSUME NEW a \in Nat, NEW b \in Nat \cup {X}, NEW c \in Nat \cup {X}
  PROVE  /\ caretComparators(PartialOf(a, b, c)) = Interval(PartialOf(a, b, c), CaretUpper(a, b, c))
         /\ tildeComparators(PartialOf(a, b, c)) = Interval(PartialOf(a, b, c), TildeUpper(a, b))
         /\ IsRelease(CaretUpper(a, b, c)) /\ IsRelease(TildeUpper(a, b))
<1> DEFINE p == PartialOf(a, b, c)
<1>1. p.n[1] = a /\ p.n[2] = b /\ p.n[3] = c
  BY DEF PartialOf
<1> HIDE DEF p
<1>2. tildeComparators(p) = Interval(p, TildeUpper(a, b))
  BY <1>1, Zenon DEF tildeComparators, TildeUpper
<1>3. caretComparators(p) = Interval(p, CaretUpper(a, b, c))
  <2>1. (CASE b = X \/ a > 0 -> Release(a + 1, 0, 0)
           [] a = 0 /\ b # X /\ (b > 0 \/ c = X) -> Release(0, b + 1, 0)
           [] OTHER -> Release(0, b, c + 1)) = CaretUpper(a, b, c)
    BY DEF CaretUpper, X
  <2> QED
    BY <1>1, <2>1, Zenon DEF caretComparators
<1>4. IsRelease(CaretUpper(a, b, c)) /\ IsRelease(TildeUpper(a, b))
  BY ReleaseIs DEF CaretUpper, TildeUpper, X
<1> QED
  BY <1>2, <1>3, <1>4 DEF p

(* How many components a caret keeps.                                      *)
LEMMA CaretKeptIs ==
  ASSUME NEW a \in Nat, NEW b \in Nat \cup {X}, NEW c \in Nat \cup {X}, b # X \/ c = X
  PROVE  CaretKept(PartialOf(a, b, c)) =
         IF b = X \/ a > 0 THEN 1 ELSE IF b > 0 \/ c = X THEN 2 ELSE 3
<1> DEFINE p == PartialOf(a, b, c)
           named == {i \in 1 .. 3 : p.n[i] # X}
           nonzero == {i \in named : p.n[i] > 0}
           least == CHOOSE i \in nonzero : \A j \in nonzero : i <= j
           kept == IF b = X \/ a > 0 THEN 1 ELSE IF b > 0 \/ c = X THEN 2 ELSE 3
<1>1. p.n[1] = a /\ p.n[2] = b /\ p.n[3] = c
  BY DEF PartialOf
<1> HIDE DEF p
<1>2. CaretKept(p) = IF nonzero # {} THEN least ELSE Cardinality(named)
  BY Zenon DEF CaretKept
<1>3. nonzero \subseteq 1 .. 3 /\ \A i \in 1 .. 3 : i \in nonzero <=> p.n[i] # X /\ p.n[i] > 0
  OBVIOUS
<1>4. \A i \in 1 .. 3 : i = 1 \/ i = 2 \/ i = 3
  OBVIOUS
<1>5. CASE a > 0 \/ (b # X /\ b > 0) \/ (c # X /\ c > 0)
  <2>1. kept \in nonzero /\ \A j \in nonzero : kept <= j
    <3>1. kept \in 1 .. 3
      OBVIOUS
    <3> HIDE DEF nonzero
    <3> QED
      BY <1>1, <1>3, <1>4, <1>5, <3>1 DEF X
  <2> HIDE DEF nonzero, kept
  <2>2. \A i, j \in nonzero : i <= j /\ j <= i => i = j
    BY <1>3
  <2>3. least \in nonzero /\ \A j \in nonzero : least <= j
    BY <2>1
  <2>4. least = kept
    BY <2>1, <2>2, <2>3
  <2> QED
    BY <1>2, <2>1, <2>4 DEF kept, p
<1>6. CASE ~(a > 0 \/ (b # X /\ b > 0) \/ (c # X /\ c > 0))
  <2>1. nonzero = {}
    <3> HIDE DEF nonzero
    <3> QED
      BY <1>1, <1>3, <1>4, <1>6 DEF X
  <2>2. a = 0 /\ (b = X \/ b = 0) /\ (c = X \/ c = 0)
    BY <1>6 DEF X
  <2>3. named = 1 .. kept
    BY <1>1, <2>2 DEF X
  <2>4. kept \in Nat /\ kept >= 1
    OBVIOUS
  <2> HIDE DEF named, kept, nonzero
  <2>5. Cardinality(1 .. kept) = kept
    BY <2>4, FS_Interval
  <2> QED
    BY <1>2, <2>1, <2>3, <2>5 DEF kept, p
<1> QED
  BY <1>5, <1>6

LEMMA CaretIsNpms ==
  ASSUME NEW a \in Nat, NEW b \in Nat \cup {X}, NEW c \in Nat \cup {X}, b # X \/ c = X, NEW v, IsRelease(v)
  PROVE  satisfies(v, OneToken("^", PartialOf(a, b, c))) <=> CaretAdmits(v, PartialOf(a, b, c))
<1> DEFINE p == PartialOf(a, b, c)
           kept == IF b = X \/ a > 0 THEN 1 ELSE IF b > 0 \/ c = X THEN 2 ELSE 3
           low == Release(a, Filled(b), Filled(c))
           top == CaretUpper(a, b, c)
<1>1. p.n[1] = a /\ p.n[2] = b /\ p.n[3] = c
  BY DEF PartialOf
<1>2. padded(p) = low /\ IsRelease(low) /\ low.n[1] = a /\ low.n[2] = Filled(b) /\ low.n[3] = Filled(c)
  <2>1. Filled(b) \in Nat /\ Filled(c) \in Nat
    BY DEF Filled, X
  <2>2. padded(p) = low
    BY PaddedIs
  <2>3. IsRelease(low) /\ low.n = <<a, Filled(b), Filled(c)>>
    BY <2>1, ReleaseIs
  <2> HIDE DEF low
  <2> QED
    BY <2>2, <2>3
<1>3. satisfies(v, OneToken("^", p)) <=> ~ Below(v, low) /\ Below(v, top)
  BY <1>2, UppersAre, CaretToken
<1>4. CaretKept(p) = kept
  BY CaretKeptIs
<1>5. CaretAdmits(v, p) <=> ~ Below(v, low) /\ \A i \in 1 .. kept : v.n[i] = p.n[i]
  BY <1>2, <1>4, Zenon DEF CaretAdmits
<1>6. IsRelease(top)
  BY UppersAre
<1>7. (Below(v, low) <=> Lex(v.n, low.n)) /\ (Below(v, top) <=> Lex(v.n, top.n))
  BY <1>2, <1>6, ReleaseOrder
<1>8. v.n[1] \in Nat /\ v.n[2] \in Nat /\ v.n[3] \in Nat
  BY DEF IsRelease
<1>9. ~ Lex(v.n, low.n) => (Lex(v.n, top.n) <=> \A i \in 1 .. kept : v.n[i] = p.n[i])
  <2>1. /\ top.n[1] = IF b = X \/ a > 0 THEN a + 1 ELSE 0
        /\ top.n[2] = IF b = X \/ a > 0 THEN 0 ELSE IF b > 0 \/ c = X THEN b + 1 ELSE 0
        /\ top.n[3] = IF b = X \/ a > 0 THEN 0 ELSE IF b > 0 \/ c = X THEN 0 ELSE c + 1
    BY DEF CaretUpper, Release
  <2>2. (\A i \in 1 .. kept : v.n[i] = p.n[i]) <=>
        v.n[1] = a /\ (kept > 1 => v.n[2] = b) /\ (kept > 2 => v.n[3] = c)
    <3>1. kept \in 1 .. 3
      OBVIOUS
    <3> HIDE DEF kept, p
    <3>2. \A i \in 1 .. kept : i = 1 \/ (i = 2 /\ kept > 1) \/ (i = 3 /\ kept > 2)
      BY <3>1
    <3>3. 1 \in 1 .. kept /\ (kept > 1 => 2 \in 1 .. kept) /\ (kept > 2 => 3 \in 1 .. kept)
      BY <3>1
    <3> QED
      BY <1>1, <3>2, <3>3
  <2> HIDE DEF top, low, p
  <2>3. a \in Nat /\ b \in Nat \cup {X} /\ c \in Nat \cup {X}
    OBVIOUS
  <2>4. Filled(b) = (IF b = X THEN 0 ELSE b) /\ Filled(c) = (IF c = X THEN 0 ELSE c)
    BY DEF Filled
  <2>5. CASE b = X \/ a > 0
    BY <1>2, <1>8, <2>1, <2>2, <2>4, <2>5 DEF Lex, X
  <2>6. CASE ~(b = X \/ a > 0) /\ (b > 0 \/ c = X)
    BY <1>2, <1>8, <2>1, <2>2, <2>4, <2>6 DEF Lex, X
  <2>7. CASE ~(b = X \/ a > 0) /\ ~(b > 0 \/ c = X)
    BY <1>2, <1>8, <2>1, <2>2, <2>4, <2>7 DEF Lex, X
  <2> QED
    BY <2>5, <2>6, <2>7
<1> QED
  BY <1>3, <1>5, <1>7, <1>9

LEMMA TildeIsNpms ==
  ASSUME NEW a \in Nat, NEW b \in Nat \cup {X}, NEW c \in Nat \cup {X}, b # X \/ c = X, NEW v, IsRelease(v)
  PROVE  satisfies(v, OneToken("~", PartialOf(a, b, c))) <=> TildeAdmits(v, PartialOf(a, b, c))
<1> DEFINE p == PartialOf(a, b, c)
           low == Release(a, Filled(b), Filled(c))
           top == TildeUpper(a, b)
<1>1. p.n[1] = a /\ p.n[2] = b /\ p.n[3] = c
  BY DEF PartialOf
<1>2. padded(p) = low /\ IsRelease(low) /\ low.n[1] = a /\ low.n[2] = Filled(b) /\ low.n[3] = Filled(c)
  <2>1. Filled(b) \in Nat /\ Filled(c) \in Nat
    BY DEF Filled, X
  <2>2. padded(p) = low
    BY PaddedIs
  <2>3. IsRelease(low) /\ low.n = <<a, Filled(b), Filled(c)>>
    BY <2>1, ReleaseIs
  <2> HIDE DEF low
  <2> QED
    BY <2>2, <2>3
<1>3. satisfies(v, OneToken("~", p)) <=> ~ Below(v, low) /\ Below(v, top)
  BY <1>2, UppersAre, TildeToken
<1>4. TildeAdmits(v, p) <=> ~ Below(v, low) /\ v.n[1] = a /\ (b # X => v.n[2] = b)
  BY <1>1, <1>2, Zenon DEF TildeAdmits
<1>5. IsRelease(top)
  BY UppersAre
<1>6. (Below(v, low) <=> Lex(v.n, low.n)) /\ (Below(v, top) <=> Lex(v.n, top.n))
  BY <1>2, <1>5, ReleaseOrder
<1>7. v.n[1] \in Nat /\ v.n[2] \in Nat /\ v.n[3] \in Nat
  BY DEF IsRelease
<1>8. ~ Lex(v.n, low.n) => (Lex(v.n, top.n) <=> v.n[1] = a /\ (b # X => v.n[2] = b))
  <2>1. /\ top.n[1] = IF b = X THEN a + 1 ELSE a
        /\ top.n[2] = IF b = X THEN 0 ELSE b + 1
        /\ top.n[3] = 0
    BY DEF TildeUpper, Release
  <2> HIDE DEF top, low, p
  <2>2. Filled(b) = (IF b = X THEN 0 ELSE b) /\ Filled(c) = (IF c = X THEN 0 ELSE c)
    BY DEF Filled
  <2>3. CASE b = X
    BY <1>2, <1>7, <2>1, <2>2, <2>3 DEF Lex, X
  <2>4. CASE b # X
    BY <1>2, <1>7, <2>1, <2>2, <2>4 DEF Lex, X
  <2> QED
    BY <2>3, <2>4
<1> QED
  BY <1>3, <1>4, <1>6, <1>8

(* A range of one release, whatever the operator in front of it that is    *)
(* kept, admits the release.                                               *)
NoOperator == ""
LEMMA BareToken ==
  ASSUME NEW v, v.n[2] # X, v.n[3] # X, padded(v) = v
  PROVE  parseComparatorToken([op |-> NoOperator, p |-> v]) = <<[op |-> "=", v |-> v]>>
<1> DEFINE t == [op |-> NoOperator, p |-> v]
<1>1. t.op = NoOperator /\ t.p = v
  OBVIOUS
<1> HIDE DEF t
<1>2. t.op # "*" /\ t.op # "^" /\ t.op # "~" /\ t.op = ""
  BY <1>1, Zenon DEF NoOperator
<1>3. t.p.n[2] # X /\ t.p.n[3] # X /\ padded(t.p) = v
  BY <1>1
<1> QED
  BY <1>2, <1>3, Zenon DEF parseComparatorToken, t

LEMMA AdmitsItself ==
  ASSUME NEW v, IsRelease(v), NEW op \in {"^", "~", NoOperator}
  PROVE  satisfies(v, OneToken(op, v))
<1> DEFINE a == v.n[1]
           b == v.n[2]
           c == v.n[3]
<1>1. /\ a \in Nat /\ b \in Nat /\ c \in Nat /\ b # X /\ c # X
      /\ v = PartialOf(a, b, c)
  BY DEF IsRelease, PartialOf, X
<1>2. padded(v) = v /\ ~ Below(v, v)
  BY PaddedRelease, ReleasesAreOrdered
<1>3. CASE op = "^"
  <2>1. CaretAdmits(v, v)
    BY <1>2 DEF CaretAdmits
  <2> HIDE DEF a, b, c
  <2> QED
    BY <1>1, <1>3, <2>1, CaretIsNpms
<1>4. CASE op = "~"
  <2>1. TildeAdmits(v, v)
    BY <1>2 DEF TildeAdmits
  <2> HIDE DEF a, b, c
  <2> QED
    BY <1>1, <1>4, <2>1, TildeIsNpms
<1>5. CASE op = NoOperator
  <2>1. parseComparatorToken([op |-> NoOperator, p |-> v]) = <<[op |-> "=", v |-> v]>>
    BY <1>1, <1>2, BareToken
  <2>2. testComparator(v, [op |-> "=", v |-> v])
    BY Comparisons DEF testComparator
  <2>3. v # Unparseable
    BY DEF IsRelease, Unparseable
  <2>4. Elements(<<[op |-> "=", v |-> v]>>) = {[op |-> "=", v |-> v]}
    BY DEF Elements
  <2> QED
    BY <1>5, <2>1, <2>2, <2>3, <2>4, OneTokenAdmits
<1> QED
  BY <1>3, <1>4, <1>5

-----------------------------------------------------------------------------
(* Dependency upgrades: ranges, and the adjudication of re-runs.           *)

LEMMA RangesHold == RangesAreNpms
<1> DEFINE Partials == {[n |-> <<a, b, c>>, pre |-> <<>>] : a \in 0 .. 1, b \in {X, 0, 1}, c \in {X, 0, 1}}
           Small == {Release(a, b, c) : a, b, c \in 0 .. 2}
<1>1. ASSUME NEW p \in Partials, p.n[2] # X \/ p.n[3] = X, NEW v \in Small
      PROVE  /\ satisfies(v, <<<<[op |-> "^", p |-> p]>>>>) <=> CaretAdmits(v, p)
             /\ satisfies(v, <<<<[op |-> "~", p |-> p]>>>>) <=> TildeAdmits(v, p)
  <2>1. PICK a \in 0 .. 1, b \in {X, 0, 1}, c \in {X, 0, 1} : p = PartialOf(a, b, c)
    BY DEF PartialOf
  <2>2. a \in Nat /\ b \in Nat \cup {X} /\ c \in Nat \cup {X}
    BY <2>1
  <2>3. b # X \/ c = X
    BY <1>1, <2>1 DEF PartialOf
  <2>4. IsRelease(v)
    <3>1. PICK i \in 0 .. 2, j \in 0 .. 2, k \in 0 .. 2 : v = Release(i, j, k)
      OBVIOUS
    <3>2. i \in Nat /\ j \in Nat /\ k \in Nat
      OBVIOUS
    <3> HIDE DEF Small, Partials
    <3>3. IsRelease(Release(i, j, k))
      BY <3>2, ReleaseIs
    <3> QED
      BY <3>1, <3>3
  <2>5. satisfies(v, OneToken("^", p)) <=> CaretAdmits(v, p)
    BY <2>1, <2>2, <2>3, <2>4, CaretIsNpms
  <2>6. satisfies(v, OneToken("~", p)) <=> TildeAdmits(v, p)
    BY <2>1, <2>2, <2>3, <2>4, TildeIsNpms
  <2> QED
    BY <2>5, <2>6 DEF OneToken
<1>2. \A p \in Partials : p.n[2] # X \/ p.n[3] = X =>
        \A v \in Small : /\ satisfies(v, <<<<[op |-> "^", p |-> p]>>>>) <=> CaretAdmits(v, p)
                         /\ satisfies(v, <<<<[op |-> "~", p |-> p]>>>>) <=> TildeAdmits(v, p)
  <2> HIDE DEF Partials, Small
  <2> QED
    BY <1>1
<1> QED
  BY <1>2 DEF RangesAreNpms

Matches(fps, f) == {i \in DOMAIN fps : fps[i] = f}

LEMMA PluralityIs ==
  ASSUME NEW fps, NEW n \in Nat, n > 0, DOMAIN fps = 1 .. n
  PROVE  \E b \in 1 .. n : /\ PluralityOf(fps) = fps[b]
                           /\ \A j \in 1 .. n : Cardinality(Matches(fps, fps[j])) <= Cardinality(Matches(fps, fps[b]))
<1> DEFINE num(i) == Cardinality(Matches(fps, fps[i]))
           R == {p \in (1 .. n) \X (1 .. n) : num(p[1]) > num(p[2]) \/ (num(p[1]) = num(p[2]) /\ p[1] < p[2])}
<1>1. \A i \in 1 .. n : num(i) \in Nat
  <2>1. IsFiniteSet(1 .. n)
    BY FS_Interval
  <2>2. ASSUME NEW i \in 1 .. n PROVE num(i) \in Nat
    <3>1. Matches(fps, fps[i]) \in SUBSET (1 .. n)
      BY DEF Matches
    <3>2. IsFiniteSet(Matches(fps, fps[i]))
      BY <2>1, <3>1, FS_Subset
    <3> QED
      BY <3>2, FS_CardinalityType
  <2> QED
    BY <2>2
<1>2. \A i, j \in 1 .. n : <<i, j>> \in R <=> num(i) > num(j) \/ (num(i) = num(j) /\ i < j)
  OBVIOUS
<1>3. \E b \in 1 .. n : \A j \in 1 .. n : <<j, b>> \notin R
  <2>1. IsFiniteSet(1 .. n) /\ 1 .. n # {}
    <3>1. 1 \in 1 .. n
      OBVIOUS
    <3>2. IsFiniteSet(1 .. n)
      BY FS_Interval
    <3> QED
      BY <3>1, <3>2
  <2> HIDE DEF R, num
  <2>2. \A i \in 1 .. n : <<i, i>> \notin R
    BY <1>1, <1>2
  <2>3. \A i, j, k \in 1 .. n : <<i, j>> \in R /\ <<j, k>> \in R => <<i, k>> \in R
    <3> SUFFICES ASSUME NEW i \in 1 .. n, NEW j \in 1 .. n, NEW k \in 1 .. n, <<i, j>> \in R, <<j, k>> \in R
                 PROVE  <<i, k>> \in R
      OBVIOUS
    <3>1. num(i) > num(j) \/ (num(i) = num(j) /\ i < j)
      BY <1>2
    <3>2. num(j) > num(k) \/ (num(j) = num(k) /\ j < k)
      BY <1>2
    <3>3. num(i) \in Nat /\ num(j) \in Nat /\ num(k) \in Nat
      BY <1>1
    <3>4. num(i) > num(k) \/ (num(i) = num(k) /\ i < k)
      BY <3>1, <3>2, <3>3
    <3> QED
      BY <1>2, <3>4
  <2> QED
    BY <2>1, <2>2, <2>3, FirstOf
<1> DEFINE best == CHOOSE i \in 1 .. n : (\A j \in 1 .. n : num(j) <= num(i)) /\ \A j \in 1 .. i - 1 : num(j) < num(i)
<1>4. \E i \in 1 .. n : (\A j \in 1 .. n : num(j) <= num(i)) /\ \A j \in 1 .. i - 1 : num(j) < num(i)
  <2>1. PICK i \in 1 .. n : \A j \in 1 .. n : <<j, i>> \notin R
    BY <1>3
  <2> HIDE DEF R, num
  <2>2. \A j \in 1 .. n : ~(num(j) > num(i)) /\ ~(num(j) = num(i) /\ j < i)
    BY <1>2, <2>1
  <2>3. \A j \in 1 .. n : num(j) <= num(i) /\ (j < i => num(j) < num(i))
    BY <1>1, <2>2
  <2>4. \A j \in 1 .. i - 1 : j \in 1 .. n /\ j < i
    OBVIOUS
  <2> QED
    BY <2>3, <2>4
<1>5. best \in 1 .. n /\ \A j \in 1 .. n : num(j) <= num(best)
  <2> HIDE DEF num
  <2> QED
    BY <1>4
<1>6. PluralityOf(fps) = fps[best]
  BY Zenon DEF PluralityOf, Matches
<1> HIDE DEF best
<1> QED
  BY <1>5, <1>6

GatingNames(arts) == GATING_CHECKS \cap UNION {DOMAIN arts[i].checks : i \in DOMAIN arts}
Fingerprints(arts) == [i \in DOMAIN arts |-> <<arts[i].verdict, [n \in GatingNames(arts) |-> hashOfCheck(arts[i], n)]>>]

LEMMA FingerprintsTell ==
  ASSUME NEW arts, NEW i \in DOMAIN arts, NEW j \in DOMAIN arts
  PROVE  SameReRun(arts, i, j) <=> Fingerprints(arts)[i] = Fingerprints(arts)[j]
<1> DEFINE names == GatingNames(arts)
           h(k) == [n \in names |-> hashOfCheck(arts[k], n)]
<1>1. Fingerprints(arts)[i] = <<arts[i].verdict, h(i)>> /\ Fingerprints(arts)[j] = <<arts[j].verdict, h(j)>>
  BY Zenon DEF Fingerprints
<1>2. \A n \in GATING_CHECKS : n \notin names => hashOfCheck(arts[i], n) = "<absent>" /\ hashOfCheck(arts[j], n) = "<absent>"
  BY DEF GatingNames, hashOfCheck
<1>3. names \subseteq GATING_CHECKS
  BY DEF GatingNames
<1> HIDE DEF names
<1>4. h(i) = h(j) <=> \A n \in names : hashOfCheck(arts[i], n) = hashOfCheck(arts[j], n)
  <2>1. ASSUME h(i) = h(j), NEW n \in names PROVE hashOfCheck(arts[i], n) = hashOfCheck(arts[j], n)
    <3>1. h(i)[n] = hashOfCheck(arts[i], n) /\ h(j)[n] = hashOfCheck(arts[j], n)
      OBVIOUS
    <3> HIDE DEF h
    <3> QED
      BY <2>1, <3>1
  <2>2. ASSUME \A n \in names : hashOfCheck(arts[i], n) = hashOfCheck(arts[j], n) PROVE h(i) = h(j)
    BY <2>2
  <2> QED
    BY <2>1, <2>2
<1> HIDE DEF h
<1>5. Fingerprints(arts)[i] = Fingerprints(arts)[j] <=> arts[i].verdict = arts[j].verdict /\ h(i) = h(j)
  BY <1>1
<1> QED
  BY <1>2, <1>3, <1>4, <1>5 DEF SameReRun

LEMMA MajorityIsPlural ==
  ASSUME NEW fps, NEW n \in Nat, n > 0, DOMAIN fps = 1 .. n, NEW i \in 1 .. n,
         2 * Cardinality(Matches(fps, fps[i])) > n
  PROVE  PluralityOf(fps) = fps[i]
<1>1. PICK b \in 1 .. n : /\ PluralityOf(fps) = fps[b]
                          /\ \A j \in 1 .. n : Cardinality(Matches(fps, fps[j])) <= Cardinality(Matches(fps, fps[b]))
  BY PluralityIs
<1> DEFINE A == Matches(fps, fps[i])
           B == Matches(fps, fps[b])
<1>2. IsFiniteSet(1 .. n) /\ Cardinality(1 .. n) = n
  BY FS_Interval
<1>3. A \subseteq 1 .. n /\ B \subseteq 1 .. n
  BY DEF Matches
<1>4. Cardinality(A) <= Cardinality(B) /\ 2 * Cardinality(A) > n
  BY <1>1
<1>5. IsFiniteSet(A) /\ IsFiniteSet(B)
  BY <1>2, <1>3, FS_Subset
<1>6. Cardinality(A) \in Nat /\ Cardinality(B) \in Nat
  BY <1>5, FS_CardinalityType
<1>7. A \cap B # {}
  <2> HIDE DEF A, B
  <2>1. Cardinality(A) + Cardinality(B) > Cardinality(1 .. n)
    BY <1>2, <1>4, <1>6
  <2> QED
    BY <1>2, <1>3, <2>1, FS_MajoritiesIntersect
<1>8. fps[i] = fps[b]
  BY <1>7 DEF Matches
<1> QED
  BY <1>1, <1>8

LEMMA Judged ==
  ASSUME NEW arts, NEW n \in Nat, n > 0, DOMAIN arts = 1 .. n, Len(arts) = n,
         \A i \in 1 .. n : \A m \in DOMAIN arts[i].checks : arts[i].checks[m] # "<absent>"
  PROVE  /\ compareReRuns(arts).agree <=> \A i, j \in DOMAIN arts : SameReRun(arts, i, j)
         /\ \A i \in DOMAIN arts : 2 * Cardinality({j \in DOMAIN arts : SameReRun(arts, i, j)}) > Len(arts)
                                     => i \notin compareReRuns(arts).divergent
<1> DEFINE fps == Fingerprints(arts)
           names == GatingNames(arts)
           alike == \A i \in DOMAIN arts : arts[i].verdict = arts[1].verdict
           agreed(m) == \A i \in DOMAIN arts : hashOfCheck(arts[i], m) # "<absent>"
                                              /\ hashOfCheck(arts[i], m) = hashOfCheck(arts[1], m)
           divergent == {i \in DOMAIN arts : fps[i] # PluralityOf(fps)}
           agree == alike /\ (\A m \in names : agreed(m)) /\ divergent = {}
           all == \A i, j \in DOMAIN arts : SameReRun(arts, i, j)
<1>1. 1 \in DOMAIN arts /\ arts # <<>> /\ DOMAIN fps = 1 .. n
  BY DEF Fingerprints
<1>2. compareReRuns(arts).agree <=> agree
  <2> DEFINE whole == arts # <<>> /\ alike /\ (\A m \in names : agreed(m)) /\ divergent = {}
  <2>1. compareReRuns(arts) = [agree |-> whole, divergent |-> divergent]
    BY <1>1, Zenon DEF compareReRuns, GatingNames, Fingerprints
  <2>2. whole <=> agree
    BY <1>1
  <2> HIDE DEF agree, whole, divergent
  <2>3. compareReRuns(arts).agree = whole
    BY <2>1
  <2> QED
    BY <2>2, <2>3
<1>3. compareReRuns(arts).divergent = divergent
  BY <1>1, Zenon DEF compareReRuns, GatingNames, Fingerprints
<1>4. \A i, j \in DOMAIN arts : SameReRun(arts, i, j) <=> fps[i] = fps[j]
  BY FingerprintsTell
<1>5. ASSUME agree, NEW i \in DOMAIN arts, NEW j \in DOMAIN arts PROVE SameReRun(arts, i, j)
  <2>1. i \notin divergent /\ j \notin divergent
    <3> HIDE DEF divergent, agreed, alike
    <3> QED
      BY <1>5
  <2>2. fps[i] = fps[j]
    <3> HIDE DEF fps
    <3> QED
      BY <2>1
  <2> QED
    BY <1>4, <2>2
<1>6. ASSUME all PROVE agree
  <2>1. divergent = {}
    <3>1. PICK b \in 1 .. n : PluralityOf(fps) = fps[b]
      <4> HIDE DEF fps
      <4> QED
        BY <1>1, PluralityIs
    <3>2. \A i \in DOMAIN arts : fps[i] = fps[b]
      BY <1>4, <1>6
    <3> HIDE DEF fps
    <3> QED
      BY <3>1, <3>2
  <2>2. ASSUME NEW i \in DOMAIN arts
        PROVE  arts[i].verdict = arts[1].verdict /\ \A m \in GATING_CHECKS : hashOfCheck(arts[i], m) = hashOfCheck(arts[1], m)
    BY <1>1, <1>6 DEF SameReRun
  <2>3. ASSUME NEW m \in names PROVE agreed(m)
    <3>1. m \in GATING_CHECKS /\ \E k \in DOMAIN arts : m \in DOMAIN arts[k].checks
      BY DEF GatingNames
    <3>2. PICK k \in DOMAIN arts : m \in DOMAIN arts[k].checks
      BY <3>1
    <3>3. hashOfCheck(arts[k], m) # "<absent>"
      BY <3>2 DEF hashOfCheck
    <3> QED
      BY <2>2, <3>1, <3>2, <3>3
  <2>4. alike
    BY <2>2
  <2> HIDE DEF alike, agreed, divergent, names
  <2> QED
    BY <2>1, <2>3, <2>4
<1>7. ASSUME NEW i \in DOMAIN arts, 2 * Cardinality({j \in DOMAIN arts : SameReRun(arts, i, j)}) > Len(arts)
      PROVE  i \notin divergent
  <2>1. {j \in DOMAIN arts : SameReRun(arts, i, j)} = Matches(fps, fps[i])
    <3>1. DOMAIN fps = DOMAIN arts
      BY <1>1
    <3> HIDE DEF fps
    <3> QED
      BY <1>4, <3>1 DEF Matches
  <2>2. PluralityOf(fps) = fps[i]
    <3> HIDE DEF fps
    <3>1. 2 * Cardinality(Matches(fps, fps[i])) > n
      BY <1>7, <2>1
    <3> QED
      BY <1>1, <3>1, MajorityIsPlural
  <2> HIDE DEF fps
  <2> QED
    BY <2>2
<1>8. compareReRuns(arts).agree <=> all
  <2> HIDE DEF agree
  <2>1. agree => all
    BY <1>5
  <2> HIDE DEF all
  <2> QED
    BY <1>2, <1>6, <2>1
<1> HIDE DEF divergent
<1>9. \A i \in DOMAIN arts : 2 * Cardinality({j \in DOMAIN arts : SameReRun(arts, i, j)}) > Len(arts)
                                     => i \notin compareReRuns(arts).divergent
  BY <1>3, <1>7
<1> QED
  BY <1>8, <1>9

LEMMA ReRunsHold == ReRunsJudged
<1>1. ASSUME NEW a \in ReRunArtifacts, NEW m \in DOMAIN a.checks PROVE a.checks[m] # "<absent>"
  <2>1. a.checks \in {<<>>} \cup UNION {[D -> {"h1", "h2"}] : D \in (SUBSET {"test", "lint"}) \ {{}}}
    BY DEF ReRunArtifacts
  <2>2. a.checks # <<>>
    OBVIOUS
  <2>3. PICK D : a.checks \in [D -> {"h1", "h2"}]
    BY <2>1, <2>2
  <2> QED
    BY <2>3
<1>2. ASSUME NEW arts \in ReRuns
      PROVE  \E n \in Nat : /\ n > 0 /\ DOMAIN arts = 1 .. n /\ Len(arts) = n
                            /\ \A i \in 1 .. n : arts[i] \in ReRunArtifacts
  <2>1. CASE arts \in {<<a>> : a \in ReRunArtifacts}
    <3>1. PICK a \in ReRunArtifacts : arts = <<a>>
      BY <2>1
    <3>2. DOMAIN arts = 1 .. 1 /\ Len(arts) = 1 /\ \A i \in 1 .. 1 : arts[i] \in ReRunArtifacts
      BY <3>1
    <3> QED
      BY <3>2
  <2>2. CASE arts \in {<<a, b>> : a, b \in ReRunArtifacts}
    <3>1. PICK a \in ReRunArtifacts, b \in ReRunArtifacts : arts = <<a, b>>
      BY <2>2
    <3>2. DOMAIN arts = 1 .. 2 /\ Len(arts) = 2 /\ \A i \in 1 .. 2 : arts[i] \in ReRunArtifacts
      BY <3>1
    <3> QED
      BY <3>2
  <2>3. CASE arts \in {<<a, b, c>> : a, b, c \in {x \in ReRunArtifacts : "lint" \notin DOMAIN x.checks}}
    <3>1. PICK a \in ReRunArtifacts, b \in ReRunArtifacts, c \in ReRunArtifacts : arts = <<a, b, c>>
      BY <2>3
    <3>2. DOMAIN arts = 1 .. 3 /\ Len(arts) = 3 /\ \A i \in 1 .. 3 : arts[i] \in ReRunArtifacts
      BY <3>1
    <3> QED
      BY <3>2
  <2> QED
    BY <2>1, <2>2, <2>3 DEF ReRuns
<1>3. ASSUME NEW arts \in ReRuns
      PROVE  /\ compareReRuns(arts).agree <=> \A i, j \in DOMAIN arts : SameReRun(arts, i, j)
             /\ \A i \in DOMAIN arts : 2 * Cardinality({j \in DOMAIN arts : SameReRun(arts, i, j)}) > Len(arts)
                                     => i \notin compareReRuns(arts).divergent
  <2>1. PICK n \in Nat : /\ n > 0 /\ DOMAIN arts = 1 .. n /\ Len(arts) = n
                         /\ \A i \in 1 .. n : arts[i] \in ReRunArtifacts
    BY <1>2
  <2>2. \A i \in 1 .. n : \A m \in DOMAIN arts[i].checks : arts[i].checks[m] # "<absent>"
    BY <1>1, <2>1
  <2>3. n > 0 /\ DOMAIN arts = 1 .. n /\ Len(arts) = n
    BY <2>1
  <2>4. compareReRuns(arts).agree <=> \A i, j \in DOMAIN arts : SameReRun(arts, i, j)
    BY <2>2, <2>3, Judged
  <2>5. \A i \in DOMAIN arts : 2 * Cardinality({j \in DOMAIN arts : SameReRun(arts, i, j)}) > Len(arts)
                                     => i \notin compareReRuns(arts).divergent
    BY <2>2, <2>3, Judged
  <2> QED
    BY <2>4, <2>5
<1>4. \A arts \in ReRuns :
        /\ compareReRuns(arts).agree <=> \A i, j \in DOMAIN arts : SameReRun(arts, i, j)
        /\ \A i \in DOMAIN arts : 2 * Cardinality({j \in DOMAIN arts : SameReRun(arts, i, j)}) > Len(arts)
                                     => i \notin compareReRuns(arts).divergent
  <2> QED
    BY <1>3, Zenon
<1> QED
  BY <1>4, Zenon DEF ReRunsJudged

-----------------------------------------------------------------------------
(* The plan: its items, and the one order they have.                       *)

LEMMA StableOf ==
  ASSUME NEW name \in DOMAIN Published
  PROVE  /\ IsFiniteSet(Stable(name))
         /\ \A v \in Stable(name) : IsRelease(v) /\ isStable(v) /\ v # NoVersion
<1>1. IsFiniteSet(Published[name]) /\ Published[name] \subseteq Versions \cup {Unparseable}
  BY UpgradeAssumption
<1>2. Stable(name) \in SUBSET Published[name] /\ \A v \in Stable(name) : isStable(v) /\ v \in Versions \cup {Unparseable}
  BY <1>1 DEF Stable
<1>3. IsFiniteSet(Stable(name))
  BY <1>1, <1>2, FS_Subset
<1>4. \A v \in Stable(name) : v # NoVersion
  BY <1>2 DEF isStable, NoVersion
<1> QED
  BY <1>2, <1>3, <1>4, StableIsRelease

LEMMA Picked ==
  ASSUME NEW S, IsFiniteSet(S), S # {}, \A v \in S : IsRelease(v)
  PROVE  Nearest(S) \in S /\ Topmost(S) \in S
<1>1. \E v \in S : \A w \in S : ~ Below(w, v)
  BY EndsOf
<1>2. \E v \in S : \A w \in S : ~ Below(v, w)
  BY EndsOf
<1>3. Nearest(S) \in S
  BY <1>1, Zenon DEF Nearest
<1>4. Topmost(S) \in S
  BY <1>2, Zenon DEF Topmost
<1> QED
  BY <1>3, <1>4

LEMMA Satisfying ==
  ASSUME NEW S, IsFiniteSet(S), \A v \in S : IsRelease(v), NEW range
  PROVE  /\ minSatisfying(S, range) \in S \cup {NoVersion}
         /\ maxSatisfying(S, range) \in S \cup {NoVersion}
<1> DEFINE A == Admitted(S, range)
<1>1. A \in SUBSET S
  BY DEF Admitted
<1>2. IsFiniteSet(A)
  BY <1>1, FS_Subset
<1>3. \A v \in A : IsRelease(v)
  BY <1>1
<1> HIDE DEF A
<1>4. CASE A = {}
  BY <1>4, Zenon DEF A, minSatisfying, maxSatisfying
<1>5. CASE A # {}
  <2>1. \E v \in A : \A w \in A : ~ Below(w, v)
    BY <1>2, <1>3, <1>5, EndsOf
  <2>2. \E v \in A : \A w \in A : ~ Below(v, w)
    BY <1>2, <1>3, <1>5, EndsOf
  <2>3. minSatisfying(S, range) \in A
    BY <1>5, <2>1, Zenon DEF A, minSatisfying
  <2>4. maxSatisfying(S, range) \in A
    BY <1>5, <2>2, Zenon DEF A, maxSatisfying
  <2> QED
    BY <1>1, <2>3, <2>4
<1> QED
  BY <1>4, <1>5

LEMMA CurrentIs ==
  ASSUME NEW dep \in Declarations
  PROVE  resolveCurrentVersion(dep) \in Versions \cup {NoVersion}
<1>1. dep.name \in DOMAIN Published /\ dep.installed \in Versions \cup {NoVersion}
  BY DEF Declarations
<1>2. minSatisfying(Stable(dep.name), dep.range) \in Stable(dep.name) \cup {NoVersion}
  BY <1>1, StableOf, Satisfying
<1>3. \A v \in Stable(dep.name) : v \in Versions
  <2>1. Stable(dep.name) \subseteq Published[dep.name] /\ Published[dep.name] \subseteq Versions \cup {NoVersion}
    BY <1>1, UpgradeAssumption DEF Stable, NoVersion
  <2> QED
    BY <1>1, <2>1, StableOf
<1> QED
  BY <1>1, <1>2, <1>3 DEF resolveCurrentVersion

(* A version below another one was compared with a version.                *)
LEMMA BelowIsVersion ==
  ASSUME NEW v \in Versions
  PROVE  ~ Below(v, NoVersion)
<1>1. v.n \in Nat \X Nat \X Nat
  BY DEF Versions
<1>2. ~ LexLess(v.n, <<>>, LAMBDA x, y : x < y)
  BY DEF LexLess
<1>3. NoVersion.n = <<>> /\ v.n # <<>>
  BY <1>1 DEF NoVersion, Unparseable
<1> QED
  BY <1>2, <1>3, Zenon DEF Below

LEMMA MajorGoesUp ==
  ASSUME NEW v \in Versions, NEW w, IsRelease(w), majorOf(w) > majorOf(v)
  PROVE  Below(v, w)
<1>1. v.n[1] < w.n[1] /\ Len(w.n) = 3
  BY DEF Versions, IsRelease, majorOf
<1>2. LexLess(v.n, w.n, LAMBDA x, y : x < y)
  <2> DEFINE a == v.n
             b == w.n
  <2>1. Len(a) = 3 /\ Len(b) = 3 /\ a[1] < b[1]
    BY <1>1 DEF Versions
  <2> HIDE DEF a, b
  <2>2. 1 \in 1 .. Len(b) /\ (\A j \in 1 .. 1 - 1 : j <= Len(a) /\ a[j] = b[j]) /\ ~(1 > Len(a))
    BY <2>1
  <2>3. LexLess(a, b, LAMBDA x, y : x < y)
    BY <2>1, <2>2 DEF LexLess
  <2> QED
    BY <2>3 DEF a, b
<1> QED
  BY <1>2 DEF Below

(* What a declaration asks for: its target and why, apart from the section *)
(* it stands in.                                                           *)
Wanted(dep, advisories, kind, current, target, ids) ==
  /\ current = resolveCurrentVersion(dep) /\ current \in Versions
  /\ target \in Stable(dep.name) /\ Below(current, target) /\ clearsAll(target, advisories)
  /\ kind \in {"security", "outdated", "next-major"}
  /\ kind = "security" => target = SecurityTarget(current, Stable(dep.name), advisories)
  /\ kind # "security" => ids = {}

LEMMA SecurityIs ==
  ASSUME NEW current, NEW stable, NEW advisories, IsFiniteSet(stable), \A v \in stable : IsRelease(v),
         SecurityTarget(current, stable, advisories) # NoVersion
  PROVE  LET target == SecurityTarget(current, stable, advisories)
         IN  target \in stable /\ Below(current, target) /\ clearsAll(target, advisories)
<1> DEFINE cs == {v \in stable : Below(current, v) /\ clearsAll(v, advisories)}
           same == {v \in cs : majorOf(v) = majorOf(current)}
           target == SecurityTarget(current, stable, advisories)
<1>1. target = IF cs = {} THEN NoVersion ELSE IF same # {} THEN Nearest(same) ELSE Nearest(cs)
  BY Zenon DEF SecurityTarget
<1>2. cs \in SUBSET stable /\ same \in SUBSET stable /\ same \subseteq cs
  OBVIOUS
<1>3. IsFiniteSet(cs) /\ IsFiniteSet(same)
  BY <1>2, FS_Subset
<1>4. target \in cs
  <2> HIDE DEF cs, same
  <2>1. cs # {}
    <3> HIDE DEF target
    <3> QED
      BY <1>1 DEF target
  <2>2. CASE same # {}
    <3>1. Nearest(same) \in same
      BY <1>2, <1>3, <2>2, Picked
    <3> QED
      BY <1>1, <1>2, <2>1, <2>2, <3>1
  <2>3. CASE same = {}
    <3>1. Nearest(cs) \in cs
      BY <1>2, <1>3, <2>1, Picked
    <3> QED
      BY <1>1, <2>1, <2>3, <3>1
  <2> QED
    BY <2>2, <2>3
<1> HIDE DEF target
<1> QED
  BY <1>4 DEF target

(* The fields of an item.                                                  *)
LEMMA ItemFields ==
  ASSUME NEW dep, NEW kind, NEW current, NEW target, NEW ids
  PROVE  LET it == Item(dep, kind, current, target, ids)
         IN  /\ it.name = dep.name /\ it.section = dep.section /\ it.kind = kind
             /\ it.current = current /\ it.target = target /\ it.ids = ids
             /\ it.range = preserveRangeStyle(dep.range, target)
<1> DEFINE breaking == kind = "next-major" \/ majorOf(target) # majorOf(current)
           range == preserveRangeStyle(dep.range, target)
           it == [name |-> dep.name, section |-> dep.section, kind |-> kind, current |-> current, target |-> target,
                  range |-> range, ids |-> ids, breaking |-> breaking]
<1>1. Item(dep, kind, current, target, ids) = it
  BY Zenon DEF Item
<1> HIDE DEF breaking, range
<1>2. /\ it.name = dep.name /\ it.section = dep.section /\ it.kind = kind
      /\ it.current = current /\ it.target = target /\ it.ids = ids
      /\ it.range = range
  OBVIOUS
<1> HIDE DEF it
<1> QED
  BY <1>1, <1>2 DEF range

LEMMA StyleIs ==
  ASSUME NEW range, NEW target
  PROVE  \E op \in {"^", "~", NoOperator} : preserveRangeStyle(range, target) = OneToken(op, target)
<1> DEFINE op == IF range # <<>> /\ range[1] # <<>> THEN range[1][1].op ELSE ""
           kept == IF op \in {"^", "~"} THEN op ELSE ""
<1>1. preserveRangeStyle(range, target) = <<<<[op |-> kept, p |-> target]>>>>
  BY Zenon DEF preserveRangeStyle
<1> HIDE DEF op
<1>2. kept \in {"^", "~", NoOperator}
  <2>1. op \in {"^", "~"} => kept = op
    BY Zenon
  <2>2. op \notin {"^", "~"} => kept = NoOperator
    BY Zenon DEF NoOperator
  <2> HIDE DEF kept
  <2> QED
    BY <2>1, <2>2
<1> HIDE DEF kept
<1>3. preserveRangeStyle(range, target) = OneToken(kept, target)
  BY <1>1 DEF OneToken
<1> QED
  BY <1>2, <1>3

LEMMA ItemsAre ==
  ASSUME NEW dep \in Declarations, NEW advisories, NEW nextMajor, NEW it \in DepItems(dep, advisories, nextMajor)
  PROVE  \E kind, current, target, ids :
            it = Item(dep, kind, current, target, ids) /\ Wanted(dep, advisories, kind, current, target, ids)
<1> DEFINE stable == Stable(dep.name)
           current == resolveCurrentVersion(dep)
           active == {a \in advisories : satisfies(current, a.range)}
           secure == SecurityTarget(current, stable, advisories)
           latest == maxSatisfying(stable, dep.range)
           top == Topmost(stable)
           S1 == IF secure = NoVersion THEN {} ELSE {Item(dep, "security", current, secure, {a.id : a \in active})}
           S2 == IF Below(current, latest) /\ clearsAll(latest, advisories)
                 THEN {Item(dep, "outdated", current, latest, {})} ELSE {}
           S3 == IF nextMajor /\ stable # {} /\ majorOf(top) > majorOf(current) /\ clearsAll(top, advisories)
                 THEN {Item(dep, "next-major", current, top, {})} ELSE {}
<1>1. DepItems(dep, advisories, nextMajor) = IF current = NoVersion THEN {} ELSE IF active # {} THEN S1 ELSE S2 \cup S3
  BY Zenon DEF DepItems
<1>2. dep.name \in DOMAIN Published
  BY DEF Declarations
<1>3. IsFiniteSet(stable) /\ \A v \in stable : IsRelease(v) /\ v # NoVersion
  BY <1>2, StableOf
<1>4. current # NoVersion /\ (it \in S1 \/ it \in S2 \/ it \in S3)
  <2> HIDE DEF S1, S2, S3, active, current
  <2> QED
    BY <1>1
<1>5. current \in Versions
  BY <1>4, CurrentIs
<1>6. current = resolveCurrentVersion(dep)
  OBVIOUS
<1>7. CASE it \in S1
  <2>1. secure # NoVersion /\ it = Item(dep, "security", current, secure, {a.id : a \in active})
    <3> HIDE DEF secure, current, active
    <3> QED
      BY <1>7
  <2>2. secure \in stable /\ Below(current, secure) /\ clearsAll(secure, advisories)
    <3> HIDE DEF current, stable
    <3> QED
      BY <1>3, <2>1, SecurityIs
  <2>3. Wanted(dep, advisories, "security", current, secure, {a.id : a \in active})
    BY <1>5, <2>2 DEF Wanted
  <2> HIDE DEF secure, current, active
  <2> QED
    BY <2>1, <2>3
<1>8. CASE it \in S2
  <2>1. Below(current, latest) /\ clearsAll(latest, advisories) /\ it = Item(dep, "outdated", current, latest, {})
    <3> HIDE DEF latest, current
    <3> QED
      BY <1>8
  <2>2. latest \in stable \cup {NoVersion}
    <3> HIDE DEF stable
    <3> QED
      BY <1>3, Satisfying
  <2>3. latest # NoVersion
    <3> HIDE DEF latest, current
    <3> QED
      BY <1>5, <2>1, BelowIsVersion
  <2>4. Wanted(dep, advisories, "outdated", current, latest, {})
    <3> HIDE DEF latest, current
    <3> QED
      BY <1>5, <1>6, <2>1, <2>2, <2>3 DEF Wanted
  <2> HIDE DEF latest, current
  <2> QED
    BY <2>1, <2>4
<1>9. CASE it \in S3
  <2>1. stable # {} /\ majorOf(top) > majorOf(current) /\ clearsAll(top, advisories) /\ it = Item(dep, "next-major", current, top, {})
    <3> HIDE DEF top, current, stable
    <3> QED
      BY <1>9
  <2>2. top \in stable
    <3> HIDE DEF stable
    <3> QED
      BY <1>3, <2>1, Picked
  <2>3. Below(current, top)
    <3> HIDE DEF top, current
    <3> QED
      BY <1>3, <1>5, <2>1, <2>2, MajorGoesUp
  <2>4. Wanted(dep, advisories, "next-major", current, top, {})
    <3> HIDE DEF top, current
    <3> QED
      BY <1>5, <1>6, <2>1, <2>2, <2>3 DEF Wanted
  <2> HIDE DEF top, current
  <2> QED
    BY <2>1, <2>4
<1> QED
  BY <1>4, <1>7, <1>8, <1>9

(* A declaration of the same package, with the same range and version, has *)
(* the same security item but for its section.                             *)
LEMMA SiblingHasIt ==
  ASSUME NEW dep \in Declarations, NEW sib \in Declarations, NEW advisories, NEW nextMajor,
         sib.name = dep.name, sib.range = dep.range, sib.installed = dep.installed,
         NEW it \in DepItems(dep, advisories, nextMajor), it.kind = "security"
  PROVE  \E twin \in DepItems(sib, advisories, nextMajor) :
            twin.kind = "security" /\ twin.name = it.name /\ twin.section = sib.section /\ twin.target = it.target
<1> DEFINE stable == Stable(dep.name)
           current == resolveCurrentVersion(dep)
           active == {a \in advisories : satisfies(current, a.range)}
           secure == SecurityTarget(current, stable, advisories)
           latest == maxSatisfying(stable, dep.range)
           top == Topmost(stable)
           ids == {a.id : a \in active}
           S1 == IF secure = NoVersion THEN {} ELSE {Item(dep, "security", current, secure, ids)}
           T1 == IF secure = NoVersion THEN {} ELSE {Item(sib, "security", current, secure, ids)}
           S2 == IF Below(current, latest) /\ clearsAll(latest, advisories)
                 THEN {Item(dep, "outdated", current, latest, {})} ELSE {}
           S3 == IF nextMajor /\ stable # {} /\ majorOf(top) > majorOf(current) /\ clearsAll(top, advisories)
                 THEN {Item(dep, "next-major", current, top, {})} ELSE {}
           T2 == IF Below(current, latest) /\ clearsAll(latest, advisories)
                 THEN {Item(sib, "outdated", current, latest, {})} ELSE {}
           T3 == IF nextMajor /\ stable # {} /\ majorOf(top) > majorOf(current) /\ clearsAll(top, advisories)
                 THEN {Item(sib, "next-major", current, top, {})} ELSE {}
<1>1. DepItems(dep, advisories, nextMajor) = IF current = NoVersion THEN {} ELSE IF active # {} THEN S1 ELSE S2 \cup S3
  BY Zenon DEF DepItems
<1>2. resolveCurrentVersion(sib) = current
  BY DEF resolveCurrentVersion
<1>3. DepItems(sib, advisories, nextMajor) = IF current = NoVersion THEN {} ELSE IF active # {} THEN T1 ELSE T2 \cup T3
  <2> DEFINE c == resolveCurrentVersion(sib)
             st == Stable(sib.name)
             act == {a \in advisories : satisfies(c, a.range)}
             sec == SecurityTarget(c, st, advisories)
             lat == maxSatisfying(st, sib.range)
             tp == Topmost(st)
             U1 == IF sec = NoVersion THEN {} ELSE {Item(sib, "security", c, sec, {a.id : a \in act})}
             U2 == IF Below(c, lat) /\ clearsAll(lat, advisories)
                   THEN {Item(sib, "outdated", c, lat, {})} ELSE {}
             U3 == IF nextMajor /\ st # {} /\ majorOf(tp) > majorOf(c) /\ clearsAll(tp, advisories)
                   THEN {Item(sib, "next-major", c, tp, {})} ELSE {}
  <2>1. DepItems(sib, advisories, nextMajor) = IF c = NoVersion THEN {} ELSE IF act # {} THEN U1 ELSE U2 \cup U3
    BY Zenon DEF DepItems
  <2>2. c = current /\ st = stable
    BY <1>2
  <2>3. act = active /\ sec = secure /\ lat = latest /\ tp = top
    BY <2>2
  <2> QED
    BY <2>1, <2>2, <2>3, Zenon
<1>4. \A x \in S2 \cup S3 : x.kind # "security"
  <2>1. Item(dep, "outdated", current, latest, {}).kind = "outdated"
    BY ItemFields
  <2>2. Item(dep, "next-major", current, top, {}).kind = "next-major"
    BY ItemFields
  <2> HIDE DEF current, latest, top, stable
  <2>3. S2 \subseteq {Item(dep, "outdated", current, latest, {})}
    OBVIOUS
  <2>4. S3 \subseteq {Item(dep, "next-major", current, top, {})}
    OBVIOUS
  <2> HIDE DEF S2, S3
  <2> QED
    BY <2>1, <2>2, <2>3, <2>4
<1> HIDE DEF S2, S3, T2, T3
<1>5. current # NoVersion /\ active # {} /\ it \in S1
  <2> HIDE DEF S1, active, current
  <2> QED
    BY <1>1, <1>4
<1>6. secure # NoVersion /\ it = Item(dep, "security", current, secure, ids)
  <2> HIDE DEF secure, ids, current
  <2> QED
    BY <1>5
<1> DEFINE twin == Item(sib, "security", current, secure, ids)
<1>7. twin \in DepItems(sib, advisories, nextMajor)
  <2>1. twin \in T1
    <3> HIDE DEF twin, secure
    <3> QED
      BY <1>6 DEF twin
  <2> HIDE DEF twin, T1, active, current
  <2> QED
    BY <1>3, <1>5, <2>1
<1>8. it.name = dep.name /\ it.target = secure /\ twin.kind = "security" /\ twin.name = sib.name
      /\ twin.section = sib.section /\ twin.target = secure
  BY <1>6, ItemFields
<1> HIDE DEF twin
<1> QED
  BY <1>7, <1>8

LEMMA DepItemsFinite ==
  ASSUME NEW dep, NEW advisories, NEW nextMajor
  PROVE  IsFiniteSet(DepItems(dep, advisories, nextMajor))
<1> DEFINE stable == Stable(dep.name)
           current == resolveCurrentVersion(dep)
           active == {a \in advisories : satisfies(current, a.range)}
           secure == SecurityTarget(current, stable, advisories)
           latest == maxSatisfying(stable, dep.range)
           top == Topmost(stable)
           i1 == Item(dep, "security", current, secure, {a.id : a \in active})
           i2 == Item(dep, "outdated", current, latest, {})
           i3 == Item(dep, "next-major", current, top, {})
           c2 == Below(current, latest) /\ clearsAll(latest, advisories)
           c3 == nextMajor /\ stable # {} /\ majorOf(top) > majorOf(current) /\ clearsAll(top, advisories)
           S1 == IF secure = NoVersion THEN {} ELSE {i1}
           S2 == IF c2 THEN {i2} ELSE {}
           S3 == IF c3 THEN {i3} ELSE {}
<1>1. DepItems(dep, advisories, nextMajor) = IF current = NoVersion THEN {} ELSE IF active # {} THEN S1 ELSE S2 \cup S3
  BY Zenon DEF DepItems
<1> HIDE DEF i1, i2, i3, c2, c3, secure, current, active
<1>2. \A x : IsFiniteSet({x})
  BY FS_Singleton
<1>3. IsFiniteSet({})
  BY FS_EmptySet
<1>4. IsFiniteSet(S1) /\ IsFiniteSet(S2) /\ IsFiniteSet(S3)
  BY <1>2, <1>3
<1> HIDE DEF S1, S2, S3
<1>5. IsFiniteSet(S2 \cup S3)
  BY <1>4, FS_Union
<1> QED
  BY <1>1, <1>3, <1>4, <1>5

LEMMA PlanItemsFinite ==
  ASSUME NEW deps \in Seq(Declarations), NEW advisories, NEW nextMajor
  PROVE  IsFiniteSet(PlanItems(deps, advisories, nextMajor))
<1> DEFINE of(i) == DepItems(deps[i], advisories[deps[i].name], nextMajor)
           D == 1 .. Len(deps)
           T == {of(i) : i \in D}
           f == [i \in D |-> of(i)]
<1>1. DOMAIN deps = D /\ IsFiniteSet(D)
  BY FS_Interval
<1>2. \A i \in D : IsFiniteSet(of(i))
  BY DepItemsFinite
<1>3. PlanItems(deps, advisories, nextMajor) = UNION T
  BY <1>1, Zenon DEF PlanItems
<1> HIDE DEF of, D
<1>4. f \in Surjection(D, T)
  BY DEF Surjection
<1> HIDE DEF f
<1>5. IsFiniteSet(T)
  BY <1>1, <1>4, FS_Surjection
<1>6. \A U \in T : IsFiniteSet(U)
  BY <1>2
<1> HIDE DEF T
<1> QED
  BY <1>3, <1>5, <1>6, FS_UNION

(* What every item of a plan is.                                           *)
GoodItem(it, advisories) ==
  /\ Below(it.current, it.target) /\ isStable(it.target) /\ satisfies(it.target, it.range)
  /\ clearsAll(it.target, advisories[it.name])
  /\ it.name \in DOMAIN Published /\ it.kind \in {"security", "outdated", "next-major"}
  /\ \E op : it.range = OneToken(op, it.target)

LEMMA PlanItemsAre ==
  ASSUME NEW deps \in Seq(Declarations), NEW advisories, NEW nextMajor, NEW it \in PlanItems(deps, advisories, nextMajor)
  PROVE  /\ GoodItem(it, advisories)
         /\ \E i \in DOMAIN deps : /\ it \in DepItems(deps[i], advisories[deps[i].name], nextMajor)
                                   /\ it.name = deps[i].name /\ it.section = deps[i].section
<1>1. PICK i \in DOMAIN deps : it \in DepItems(deps[i], advisories[deps[i].name], nextMajor)
  BY DEF PlanItems
<1> DEFINE dep == deps[i]
           adv == advisories[dep.name]
<1>a. dep \in Declarations
  OBVIOUS
<1> HIDE DEF dep
<1>2. dep \in Declarations /\ dep.name \in DOMAIN Published
  BY <1>a DEF Declarations
<1>3. it \in DepItems(dep, adv, nextMajor)
  BY <1>1 DEF dep
<1> HIDE DEF adv
<1>4. PICK kind, current, target, ids :
         it = Item(dep, kind, current, target, ids) /\ Wanted(dep, adv, kind, current, target, ids)
  BY <1>2, <1>3, ItemsAre
<1>5. /\ it.name = dep.name /\ it.section = dep.section /\ it.kind = kind
      /\ it.current = current /\ it.target = target
      /\ it.range = preserveRangeStyle(dep.range, target)
  BY <1>4, ItemFields
<1>6. /\ target \in Stable(dep.name) /\ Below(current, target) /\ clearsAll(target, adv)
      /\ kind \in {"security", "outdated", "next-major"}
  BY <1>4 DEF Wanted
<1>7. IsRelease(target) /\ isStable(target)
  BY <1>2, <1>6, StableOf
<1>8. PICK op \in {"^", "~", NoOperator} : it.range = OneToken(op, target)
  BY <1>5, StyleIs
<1>9. satisfies(it.target, it.range)
  BY <1>5, <1>7, <1>8, AdmitsItself
<1>10. adv = advisories[it.name]
  BY <1>5 DEF adv
<1>11. GoodItem(it, advisories)
  BY <1>2, <1>5, <1>6, <1>7, <1>8, <1>9, <1>10 DEF GoodItem
<1> QED
  BY <1>1, <1>5, <1>11 DEF dep

LEMMA EarlierIrreflexive ==
  ASSUME NEW it, NEW advisories, GoodItem(it, advisories)
  PROVE  ~ Earlier(it, it)
<1>1. Rank(it) \in {1, 2, 3}
  BY DEF GoodItem, Rank
<1>2. it.name \in Nat
  BY UpgradeAssumption DEF GoodItem
<1>3. ~(it.section = "dependencies" /\ it.section = "devDependencies")
  OBVIOUS
<1> QED
  BY <1>1, <1>2, <1>3 DEF Earlier

(* The ordered sequence lists every item, and nothing else.                *)
LEMMA PlanLists ==
  ASSUME NEW its, IsFiniteSet(its), NEW advisories, \A it \in its : GoodItem(it, advisories),
         NEW p \in buildPlan(its)
  PROVE  /\ p \in Seq(its) /\ Elements(p) = its
         /\ DOMAIN p = 1 .. Cardinality(its) /\ Len(p) = Cardinality(its) /\ Cardinality(its) \in Nat
<1> DEFINE n == Cardinality(its)
           D == 1 .. n
<1>1. n \in Nat
  BY FS_CardinalityType
<1>2. p \in [D -> its] /\ \A i \in DOMAIN p : \A j \in 1 .. i - 1 : Earlier(p[j], p[i])
  BY DEF buildPlan
<1> HIDE DEF n
<1>3. \A i, j \in D : i < j => p[i] # p[j]
  <2> SUFFICES ASSUME NEW i \in D, NEW j \in D, i < j, p[i] = p[j] PROVE FALSE
    OBVIOUS
  <2>1. i \in 1 .. j - 1 /\ j \in DOMAIN p /\ p[j] \in its
    BY <1>1, <1>2
  <2>2. Earlier(p[j], p[j])
    BY <1>2, <2>1
  <2> QED
    BY <2>1, <2>2, EarlierIrreflexive
<1>4. IsFiniteSet(D) /\ Cardinality(D) = n
  BY <1>1, FS_Interval
<1>5. p \in Injection(D, its)
  <2>1. \A i, j \in D : p[i] = p[j] => i = j
    <3> SUFFICES ASSUME NEW i \in D, NEW j \in D, p[i] = p[j] PROVE i = j
      OBVIOUS
    <3>1. ~(i < j) /\ ~(j < i)
      BY <1>3
    <3> QED
      BY <1>1, <3>1
  <2> HIDE DEF D
  <2> QED
    BY <1>2, <2>1 DEF Injection, IsInjective
<1>6. p \in Surjection(D, its)
  <2> HIDE DEF D
  <2> QED
    BY <1>4, <1>5, FS_Injection DEF n
<1>7. Elements(p) = its
  <2> HIDE DEF D
  <2> QED
    BY <1>2, <1>6 DEF Elements, Surjection
<1>8. p \in Seq(its) /\ DOMAIN p = D /\ Len(p) = n
  BY <1>1, <1>2
<1> QED
  BY <1>1, <1>7, <1>8 DEF n

-----------------------------------------------------------------------------
(* The executor's manifest: AppliedAll is a recursive function, and what   *)
(* is said of it is proved by appeal to a least counterexample.            *)

ApplyStep(text, its, g, k) == IF k = 0 THEN text ELSE Applied(g[k - 1], its[k])
ApplyRun(text, its, g, n) == g = [k \in 0 .. n |-> ApplyStep(text, its, g, k)]

LEMMA LeastNat ==
  ASSUME NEW T, T \subseteq Nat, T # {}
  PROVE  \E x \in T : \A y \in T : x <= y
<1>1. PICK x \in T : \A y \in T : ~(<<y, x>> \in OpToRel(<, Nat))
  BY NatLessThanWellFounded, WFMin
<1>2. \A y \in T : ~(y < x)
  BY <1>1 DEF OpToRel
<1> QED
  BY <1>2

LEMMA ApplyRunExists ==
  ASSUME NEW text, NEW its, NEW n \in Nat
  PROVE  \E g : ApplyRun(text, its, g, n)
<1> DEFINE T == {k \in Nat : ~ \E g : ApplyRun(text, its, g, k)}
<1>1. ASSUME T # {} PROVE FALSE
  <2>1. PICK k \in T : \A j \in T : k <= j
    <3>1. T \subseteq Nat
      OBVIOUS
    <3> HIDE DEF T
    <3> QED
      BY <1>1, <3>1, LeastNat
  <2>2. k \in Nat /\ ~ \E g : ApplyRun(text, its, g, k)
    OBVIOUS
  <2>3. CASE k = 0
    <3> DEFINE h == [j \in 0 .. 0 |-> text]
    <3>1. ApplyRun(text, its, h, 0)
      BY DEF ApplyRun, ApplyStep
    <3> QED
      BY <2>2, <2>3, <3>1
  <2>4. CASE k # 0
    <3>1. k - 1 \in Nat /\ k - 1 \notin T
      BY <2>1, <2>2, <2>4
    <3>2. PICK g : ApplyRun(text, its, g, k - 1)
      BY <3>1
    <3> DEFINE h == [j \in 0 .. k |-> IF j = k THEN Applied(g[k - 1], its[k]) ELSE g[j]]
    <3>3. ASSUME NEW j \in 0 .. k PROVE h[j] = ApplyStep(text, its, h, j)
      <4>1. CASE j = k
        <5>1. k - 1 \in 0 .. k /\ k - 1 # k
          BY <2>2, <2>4
        <5>2. h[k - 1] = g[k - 1] /\ h[k] = Applied(g[k - 1], its[k])
          BY <2>2, <5>1
        <5> HIDE DEF h
        <5> QED
          BY <2>4, <4>1, <5>2 DEF ApplyStep
      <4>2. CASE j # k
        <5>1. j \in 0 .. k - 1 /\ (j # 0 => j - 1 \in 0 .. k /\ j - 1 # k)
          BY <2>2, <4>2
        <5>2. g[j] = ApplyStep(text, its, g, j)
          BY <3>2, <5>1 DEF ApplyRun
        <5>3. h[j] = g[j] /\ (j # 0 => h[j - 1] = g[j - 1])
          BY <4>2, <5>1
        <5> HIDE DEF h
        <5> QED
          BY <5>2, <5>3 DEF ApplyStep
      <4> QED
        BY <4>1, <4>2
    <3>4. h = [j \in 0 .. k |-> h[j]]
      OBVIOUS
    <3> HIDE DEF h
    <3>5. ApplyRun(text, its, h, k)
      BY <3>3, <3>4 DEF ApplyRun
    <3> QED
      BY <2>2, <3>5
  <2> QED
    BY <2>3, <2>4
<1> QED
  BY <1>1

(* Every declaration keeps its name and its section, and one that some     *)
(* item is of gets the range of an item that is of it.                     *)
DeclForm(d) == d = [name |-> d.name, section |-> d.section, range |-> d.range, installed |-> d.installed]
OfItem(d, it) == d.name = it.name /\ d.section = it.section
Follows(text, its, k, after) ==
  /\ DOMAIN after = DOMAIN text
  /\ \A i \in DOMAIN text :
        /\ DeclForm(after[i]) /\ after[i].name = text[i].name /\ after[i].section = text[i].section
        /\ (\E l \in 1 .. k : OfItem(text[i], its[l])) =>
              \E l \in 1 .. k : OfItem(text[i], its[l]) /\ after[i].range = its[l].range

LEMMA AppliedFollows ==
  ASSUME NEW text, NEW its, NEW k \in Nat, k # 0, NEW before, Follows(text, its, k - 1, before)
  PROVE  Follows(text, its, k, Applied(before, its[k]))
<1> DEFINE it == its[k]
           after == Applied(before, it)
<1>1. DOMAIN before = DOMAIN text
  BY DEF Follows
<1>2. DOMAIN after = DOMAIN text
  BY <1>1 DEF Applied
<1>3. ASSUME NEW i \in DOMAIN text
      PROVE  /\ DeclForm(after[i]) /\ after[i].name = text[i].name /\ after[i].section = text[i].section
             /\ (\E l \in 1 .. k : OfItem(text[i], its[l])) =>
                   \E l \in 1 .. k : OfItem(text[i], its[l]) /\ after[i].range = its[l].range
  <2> DEFINE d == before[i]
  <2>1. /\ DeclForm(d) /\ d.name = text[i].name /\ d.section = text[i].section
        /\ (\E l \in 1 .. k - 1 : OfItem(text[i], its[l])) =>
                   \E l \in 1 .. k - 1 : OfItem(text[i], its[l]) /\ d.range = its[l].range
    BY DEF Follows
  <2>2. after[i] = IF d.name = it.name /\ d.section = it.section THEN [d EXCEPT !.range = it.range] ELSE d
    BY <1>1 DEF Applied
  <2>3. \A l \in 1 .. k : l = k \/ l \in 1 .. k - 1
    OBVIOUS
  <2>4. k \in 1 .. k /\ \A l \in 1 .. k - 1 : l \in 1 .. k
    OBVIOUS
  <2> HIDE DEF after, d
  <2>5. CASE OfItem(text[i], it)
    <3>1. after[i] = [d EXCEPT !.range = it.range]
      BY <2>1, <2>2, <2>5 DEF OfItem
    <3>2. DeclForm(after[i]) /\ after[i].name = d.name /\ after[i].section = d.section /\ after[i].range = it.range
      BY <2>1, <3>1 DEF DeclForm
    <3> QED
      BY <2>1, <2>4, <2>5, <3>2
  <2>6. CASE ~ OfItem(text[i], it)
    <3>1. after[i] = d
      BY <2>1, <2>2, <2>6 DEF OfItem
    <3>2. ASSUME \E l \in 1 .. k : OfItem(text[i], its[l])
          PROVE  \E l \in 1 .. k : OfItem(text[i], its[l]) /\ after[i].range = its[l].range
      <4>1. \E l \in 1 .. k - 1 : OfItem(text[i], its[l])
        BY <2>3, <2>6, <3>2
      <4>2. PICK l \in 1 .. k - 1 : OfItem(text[i], its[l]) /\ d.range = its[l].range
        BY <2>1, <4>1
      <4> QED
        BY <2>4, <3>1, <4>2
    <3> QED
      BY <2>1, <3>1, <3>2
  <2> QED
    BY <2>5, <2>6
<1> HIDE DEF after
<1>4. Follows(text, its, k, after)
  BY <1>2, <1>3 DEF Follows
<1> QED
  BY <1>4 DEF after

LEMMA AppliedAllFollows ==
  ASSUME NEW text, NEW its, Len(its) \in Nat, \A i \in DOMAIN text : DeclForm(text[i])
  PROVE  Follows(text, its, Len(its), AppliedAll(text, its))
<1> DEFINE n == Len(its)
           g == CHOOSE g : ApplyRun(text, its, g, n)
           T == {k \in 0 .. n : ~ Follows(text, its, k, g[k])}
<1>1. ApplyRun(text, its, g, n)
  BY ApplyRunExists
<1>2. g = CHOOSE h : h = [k \in 0 .. n |-> IF k = 0 THEN text ELSE Applied(h[k - 1], its[k])]
  BY Zenon DEF ApplyRun, ApplyStep
<1>3. AppliedAll(text, its) = g[n]
  BY <1>2, Zenon DEF AppliedAll
<1> HIDE DEF g
<1>4. \A k \in 0 .. n : g[k] = ApplyStep(text, its, g, k)
  BY <1>1, Zenon DEF ApplyRun
<1>5. ASSUME T # {} PROVE FALSE
  <2>1. PICK k \in T : \A j \in T : k <= j
    <3>1. T \subseteq Nat
      OBVIOUS
    <3> HIDE DEF T
    <3> QED
      BY <1>5, <3>1, LeastNat
  <2>2. k \in 0 .. n /\ k \in Nat /\ ~ Follows(text, its, k, g[k])
    OBVIOUS
  <2>3. CASE k = 0
    <3>1. g[0] = text
      BY <1>4, <2>2, <2>3 DEF ApplyStep
    <3>2. Follows(text, its, 0, text)
      BY DEF Follows
    <3> QED
      BY <2>2, <2>3, <3>1, <3>2
  <2>4. CASE k # 0
    <3>1. k - 1 \in 0 .. n /\ k - 1 \notin T
      BY <2>1, <2>2, <2>4
    <3>2. Follows(text, its, k - 1, g[k - 1])
      BY <3>1
    <3>3. g[k] = Applied(g[k - 1], its[k])
      BY <1>4, <2>2, <2>4 DEF ApplyStep
    <3> QED
      BY <2>2, <2>4, <3>2, <3>3, AppliedFollows
  <2> QED
    BY <2>3, <2>4
<1>6. n \in 0 .. n /\ n \notin T
  <2> HIDE DEF T
  <2> QED
    BY <1>5
<1>7. Follows(text, its, n, g[n])
  BY <1>6
<1> QED
  BY <1>3, <1>7

(* The executor's plan covers both declarations of a package it moves, and *)
(* gives them one target, when they have one range.                        *)
ExecPlan(deps, p) ==
  /\ p \in Seq(Elements(p)) /\ DOMAIN p = 1 .. Len(p) /\ Len(p) \in Nat
  /\ \A l \in 1 .. Len(p) : /\ \E op : p[l].range = OneToken(op, p[l].target)
                            /\ p[l].name \in DOMAIN Published
                            /\ \E i \in DOMAIN deps : OfItem(deps[i], p[l])
  /\ OneRange(deps) =>
        \A l \in 1 .. Len(p) :
           /\ \A m \in 1 .. Len(p) : p[m].name = p[l].name => p[m].target = p[l].target
           /\ \A k \in DOMAIN deps : deps[k].name = p[l].name => \E m \in 1 .. Len(p) : OfItem(deps[k], p[m])

LEMMA OneTarget ==
  ASSUME NEW deps \in Seq(Declarations), OneRange(deps), NEW advisories, NEW nextMajor,
         NEW it \in PlanItems(deps, advisories, nextMajor), it.kind = "security",
         NEW other \in PlanItems(deps, advisories, nextMajor), other.kind = "security", other.name = it.name
  PROVE  other.target = it.target
<1>1. ASSUME NEW x \in PlanItems(deps, advisories, nextMajor), x.kind = "security"
      PROVE  \E i \in DOMAIN deps :
                /\ deps[i].name = x.name
                /\ x.target = SecurityTarget(resolveCurrentVersion(deps[i]), Stable(deps[i].name), advisories[deps[i].name])
  <2>1. PICK i \in DOMAIN deps : x \in DepItems(deps[i], advisories[deps[i].name], nextMajor) /\ x.name = deps[i].name
    BY PlanItemsAre
  <2>2. deps[i] \in Declarations
    OBVIOUS
  <2>3. PICK kind, current, target, ids :
           x = Item(deps[i], kind, current, target, ids) /\ Wanted(deps[i], advisories[deps[i].name], kind, current, target, ids)
    BY <2>1, <2>2, ItemsAre
  <2>4. x.kind = kind /\ x.target = target
    BY <2>3, ItemFields
  <2>5. target = SecurityTarget(resolveCurrentVersion(deps[i]), Stable(deps[i].name), advisories[deps[i].name])
    BY <1>1, <2>3, <2>4 DEF Wanted
  <2> QED
    BY <2>1, <2>4, <2>5
<1>2. PICK i \in DOMAIN deps :
        /\ deps[i].name = it.name
        /\ it.target = SecurityTarget(resolveCurrentVersion(deps[i]), Stable(deps[i].name), advisories[deps[i].name])
  BY <1>1
<1>3. PICK j \in DOMAIN deps :
        /\ deps[j].name = other.name
        /\ other.target = SecurityTarget(resolveCurrentVersion(deps[j]), Stable(deps[j].name), advisories[deps[j].name])
  BY <1>1
<1>4. deps[i].name = deps[j].name /\ deps[i].range = deps[j].range /\ deps[i].installed = deps[j].installed
  BY <1>2, <1>3 DEF OneRange
<1>5. resolveCurrentVersion(deps[i]) = resolveCurrentVersion(deps[j])
  BY <1>4, Zenon DEF resolveCurrentVersion
<1> QED
  BY <1>2, <1>3, <1>4, <1>5

LEMMA BothSections ==
  ASSUME NEW deps \in Seq(Declarations), OneRange(deps), NEW advisories, NEW nextMajor,
         NEW it \in PlanItems(deps, advisories, nextMajor), it.kind = "security",
         NEW k \in DOMAIN deps, deps[k].name = it.name
  PROVE  \E twin \in PlanItems(deps, advisories, nextMajor) : twin.kind = "security" /\ OfItem(deps[k], twin)
<1>1. PICK i \in DOMAIN deps : it \in DepItems(deps[i], advisories[deps[i].name], nextMajor) /\ it.name = deps[i].name
  BY PlanItemsAre
<1>2. deps[i] \in Declarations /\ deps[k] \in Declarations
  OBVIOUS
<1>3. deps[k].name = deps[i].name /\ deps[k].range = deps[i].range /\ deps[k].installed = deps[i].installed
  BY <1>1 DEF OneRange
<1>4. PICK twin \in DepItems(deps[k], advisories[deps[i].name], nextMajor) :
         twin.kind = "security" /\ twin.name = it.name /\ twin.section = deps[k].section /\ twin.target = it.target
  BY <1>1, <1>2, <1>3, SiblingHasIt
<1>5. twin \in PlanItems(deps, advisories, nextMajor)
  BY <1>3, <1>4 DEF PlanItems
<1> QED
  BY <1>1, <1>3, <1>4, <1>5 DEF OfItem

LEMMA ExecPlanIs ==
  ASSUME NEW deps \in Seq(Declarations), NEW advisories, NEW nextMajor,
         NEW p \in buildPlan({it \in PlanItems(deps, advisories, nextMajor) : it.kind = "security"})
  PROVE  ExecPlan(deps, p)
<1> DEFINE all == PlanItems(deps, advisories, nextMajor)
           its == {it \in all : it.kind = "security"}
<1>1. IsFiniteSet(its)
  <2>1. IsFiniteSet(all) /\ its \in SUBSET all
    BY PlanItemsFinite
  <2> HIDE DEF all, its
  <2> QED
    BY <2>1, FS_Subset
<1>2. \A it \in its : it \in all /\ it.kind = "security"
  OBVIOUS
<1>3. \A it \in its : GoodItem(it, advisories) /\ \E i \in DOMAIN deps : it.name = deps[i].name /\ it.section = deps[i].section
  BY PlanItemsAre
<1>4. \A it, other \in its : OneRange(deps) /\ other.name = it.name => other.target = it.target
  BY OneTarget
<1>5. \A it \in its : \A k \in DOMAIN deps : OneRange(deps) /\ deps[k].name = it.name => \E twin \in its : OfItem(deps[k], twin)
  <2> SUFFICES ASSUME NEW it \in its, NEW k \in DOMAIN deps, OneRange(deps), deps[k].name = it.name
               PROVE  \E twin \in its : OfItem(deps[k], twin)
    OBVIOUS
  <2>1. PICK twin \in all : twin.kind = "security" /\ OfItem(deps[k], twin)
    BY BothSections
  <2> QED
    BY <2>1
<1>6. p \in buildPlan(its)
  OBVIOUS
<1> HIDE DEF its, all
<1>7. p \in Seq(its) /\ Elements(p) = its
  BY <1>1, <1>3, <1>6, PlanLists
<1>8. DOMAIN p = 1 .. Len(p) /\ Len(p) \in Nat /\ \A l \in 1 .. Len(p) : p[l] \in its
  BY <1>7
<1>9. \A it \in its : \E m \in 1 .. Len(p) : p[m] = it
  BY <1>7, <1>8 DEF Elements
<1>10. \A l \in 1 .. Len(p) : /\ \E op : p[l].range = OneToken(op, p[l].target)
                              /\ p[l].name \in DOMAIN Published
                              /\ \E i \in DOMAIN deps : OfItem(deps[i], p[l])
  BY <1>3, <1>8 DEF GoodItem, OfItem
<1>11. ASSUME OneRange(deps), NEW l \in 1 .. Len(p)
       PROVE  /\ \A m \in 1 .. Len(p) : p[m].name = p[l].name => p[m].target = p[l].target
              /\ \A k \in DOMAIN deps : deps[k].name = p[l].name => \E m \in 1 .. Len(p) : OfItem(deps[k], p[m])
  <2>1. \A m \in 1 .. Len(p) : p[m].name = p[l].name => p[m].target = p[l].target
    BY <1>4, <1>8, <1>11
  <2>2. ASSUME NEW k \in DOMAIN deps, deps[k].name = p[l].name PROVE \E m \in 1 .. Len(p) : OfItem(deps[k], p[m])
    <3>1. PICK twin \in its : OfItem(deps[k], twin)
      BY <1>5, <1>8, <1>11, <2>2
    <3> QED
      BY <1>9, <3>1
  <2> QED
    BY <2>1, <2>2
<1> QED
  BY <1>7, <1>8, <1>10, <1>11 DEF ExecPlan

-----------------------------------------------------------------------------
(* The executor's reports.                                                 *)

LEMMA SealFields ==
  ASSUME NEW sandbox, NEW after, NEW text, NEW checks, NEW still, NEW cleared
  PROVE  LET r == Seal(sandbox, after, text, checks, still, cleared)
             c == r.core
         IN  /\ c.sandbox = sandbox /\ c.after = after /\ c.checks = checks /\ c.cleared = cleared /\ c.still = still
             /\ c.patch.after = text /\ c.patchHash = c.patch /\ r.hash = c
             /\ c.verdict = combineExecVerdict(sandbox, Len(after), checks, cleared)
<1> DEFINE before == [i \in DOMAIN after |-> after[i].current]
           patch == [before |-> job.repo.deps, after |-> text]
           verdict == combineExecVerdict(sandbox, Len(after), checks, cleared)
           core == [sandbox |-> sandbox, before |-> before, after |-> after, patch |-> patch, patchHash |-> patch,
                    checks |-> checks, cleared |-> cleared, still |-> still, verdict |-> verdict]
           r == Seal(sandbox, after, text, checks, still, cleared)
<1>1. r = [core |-> core, hash |-> core]
  BY Zenon DEF Seal
<1>2. patch.after = text
  OBVIOUS
<1> HIDE DEF before, patch, verdict
<1>3. /\ core.sandbox = sandbox /\ core.after = after /\ core.checks = checks /\ core.cleared = cleared /\ core.still = still
      /\ core.patch = patch /\ core.patchHash = patch /\ core.verdict = verdict
  OBVIOUS
<1> HIDE DEF core, r
<1>4. r.core = core /\ r.hash = core
  BY <1>1
<1>5. verdict = combineExecVerdict(sandbox, Len(after), checks, cleared)
  BY DEF verdict
<1> QED
  BY <1>2, <1>3, <1>4, <1>5 DEF r

(* Where a verifier looks a package up.                                    *)
PlacesOf(text, name, section) == {i \in DOMAIN text : text[i].name = name /\ text[i].section = section}
RangesOf(text, it) ==
  LET here == IF PlacesOf(text, it.name, "dependencies") # {} THEN PlacesOf(text, it.name, "dependencies")
              ELSE PlacesOf(text, it.name, "devDependencies")
  IN  {text[i].range : i \in here}
Names(text, it) == \E range \in RangesOf(text, it) : \E g \in Elements(range) : \E t \in Elements(g) : t.p = it.target

LEMMA PatchNames ==
  ASSUME NEW deps \in Seq(Declarations), NEW p, ExecPlan(deps, p), OneRange(deps), NEW text,
         Follows(deps, p, Len(p), text), NEW l \in DOMAIN p
  PROVE  Names(text, p[l])
<1> DEFINE it == p[l]
           at(s) == PlacesOf(text, it.name, s)
           here == IF at("dependencies") # {} THEN at("dependencies") ELSE at("devDependencies")
<1>1. l \in 1 .. Len(p) /\ DOMAIN text = DOMAIN deps
  BY DEF ExecPlan, Follows
<1>2. PICK i \in DOMAIN deps : OfItem(deps[i], it)
  BY <1>1 DEF ExecPlan
<1>3. it.section \in {"dependencies", "devDependencies"}
  <2>1. deps[i] \in Declarations
    OBVIOUS
  <2>2. deps[i].section \in {"dependencies", "devDependencies"}
    BY <2>1 DEF Declarations
  <2> QED
    BY <1>2, <2>2 DEF OfItem
<1>4. i \in at(it.section)
  BY <1>1, <1>2 DEF PlacesOf, OfItem, Follows
<1>5. PICK k \in here : TRUE
  <2> HIDE DEF at
  <2> QED
    BY <1>3, <1>4
<1>6. k \in DOMAIN text /\ text[k].name = it.name
  BY <1>5 DEF PlacesOf
<1>7. k \in DOMAIN deps /\ deps[k].name = it.name
  BY <1>1, <1>6 DEF Follows
<1>8. PICK m \in 1 .. Len(p) : OfItem(deps[k], p[m])
  BY <1>1, <1>7 DEF ExecPlan
<1>9. PICK h \in 1 .. Len(p) : OfItem(deps[k], p[h]) /\ text[k].range = p[h].range
  BY <1>7, <1>8 DEF Follows
<1>10. p[h].target = it.target
  <2>1. p[h].name = p[l].name
    BY <1>7, <1>9 DEF OfItem
  <2>2. \A j \in 1 .. Len(p) : p[j].name = p[l].name => p[j].target = p[l].target
    BY <1>1 DEF ExecPlan
  <2> QED
    BY <1>9, <2>1, <2>2
<1>11. PICK op : p[h].range = OneToken(op, it.target)
  BY <1>9, <1>10 DEF ExecPlan
<1>12. text[k].range \in RangesOf(text, it)
  BY <1>5 DEF RangesOf
<1>13. \E g \in Elements(text[k].range) : \E t \in Elements(g) : t.p = it.target
  <2> DEFINE t == [op |-> op, p |-> it.target]
             g == <<t>>
  <2>1. t.p = it.target
    OBVIOUS
  <2>2. text[k].range = <<g>>
    BY <1>9, <1>11 DEF OneToken
  <2> HIDE DEF t
  <2>3. t \in Elements(g)
    BY DEF Elements
  <2> HIDE DEF g
  <2>4. g \in Elements(text[k].range)
    BY <2>2 DEF Elements
  <2> QED
    BY <2>1, <2>3, <2>4
<1> QED
  BY <1>12, <1>13 DEF Names

(* The verdict a report states is the one its verifier derives.            *)
LEMMA SealVerifies ==
  ASSUME NEW sandbox \in BOOLEAN, NEW after, NEW text, NEW checks, NEW still, NEW cleared \in BOOLEAN,
         \A i \in DOMAIN after : Names(text, after[i]),
         after = <<>> => checks = <<>> /\ Len(after) = 0,
         after # <<>> => sandbox /\ Len(after) # 0,
         checks # <<>> => 1 \in DOMAIN checks /\ checks[1].name = "install",
         \A i \in DOMAIN checks : checks[i].passed \in BOOLEAN,
         cleared => still = {}
  PROVE  verifyExecReport(Seal(sandbox, after, text, checks, still, cleared))
<1> DEFINE r == Seal(sandbox, after, text, checks, still, cleared)
           c == r.core
           allPassed == c.checks # <<>> /\ \A i \in DOMAIN c.checks : c.checks[i].passed
           Green(n)  == \E i \in DOMAIN c.checks : c.checks[i].name = n /\ c.checks[i].passed
           clear   == c.cleared /\ c.still = {}
           some == \E i \in DOMAIN checks : checks[i].name = "test"
           red == \E i \in DOMAIN checks : ~ checks[i].passed
<1>1. /\ c.sandbox = sandbox /\ c.after = after /\ c.checks = checks /\ c.cleared = cleared /\ c.still = still
      /\ c.patch.after = text /\ c.patchHash = c.patch /\ r.hash = c
      /\ c.verdict = combineExecVerdict(sandbox, Len(after), checks, cleared)
  BY SealFields
<1> HIDE DEF r
<1>2. \A i \in DOMAIN c.after : Names(c.patch.after, c.after[i])
  BY <1>1
<1>3. allPassed <=> checks # <<>> /\ ~ red
  BY <1>1, Zenon
<1>4. Green("install") <=> \E i \in DOMAIN checks : checks[i].name = "install" /\ checks[i].passed
  BY <1>1, Zenon
<1>5. Green("test") <=> \E i \in DOMAIN checks : checks[i].name = "test" /\ checks[i].passed
  BY <1>1, Zenon
<1>6. allPassed => Green("install")
  <2>1. SUFFICES ASSUME checks # <<>>, ~ red PROVE \E i \in DOMAIN checks : checks[i].name = "install" /\ checks[i].passed
    BY <1>3, <1>4, Zenon
  <2>2. 1 \in DOMAIN checks /\ checks[1].name = "install"
    BY <2>1
  <2>3. checks[1].passed
    BY <2>1, <2>2, Zenon
  <2> QED
    BY <2>2, <2>3, Zenon
<1>7. allPassed => (Green("test") <=> some)
  BY <1>3, <1>5, Zenon
<1>8. clear <=> cleared
  BY <1>1
<1>9. c.verdict = IF ~ sandbox THEN "indeterminate" ELSE IF after = <<>> THEN "no-advisories"
                  ELSE IF ~ allPassed \/ ~ clear THEN "upgrade-breaks-suite"
                  ELSE IF some THEN "upgraded-green" ELSE "upgraded-untested"
  <2>1. Len(after) = 0 <=> after = <<>>
    OBVIOUS
  <2>2. combineExecVerdict(sandbox, Len(after), checks, cleared)
          = IF ~ sandbox THEN "indeterminate" ELSE IF Len(after) = 0 THEN "no-advisories"
            ELSE IF checks = <<>> \/ red \/ ~ cleared THEN "upgrade-breaks-suite"
            ELSE IF some THEN "upgraded-green" ELSE "upgraded-untested"
    <3> DEFINE len == Len(after)
               rest == IF checks = <<>> \/ red \/ ~ cleared THEN "upgrade-breaks-suite"
                       ELSE IF some THEN "upgraded-green" ELSE "upgraded-untested"
    <3>1. combineExecVerdict(sandbox, len, checks, cleared) =
          CASE ~ sandbox -> "indeterminate" [] sandbox /\ len = 0 -> "no-advisories" [] OTHER -> rest
      BY Zenon DEF combineExecVerdict
    <3> HIDE DEF len, rest
    <3>2. combineExecVerdict(sandbox, len, checks, cleared) =
          IF ~ sandbox THEN "indeterminate" ELSE IF len = 0 THEN "no-advisories" ELSE rest
      BY <3>1
    <3> QED
      BY <3>2 DEF len, rest
  <2>3. (checks = <<>> \/ red \/ ~ cleared) <=> (~ allPassed \/ ~ clear)
    BY <1>3, <1>8, Zenon
  <2> HIDE DEF allPassed, clear, red, some
  <2> QED
    BY <1>1, <2>1, <2>2, <2>3
<1> DEFINE agrees ==
        CASE c.verdict = "indeterminate" -> ~c.sandbox /\ c.after = <<>> /\ c.checks = <<>>
          [] c.verdict = "no-advisories" -> c.after = <<>> /\ c.checks = <<>>
          [] c.verdict = "upgraded-green" ->
                c.after # <<>> /\ clear /\ allPassed /\ Green("install") /\ Green("test")
          [] c.verdict = "upgraded-untested" ->
                c.after # <<>> /\ clear /\ allPassed /\ Green("install") /\ ~Green("test")
          [] c.verdict = "upgrade-breaks-suite" -> c.after # <<>> /\ ~(allPassed /\ clear)
<1>10. agrees
  <2> DEFINE gi == Green("install")
             gt == Green("test")
             v == c.verdict
             af == c.after
             ch == c.checks
             sb == c.sandbox
  <2>1. agrees <=>
        CASE v = "indeterminate" -> ~sb /\ af = <<>> /\ ch = <<>>
          [] v = "no-advisories" -> af = <<>> /\ ch = <<>>
          [] v = "upgraded-green" ->
                af # <<>> /\ clear /\ allPassed /\ gi /\ gt
          [] v = "upgraded-untested" ->
                af # <<>> /\ clear /\ allPassed /\ gi /\ ~gt
          [] v = "upgrade-breaks-suite" -> af # <<>> /\ ~(allPassed /\ clear)
    BY Zenon
  <2>2. (allPassed => gi) /\ (allPassed => (gt <=> some)) /\ af = after /\ ch = checks /\ sb = sandbox
    BY <1>1, <1>6, <1>7
  <2>3. v = IF ~ sandbox THEN "indeterminate" ELSE IF after = <<>> THEN "no-advisories"
                  ELSE IF ~ allPassed \/ ~ clear THEN "upgrade-breaks-suite"
                  ELSE IF some THEN "upgraded-green" ELSE "upgraded-untested"
    BY <1>9
  <2>4. after = <<>> => checks = <<>>
    OBVIOUS
  <2> HIDE DEF gi, gt, v, af, ch, sb, allPassed, clear, some, agrees
  <2>5. CASE ~ sandbox
    BY <2>1, <2>2, <2>3, <2>4, <2>5
  <2>6. CASE sandbox /\ after = <<>>
    BY <2>1, <2>2, <2>3, <2>4, <2>6
  <2>7. CASE sandbox /\ after # <<>> /\ (~ allPassed \/ ~ clear)
    BY <2>1, <2>2, <2>3, <2>7
  <2>8. CASE sandbox /\ after # <<>> /\ allPassed /\ clear /\ some
    BY <2>1, <2>2, <2>3, <2>8
  <2>9. CASE sandbox /\ after # <<>> /\ allPassed /\ clear /\ ~ some
    BY <2>1, <2>2, <2>3, <2>9
  <2> QED
    BY <2>5, <2>6, <2>7, <2>8, <2>9
<1> QED
  BY <1>1, <1>2, <1>10, Zenon DEF verifyExecReport, Names, RangesOf, PlacesOf, r

(* The second look asks for the version each package was moved to.         *)
LEMMA TargetIs ==
  ASSUME NEW deps, ExecPlan(deps, plan), OneRange(deps), NEW l \in DOMAIN plan
  PROVE  TargetOf(plan[l].name) = plan[l].target
<1> DEFINE name == plan[l].name
           n == Len(plan)
           last == CHOOSE k \in DOMAIN plan : plan[k].name = name
                                 /\ \A j \in DOMAIN plan : plan[j].name = name => j <= k
           T == {n - k : k \in {j \in 1 .. n : plan[j].name = name}}
<1>1. DOMAIN plan = 1 .. n /\ n \in Nat /\ l \in 1 .. n
  BY DEF ExecPlan
<1>2. \E k \in DOMAIN plan : plan[k].name = name /\ \A j \in DOMAIN plan : plan[j].name = name => j <= k
  <2> HIDE DEF n
  <2>1. T \subseteq Nat /\ n - l \in T
    BY <1>1
  <2>2. PICK x \in T : \A y \in T : x <= y
    <3> HIDE DEF T
    <3> QED
      BY <2>1, LeastNat
  <2>3. PICK k \in 1 .. n : plan[k].name = name /\ x = n - k
    OBVIOUS
  <2>4. ASSUME NEW j \in 1 .. n, plan[j].name = name PROVE j <= k
    <3>1. n - j \in T
      BY <2>4
    <3> HIDE DEF T
    <3>2. n - k <= n - j
      BY <2>2, <2>3, <3>1
    <3> QED
      BY <1>1, <3>2
  <2> QED
    BY <1>1, <2>3, <2>4
<1>3. last \in DOMAIN plan /\ plan[last].name = name
  <2> HIDE DEF name
  <2> QED
    BY <1>2
<1>4. TargetOf(name) = plan[last].target
  BY Zenon DEF TargetOf
<1> HIDE DEF last
<1>5. \A m \in 1 .. n : plan[m].name = plan[l].name => plan[m].target = plan[l].target
  BY <1>1 DEF ExecPlan
<1> QED
  BY <1>1, <1>3, <1>4, <1>5

(* When the second look finds nothing, no advisory that the job set out to *)
(* clear reaches a version it chose.                                       *)
LEMMA NothingLeft ==
  ASSUME NEW deps, ExecPlan(deps, plan), OneRange(deps), reScanCleared = {},
         NEW it \in Elements(plan), NEW a \in Known[it.name], a.id \in it.ids
  PROVE  ~ satisfies(it.target, a.range)
<1> SUFFICES ASSUME satisfies(it.target, a.range) PROVE FALSE
  OBVIOUS
<1> DEFINE v == TargetOf(it.name)
           Left(n) == {b \in getAdvisories(n, Chosen(n)) : satisfies(TargetOf(n), b.range)}
           left == UNION {Left(x.name) : x \in Elements(plan)}
<1>1. PICK l \in DOMAIN plan : it = plan[l]
  BY DEF Elements
<1>2. v = it.target
  BY <1>1, TargetIs
<1>3. it.target \in Chosen(it.name)
  BY DEF Chosen
<1>4. a \in Left(it.name)
  <2>1. a \in getAdvisories(it.name, Chosen(it.name))
    BY <1>3, Zenon DEF getAdvisories
  <2> QED
    BY <1>2, <2>1
<1>5. reScanCleared = {b.id : b \in left} \cap BeforeIds
  BY Zenon DEF reScanCleared
<1>6. a \in left
  <2> HIDE DEF Left
  <2> QED
    BY <1>4
<1>7. a.id \in BeforeIds
  BY <1>1 DEF BeforeIds
<1> HIDE DEF left
<1> QED
  BY <1>5, <1>6, <1>7

(* The checks that ran: the install came first.                            *)
Ran(rs) ==
  /\ rs \in Seq({rs[i] : i \in DOMAIN rs}) /\ Len(rs) >= 1 /\ rs[1].name = "install"
  /\ \A i \in DOMAIN rs : rs[i] = [name |-> rs[i].name, passed |-> rs[i].passed] /\ rs[i].passed \in BOOLEAN

LEMMA FirstRan ==
  ASSUME NEW ok \in BOOLEAN, NEW rs, rs = <<[name |-> "install", passed |-> ok]>>
  PROVE  Ran(rs)
<1>1. rs[1] = [name |-> "install", passed |-> ok] /\ DOMAIN rs = 1 .. 1 /\ Len(rs) = 1
  OBVIOUS
<1>2. \A i \in 1 .. 1 : i = 1
  OBVIOUS
<1>3. rs[1].name = "install" /\ rs[1].passed = ok
  BY <1>1
<1>4. rs \in Seq({rs[i] : i \in DOMAIN rs})
  <2>1. rs[1] \in {rs[i] : i \in DOMAIN rs}
    BY <1>1
  <2>2. rs = <<rs[1]>>
    BY <1>1
  <2> QED
    BY <2>1, <2>2
<1>5. \A i \in DOMAIN rs : rs[i] = [name |-> rs[i].name, passed |-> rs[i].passed] /\ rs[i].passed \in BOOLEAN
  <2>1. rs[1] = [name |-> rs[1].name, passed |-> rs[1].passed] /\ rs[1].passed \in BOOLEAN
    BY <1>1, <1>3
  <2> QED
    BY <1>1, <1>2, <2>1
<1> QED
  BY <1>1, <1>3, <1>4, <1>5 DEF Ran

LEMMA NextRan ==
  ASSUME NEW rs, Ran(rs), NEW name, NEW ok \in BOOLEAN, NEW more, more = Append(rs, [name |-> name, passed |-> ok])
  PROVE  Ran(more)
<1> DEFINE e == [name |-> name, passed |-> ok]
           n == Len(rs)
<1>1. rs \in Seq({rs[i] : i \in DOMAIN rs}) /\ n >= 1 /\ rs[1].name = "install"
  BY DEF Ran
<1>2. e = [name |-> e.name, passed |-> e.passed] /\ e.passed \in BOOLEAN
  OBVIOUS
<1> HIDE DEF e
<1>3. more = Append(rs, e)
  BY DEF e
<1>4. /\ DOMAIN more = 1 .. n + 1 /\ DOMAIN rs = 1 .. n /\ Len(more) = n + 1 /\ n \in Nat
      /\ (\A i \in 1 .. n : more[i] = rs[i]) /\ more[n + 1] = e
  BY <1>1, <1>3
<1>5. more \in Seq({more[i] : i \in DOMAIN more})
  <2> DEFINE M == {more[i] : i \in DOMAIN more}
  <2>1. \A i \in 1 .. n + 1 : more[i] \in M
    BY <1>4
  <2>2. e \in M /\ \A i \in 1 .. n : rs[i] \in M
    BY <1>4, <2>1
  <2> HIDE DEF M
  <2>3. rs \in Seq(M)
    BY <1>1, <1>4, <2>2
  <2>4. more \in Seq(M)
    BY <1>3, <2>2, <2>3
  <2> QED
    BY <2>4 DEF M
<1>6. \A i \in DOMAIN more : more[i] = [name |-> more[i].name, passed |-> more[i].passed] /\ more[i].passed \in BOOLEAN
  <2>1. \A i \in 1 .. n : rs[i] = [name |-> rs[i].name, passed |-> rs[i].passed] /\ rs[i].passed \in BOOLEAN
    BY <1>4 DEF Ran
  <2>2. \A i \in 1 .. n + 1 : i \in 1 .. n \/ i = n + 1
    BY <1>4
  <2> QED
    BY <1>2, <1>4, <2>1, <2>2
<1>7. Len(more) >= 1 /\ more[1].name = "install"
  BY <1>1, <1>4
<1> QED
  BY <1>5, <1>6, <1>7 DEF Ran

LEMMA GreenVerdict ==
  ASSUME NEW n, NEW checks, NEW cleared \in BOOLEAN, combineExecVerdict(TRUE, n, checks, cleared) = "upgraded-green"
  PROVE  /\ cleared /\ checks # <<>> /\ ~ \E i \in DOMAIN checks : ~ checks[i].passed
         /\ \E i \in DOMAIN checks : checks[i].name = "test"
<1> DEFINE some == \E i \in DOMAIN checks : checks[i].name = "test"
           red == \E i \in DOMAIN checks : ~ checks[i].passed
           none == checks = <<>>
           rest == IF none \/ red \/ ~ cleared THEN "upgrade-breaks-suite"
                   ELSE IF some THEN "upgraded-green" ELSE "upgraded-untested"
<1>1. combineExecVerdict(TRUE, n, checks, cleared) =
      CASE ~ TRUE -> "indeterminate" [] TRUE /\ n = 0 -> "no-advisories" [] OTHER -> rest
  BY Zenon DEF combineExecVerdict
<1> HIDE DEF some, red, none
<1>2. ~ none /\ ~ red /\ cleared /\ some
  BY <1>1
<1> QED
  BY <1>2 DEF some, red, none

LEMMA EmptyVerdicts ==
  /\ combineExecVerdict(FALSE, Len(<<>>), <<>>, FALSE) # "upgraded-green"
  /\ combineExecVerdict(TRUE, Len(<<>>), <<>>, TRUE) # "upgraded-green"
<1>1. Len(<<>>) = 0
  OBVIOUS
<1>2. combineExecVerdict(FALSE, 0, <<>>, FALSE) = "indeterminate"
  BY DEF combineExecVerdict
<1>3. combineExecVerdict(TRUE, 0, <<>>, TRUE) = "no-advisories"
  BY DEF combineExecVerdict
<1> QED
  BY <1>1, <1>2, <1>3

(* The reports that end a job before anything is installed.                *)
EmptyReport(sandbox) == Seal(sandbox, <<>>, job.repo.deps, <<>>, {}, sandbox)
LEMMA EmptyReportHolds ==
  ASSUME NEW sandbox \in BOOLEAN, NEW r, r = EmptyReport(sandbox)
  PROVE  verifyExecReport(r) /\ r.core.verdict # "upgraded-green"
<1>1. r = Seal(sandbox, <<>>, job.repo.deps, <<>>, {}, sandbox)
  BY Zenon DEF EmptyReport
<1>2. /\ \A i \in DOMAIN <<>> : Names(job.repo.deps, <<>>[i])
      /\ <<>> = <<>> /\ Len(<<>>) = 0
      /\ \A i \in DOMAIN <<>> : <<>>[i].passed \in BOOLEAN
  OBVIOUS
<1>3. verifyExecReport(r)
  BY <1>1, <1>2, SealVerifies
<1>4. r.core.verdict = combineExecVerdict(sandbox, Len(<<>>), <<>>, sandbox)
  BY <1>1, SealFields
<1>5. sandbox = TRUE \/ sandbox = FALSE
  OBVIOUS
<1> QED
  BY <1>3, <1>4, <1>5, EmptyVerdicts

(* The report of a job that went through.                                  *)
LEMMA FullReportHolds ==
  ASSUME NEW deps \in Seq(Declarations), ExecPlan(deps, plan), OneRange(deps), plan # <<>>,
         Follows(deps, plan, Len(plan), disk), Ran(results), NEW extended,
         NEW still, still = reScanCleared \cup extended, NEW r, r = Seal(TRUE, plan, disk, results, still, still = {})
  PROVE  /\ verifyExecReport(r)
         /\ r.core.verdict = "upgraded-green" =>
               /\ r.core.patch.after = disk
               /\ \A c \in {"install", "test"} : [name |-> c, passed |-> TRUE] \in Elements(results)
               /\ \A it \in Elements(plan) : \A a \in Known[it.name] : a.id \in it.ids => ~satisfies(it.target, a.range)
<1> DEFINE cleared == still = {}
<1>1. cleared \in BOOLEAN /\ (cleared => still = {}) /\ r = Seal(TRUE, plan, disk, results, still, cleared)
  OBVIOUS
<1> HIDE DEF cleared
<1>2. \A i \in DOMAIN plan : Names(disk, plan[i])
  BY PatchNames
<1>3. Len(plan) # 0
  <2>1. plan \in Seq(Elements(plan))
    BY DEF ExecPlan
  <2> QED
    BY <2>1
<1>4. 1 \in DOMAIN results /\ results[1].name = "install" /\ results # <<>>
  BY DEF Ran
<1>5. \A i \in DOMAIN results : results[i].passed \in BOOLEAN
  BY DEF Ran
<1>6. verifyExecReport(r)
  <2>1. TRUE \in BOOLEAN
    OBVIOUS
  <2>2. verifyExecReport(Seal(TRUE, plan, disk, results, still, cleared))
    BY <1>1, <1>2, <1>3, <1>4, <1>5, <2>1, SealVerifies
  <2> QED
    BY <1>1, <2>2
<1>7. ASSUME r.core.verdict = "upgraded-green"
      PROVE  /\ r.core.patch.after = disk
             /\ \A c \in {"install", "test"} : [name |-> c, passed |-> TRUE] \in Elements(results)
             /\ \A it \in Elements(plan) : \A a \in Known[it.name] : a.id \in it.ids => ~satisfies(it.target, a.range)
  <2> DEFINE on == TRUE
             s == Seal(on, plan, disk, results, still, cleared)
  <2>a. s = r
    BY <1>1
  <2> HIDE DEF on
  <2>b. s.core.patch.after = disk /\ s.core.verdict = combineExecVerdict(on, Len(plan), results, cleared)
    BY SealFields
  <2> HIDE DEF s
  <2>c. r.core.patch.after = disk /\ r.core.verdict = combineExecVerdict(on, Len(plan), results, cleared)
    BY <2>a, <2>b
  <2>1. r.core.patch.after = disk /\ r.core.verdict = combineExecVerdict(TRUE, Len(plan), results, cleared)
    BY <2>c DEF on
  <2>2. /\ cleared /\ (~ \E i \in DOMAIN results : ~ results[i].passed)
        /\ \E i \in DOMAIN results : results[i].name = "test"
    BY <1>1, <1>7, <2>1, GreenVerdict
  <2>3. ASSUME NEW i \in DOMAIN results PROVE [name |-> results[i].name, passed |-> TRUE] \in Elements(results)
    <3>1. results[i].passed
      BY <2>2, Zenon
    <3>2. results[i].passed = TRUE
      BY <1>5, <3>1
    <3>3. results[i] = [name |-> results[i].name, passed |-> TRUE]
      BY <3>2 DEF Ran
    <3> QED
      BY <3>3 DEF Elements
  <2>4. \A c \in {"install", "test"} : [name |-> c, passed |-> TRUE] \in Elements(results)
    BY <1>4, <2>2, <2>3
  <2>5. reScanCleared = {}
    BY <1>1, <2>2
  <2>6. \A it \in Elements(plan) : \A a \in Known[it.name] : a.id \in it.ids => ~satisfies(it.target, a.range)
    BY <2>5, NothingLeft
  <2> QED
    BY <2>1, <2>4, <2>6
<1> QED
  BY <1>6, <1>7

(* What holds between the steps of a job.                                  *)
AtWork == {"apply", "install", "checks", "rescan"}
ExecState ==
  /\ up.at \in AtWork => plan # <<>> /\ ExecPlan(job.repo.deps, plan)
  /\ up.at = "apply" => disk = job.repo.deps
  /\ up.at \in {"install", "checks", "rescan"} => Follows(job.repo.deps, plan, Len(plan), disk)
  /\ up.at \in {"checks", "rescan"} => Ran(results)
  /\ up.at \notin {"done", "thrown"} => sealed = {}
  /\ EveryReportVerifies /\ GreenIsProven
ReportInv ==
  /\ up.at = "rest" \/ job \in UpgradeJobs
  /\ up.at \in {"fetch", "available", "intel"} => disk = job.repo.deps
  /\ \A it \in Elements(plan) : GoodItem(it, intel)
  /\ job.kind = "execute" => ExecState

LEMMA NothingSealed == ASSUME sealed = {} PROVE EveryReportVerifies /\ GreenIsProven
BY DEF EveryReportVerifies, GreenIsProven

LEMMA NothingSealedNext == ASSUME sealed' = {} PROVE EveryReportVerifies' /\ GreenIsProven'
BY DEF EveryReportVerifies, GreenIsProven

LEMMA DepsTyped ==
  ASSUME ReportInv, up.at # "rest"
  PROVE  job.repo.deps \in Seq(Declarations) /\ \A i \in DOMAIN job.repo.deps : DeclForm(job.repo.deps[i])
<1>1. job.repo \in Repos
  BY UpgradeAssumption DEF ReportInv
<1>2. job.repo.deps \in Seq(Declarations)
  BY <1>1, UpgradeAssumption
<1>3. \A d \in Declarations : DeclForm(d)
  BY DEF Declarations, DeclForm
<1> QED
  BY <1>2, <1>3

LEMMA ReportStarts == UpgradeInit \/ RestUpgrade => ReportInv
<1> SUFFICES ASSUME UpgradeInit \/ RestUpgrade PROVE ReportInv
  OBVIOUS
<1>1. /\ plan = <<>> /\ sealed = {} /\ up.at \in {"fetch", "rest"}
      /\ up.at = "rest" => job.kind = "agent"
      /\ up.at = "fetch" => job \in UpgradeJobs /\ disk = job.repo.deps
  BY DEF UpgradeInit, RestUpgrade
<1>2. Elements(plan) = {}
  BY <1>1 DEF Elements
<1> QED
  BY <1>1, <1>2, NothingSealed DEF ReportInv, ExecState, AtWork

(* A step that leaves the job, the plan and what is sealed alone.          *)
LEMMA ReportQuiet ==
  ASSUME ReportInv, UNCHANGED <<job, intel, plan, sealed>>, up.at # "rest",
         up'.at \notin {"fetch", "available", "intel"} \/ (disk' = disk /\ up.at \in {"fetch", "available"}),
         job.kind = "execute" =>
            /\ sealed = {}
            /\ up'.at \in AtWork => up.at \in AtWork
            /\ up'.at # "apply"
            /\ up'.at \in {"install", "checks", "rescan"} => Follows(job.repo.deps, plan, Len(plan), disk')
            /\ up'.at \in {"checks", "rescan"} => Ran(results')
  PROVE  ReportInv'
<1>1. job.kind = "execute" => ExecState'
  <2> SUFFICES ASSUME job.kind = "execute" PROVE ExecState'
    OBVIOUS
  <2>1. EveryReportVerifies' /\ GreenIsProven' /\ sealed' = {}
    BY NothingSealedNext
  <2>2. up'.at \in AtWork => plan' # <<>> /\ ExecPlan(job.repo.deps, plan)'
    BY DEF ReportInv, ExecState
  <2>3. up'.at \in {"install", "checks", "rescan"} => Follows(job.repo.deps, plan, Len(plan), disk)'
    OBVIOUS
  <2> QED
    BY <2>1, <2>2, <2>3 DEF ExecState
<1>2. \A it \in Elements(plan') : GoodItem(it, intel')
  BY DEF ReportInv
<1>3. up'.at \in {"fetch", "available", "intel"} => disk' = job'.repo.deps
  BY DEF ReportInv
<1>4. job' \in UpgradeJobs
  BY DEF ReportInv
<1> QED
  BY <1>1, <1>2, <1>3, <1>4 DEF ReportInv

LEMMA FetchReports == ASSUME UpgradeInv, ReportInv, Fetch PROVE ReportInv'
<1>1. PICK at \in {"unfetched", "intel", "available"} : Goto(at)
  BY DEF Fetch
<1>2. up'.at = at
  BY <1>1, GotoIs
<1>3. up.at = "fetch" /\ UNCHANGED <<job, disk, intel, plan, results, sealed>>
  BY DEF Fetch
<1>4. job.kind = "execute" => sealed = {}
  BY <1>3 DEF ReportInv, ExecState
<1> QED
  BY <1>2, <1>3, <1>4, ReportQuiet DEF AtWork

LEMMA PlanReports == ASSUME UpgradeInv, ReportInv, Plan PROVE ReportInv'
<1>1. up.at = "intel" /\ UNCHANGED <<job, disk, results, sealed>> /\ job.kind \in {"agent", "execute"}
  BY DEF Plan, UpgradeInv
<1>2. disk = job.repo.deps /\ job.repo.deps \in Seq(Declarations) /\ job \in UpgradeJobs
  BY <1>1, DepsTyped DEF ReportInv
<1>3. job.kind = "execute" => sealed = {}
  BY <1>1 DEF ReportInv, ExecState
<1>4. CASE Ended("thrown") /\ UNCHANGED <<intel, plan>>
  <2>1. up'.at = "thrown"
    BY <1>4, EndedIs
  <2> QED
    BY <1>1, <1>3, <1>4, <2>1, ReportQuiet DEF AtWork
<1>5. CASE ~(Ended("thrown") /\ UNCHANGED <<intel, plan>>)
  <2> DEFINE its == PlanItems(disk, intel', job.nextMajor /\ job.kind = "agent")
             chosen == IF job.kind = "agent" THEN its ELSE {it \in its : it.kind = "security"}
  <2>1. PICK p \in buildPlan(chosen) :
           plan' = p /\ StartItems(IF p # <<>> THEN "apply" ELSE IF job.kind = "agent" THEN "done" ELSE "clean")
    BY <1>5, Zenon DEF Plan
  <2>2. up'.at = IF p # <<>> THEN "apply" ELSE IF job.kind = "agent" THEN "done" ELSE "clean"
    <3> DEFINE at == IF p # <<>> THEN "apply" ELSE IF job.kind = "agent" THEN "done" ELSE "clean"
    <3>1. StartItems(at)
      BY <2>1
    <3> HIDE DEF at
    <3>2. up'.at = at
      BY <3>1, StartItemsIs
    <3> QED
      BY <3>2 DEF at
  <2>3. IsFiniteSet(its) /\ chosen \in SUBSET its
    BY <1>2, PlanItemsFinite
  <2>4. \A it \in its : GoodItem(it, intel')
    BY <1>2, PlanItemsAre
  <2>5. job.kind # "agent" => p \in buildPlan({it \in its : it.kind = "security"})
    BY <2>1
  <2>6. job.kind = "execute" => ExecPlan(job.repo.deps, p)
    BY <1>2, <2>5, ExecPlanIs
  <2> HIDE DEF its, chosen
  <2>7. IsFiniteSet(chosen)
    BY <2>3, FS_Subset
  <2>8. Elements(p) = chosen
    BY <2>1, <2>3, <2>4, <2>7, PlanLists
  <2>9. \A it \in Elements(plan') : GoodItem(it, intel')
    BY <2>1, <2>3, <2>4, <2>8
  <2>10. job.kind = "execute" => ExecState'
    <3> SUFFICES ASSUME job.kind = "execute" PROVE ExecState'
      OBVIOUS
    <3>1. EveryReportVerifies' /\ GreenIsProven' /\ sealed' = {}
      BY <1>1, <1>3, NothingSealedNext
    <3>2. up'.at \in {"apply", "clean"} /\ (up'.at = "apply" => p # <<>>)
      BY <2>2
    <3>3. ExecPlan(job.repo.deps, plan)'
      BY <1>1, <2>1, <2>6
    <3> QED
      BY <1>1, <1>2, <2>1, <3>1, <3>2, <3>3 DEF ExecState, AtWork
  <2>11. up'.at \notin {"fetch", "available", "intel"}
    BY <2>2
  <2> QED
    BY <1>1, <1>2, <2>9, <2>10, <2>11 DEF ReportInv
<1> QED
  BY <1>4, <1>5

LEMMA AgentReports == ASSUME UpgradeInv, ReportInv, AgentApply \/ AgentVerify \/ AgentDeliver PROVE ReportInv'
<1>1. job.kind = "agent" /\ up.at \in {"apply", "verify", "deliver"} /\ UNCHANGED <<job, intel, plan>>
  BY DEF AgentApply, AgentVerify, AgentDeliver
<1>2. up'.at \notin {"fetch", "available", "intel"}
  <2>1. CASE AgentApply
    <3>1. Goto("verify")
      BY <2>1 DEF AgentApply
    <3> QED
      BY <3>1, GotoIs
  <2>2. CASE AgentVerify
    <3>0. PICK ok \in BOOLEAN : \E text : NextItem(text, ok)
      BY <2>2 DEF AgentVerify
    <3>1. PICK text : NextItem(text, ok)
      BY <3>0
    <3> DEFINE green == IF ok THEN up.green \cup {disk} ELSE up.green
               at == IF up.item < Len(plan) THEN "apply" ELSE "deliver"
    <3>2. up' = Moved(up, text, up.item + 1, green, at)
      BY <3>1, Zenon DEF NextItem, Moved
    <3>3. at \in {"apply", "deliver"}
      OBVIOUS
    <3> HIDE DEF at, green
    <3>4. up'.at = at
      BY <3>2, MovedIs DEF UpgradeInv
    <3> QED
      BY <3>3, <3>4
  <2>3. CASE AgentDeliver
    <3>1. PICK at \in {"done", "thrown"} : Goto(at)
      BY <2>3 DEF AgentDeliver
    <3> QED
      BY <3>1, GotoIs
  <2> QED
    BY <2>1, <2>2, <2>3
<1> QED
  BY <1>1, <1>2 DEF ReportInv

LEMMA ExecAvailableReports == ASSUME UpgradeInv, ReportInv, ExecAvailable PROVE ReportInv'
<1>1. job.kind = "execute" /\ up.at \in {"available", "clean"} /\ UNCHANGED <<job, disk, intel, plan, results>>
  BY DEF ExecAvailable
<1>2. sealed = {}
  BY <1>1 DEF ReportInv, ExecState
<1>3. CASE up.at = "available" /\ Goto("intel") /\ UNCHANGED sealed
  <2>1. up'.at = "intel"
    BY <1>3, GotoIs
  <2> QED
    BY <1>1, <1>2, <1>3, <2>1, ReportQuiet DEF AtWork
<1>4. CASE ~(up.at = "available" /\ Goto("intel") /\ UNCHANGED sealed)
  <2>1. \E sandbox \in BOOLEAN : sealed' = {EmptyReport(sandbox)} /\ Ended("done")
    <3>1. \/ sealed' = {Seal(FALSE, <<>>, job.repo.deps, <<>>, {}, FALSE)} /\ Ended("done")
          \/ sealed' = {Seal(TRUE, <<>>, job.repo.deps, <<>>, {}, TRUE)} /\ Ended("done")
      BY <1>4, Zenon DEF ExecAvailable
    <3>2. EmptyReport(FALSE) = Seal(FALSE, <<>>, job.repo.deps, <<>>, {}, FALSE)
      BY Zenon DEF EmptyReport
    <3>3. EmptyReport(TRUE) = Seal(TRUE, <<>>, job.repo.deps, <<>>, {}, TRUE)
      BY Zenon DEF EmptyReport
    <3>4. TRUE \in BOOLEAN /\ FALSE \in BOOLEAN
      OBVIOUS
    <3> QED
      BY <3>1, <3>2, <3>3, <3>4, Zenon
  <2>2. PICK sandbox \in BOOLEAN : sealed' = {EmptyReport(sandbox)} /\ Ended("done")
    BY <2>1
  <2>3. up'.at = "done"
    BY <2>2, EndedIs
  <2>4. \A r \in sealed' : verifyExecReport(r) /\ r.core.verdict # "upgraded-green"
    BY <2>2, EmptyReportHolds
  <2>5. EveryReportVerifies' /\ GreenIsProven'
    BY <2>4 DEF EveryReportVerifies, GreenIsProven
  <2>6. ExecState'
    BY <2>3, <2>5 DEF ExecState, AtWork
  <2> QED
    BY <1>1, <2>3, <2>6 DEF ReportInv
<1> QED
  BY <1>3, <1>4

LEMMA ExecWorkReports == ASSUME UpgradeInv, ReportInv, ExecApply \/ ExecInstall \/ ExecCheck PROVE ReportInv'
<1>1. /\ job.kind = "execute" /\ up.at \in {"apply", "install", "checks"} /\ UNCHANGED <<job, intel, plan, sealed>>
  BY DEF ExecApply, ExecInstall, ExecCheck
<1>2. sealed = {} /\ ExecPlan(job.repo.deps, plan) /\ ExecState
  BY <1>1 DEF ReportInv, ExecState, AtWork
<1>3. CASE ExecApply
  <2>1. up.at = "apply" /\ disk' = AppliedAll(disk, plan) /\ Goto("install")
    BY <1>3 DEF ExecApply
  <2>2. up'.at = "install"
    BY <2>1, GotoIs
  <2>3. disk = job.repo.deps
    BY <1>2, <2>1 DEF ExecState
  <2>4. Len(plan) \in Nat
    BY <1>2 DEF ExecPlan
  <2>5. \A i \in DOMAIN job.repo.deps : DeclForm(job.repo.deps[i])
    BY <1>1, DepsTyped
  <2>6. Follows(job.repo.deps, plan, Len(plan), disk')
    BY <2>1, <2>3, <2>4, <2>5, AppliedAllFollows
  <2> QED
    BY <1>1, <1>2, <2>1, <2>2, <2>6, ReportQuiet DEF AtWork
<1>4. CASE ExecInstall \/ ExecCheck
  <2>1. Follows(job.repo.deps, plan, Len(plan), disk) /\ disk' = disk
    BY <1>2, <1>4 DEF ExecInstall, ExecCheck, ExecState
  <2>2. (Ended("thrown") /\ UNCHANGED results) \/ (Ran(results') /\ (Goto("checks") \/ Goto("rescan")))
    <3>1. CASE ExecInstall
      <4>1. \/ Ended("thrown") /\ UNCHANGED results
            \/ \E ok \in BOOLEAN : /\ results' = <<[name |-> "install", passed |-> ok]>>
                                   /\ Goto("checks") \/ Goto("rescan")
        BY <3>1 DEF ExecInstall
      <4> QED
        BY <4>1, FirstRan
    <3>2. CASE ExecCheck
      <4>1. \/ Ended("thrown") /\ UNCHANGED results
            \/ \E ok \in BOOLEAN : /\ results' = Append(results, [name |-> Planned[Len(results)], passed |-> ok])
                                   /\ Goto("checks") \/ Goto("rescan")
        BY <3>2 DEF ExecCheck
      <4>2. Ran(results)
        BY <1>2, <3>2 DEF ExecCheck, ExecState
      <4> QED
        BY <4>1, <4>2, NextRan
    <3> QED
      BY <1>4, <3>1, <3>2
  <2>3. up'.at = "thrown" \/ (Ran(results') /\ up'.at \in {"checks", "rescan"})
    <3>1. Ended("thrown") => up'.at = "thrown"
      BY EndedIs
    <3>2. Goto("checks") => up'.at = "checks"
      BY GotoIs
    <3>3. Goto("rescan") => up'.at = "rescan"
      BY GotoIs
    <3> QED
      BY <2>2, <3>1, <3>2, <3>3
  <2> QED
    BY <1>1, <1>2, <2>1, <2>3, ReportQuiet DEF AtWork
<1> QED
  BY <1>3, <1>4

LEMMA ExecRescanReports == ASSUME UpgradeInv, ReportInv, ExecRescan PROVE ReportInv'
<1>1. /\ job.kind = "execute" /\ up.at = "rescan" /\ UNCHANGED <<job, disk, intel, plan, results>>
  BY DEF ExecRescan
<1>2. /\ sealed = {} /\ ExecPlan(job.repo.deps, plan) /\ plan # <<>> /\ Ran(results)
      /\ Follows(job.repo.deps, plan, Len(plan), disk)
  BY <1>1 DEF ReportInv, ExecState, AtWork
<1>3. CASE Ended("thrown") /\ UNCHANGED sealed
  <2>1. up'.at = "thrown"
    BY <1>3, EndedIs
  <2> QED
    BY <1>1, <1>2, <1>3, <2>1, ReportQuiet DEF AtWork
<1>4. CASE ~(Ended("thrown") /\ UNCHANGED sealed)
  <2>1. PICK extended \in SUBSET BeforeIds :
           LET still == reScanCleared \cup extended IN
           sealed' = {Seal(TRUE, plan, disk, results, still, still = {})} /\ Ended("done")
    BY <1>4, Zenon DEF ExecRescan
  <2> DEFINE still == reScanCleared \cup extended
             r == Seal(TRUE, plan, disk, results, still, still = {})
             earned == /\ r.core.patch.after = disk
                       /\ \A c \in {"install", "test"} : [name |-> c, passed |-> TRUE] \in Elements(results)
                       /\ \A it \in Elements(plan) : \A a \in Known[it.name] : a.id \in it.ids => ~satisfies(it.target, a.range)
  <2>2. sealed' = {r} /\ Ended("done")
    BY <2>1
  <2>3. up'.at = "done"
    BY <2>2, EndedIs
  <2>4. OneRange(job.repo.deps) => verifyExecReport(r) /\ (r.core.verdict = "upgraded-green" => earned)
    <3>1. job.repo.deps \in Seq(Declarations)
      BY <1>1, DepsTyped
    <3> HIDE DEF earned
    <3> SUFFICES ASSUME OneRange(job.repo.deps) PROVE verifyExecReport(r) /\ (r.core.verdict = "upgraded-green" => earned)
      OBVIOUS
    <3>2. still = reScanCleared \cup extended /\ r = Seal(TRUE, plan, disk, results, still, still = {})
      OBVIOUS
    <3> HIDE DEF r, still
    <3> QED
      BY <1>2, <3>1, <3>2, FullReportHolds DEF earned
  <2> HIDE DEF r, still
  <2>5. EveryReportVerifies'
    BY <1>1, <2>2, <2>4 DEF EveryReportVerifies
  <2>6. GreenIsProven'
    BY <1>1, <2>2, <2>4 DEF GreenIsProven
  <2>7. ExecState'
    BY <2>3, <2>5, <2>6 DEF ExecState, AtWork
  <2> QED
    BY <1>1, <2>3, <2>7 DEF ReportInv
<1> QED
  BY <1>3, <1>4

LEMMA ReportInvHolds == MCSpec => []ReportInv
<1>1. UpgradeInv /\ ReportInv /\ [UpgradeNext]_upgradeVars => ReportInv'
  <2>1. ASSUME ReportInv, UNCHANGED upgradeVars PROVE ReportInv'
    BY <2>1 DEF ReportInv, ExecState, EveryReportVerifies, GreenIsProven, upgradeVars
  <2> QED
    BY <2>1, FetchReports, PlanReports, AgentReports, ExecAvailableReports, ExecWorkReports, ExecRescanReports DEF UpgradeNext
<1> QED
  BY <1>1, UpgradePart, ReportStarts, UpgradeInvHolds, PTL

(* Whatever is planned, installed, red or listed anew in between: every    *)
(* item of a plan goes up, to a version nothing reported reaches and which *)
(* the range it writes admits; every report that is sealed verifies; green *)
(* means that the suite ran green on the manifest handed over and that     *)
(* nothing the job set out to clear reaches it; the agent commits what it  *)
(* tested; the ranges are npm's; and re-runs are judged by what they say.  *)
THEOREM UpgradesProven == MCSpec => []UpgradesAreProven
<1>1. UpgradeInv => CommittedWasTested /\ WorkspaceRemoved
  BY DEF UpgradeInv, AgentOK, CommittedWasTested, WorkspaceRemoved
<1>2. ReportInv => PlanGoesUp /\ PlanAvoidsReported
  BY DEF ReportInv, GoodItem, PlanGoesUp, PlanAvoidsReported
<1>3. ReportInv => EveryReportVerifies /\ GreenIsProven
  <2>1. job.kind # "execute" => EveryReportVerifies /\ GreenIsProven
    BY DEF EveryReportVerifies, GreenIsProven
  <2> QED
    BY <2>1 DEF ReportInv, ExecState
<1>4. UpgradeInv /\ ReportInv => UpgradesAreProven
  BY <1>1, <1>2, <1>3, RangesHold, ReRunsHold DEF UpgradesAreProven
<1> QED
  BY <1>4, UpgradeInvHolds, ReportInvHolds, PTL

-----------------------------------------------------------------------------
(* Ranks: in a finite set with a strict total order each place is taken by *)
(* one element, and who comes before has the smaller place.                *)

Lower(S, R, x) == {y \in S : <<y, x>> \in R}
StrictlyOrdered(S, R) ==
  /\ \A x \in S : <<x, x>> \notin R
  /\ \A x, y, z \in S : <<x, y>> \in R /\ <<y, z>> \in R => <<x, z>> \in R
  /\ \A x, y \in S : x # y => <<x, y>> \in R \/ <<y, x>> \in R

LEMMA PlacesGrow ==
  ASSUME NEW S, IsFiniteSet(S), NEW R, StrictlyOrdered(S, R), NEW x \in S, NEW y \in S, <<x, y>> \in R
  PROVE  /\ Cardinality(Lower(S, R, x)) \in Nat /\ Cardinality(Lower(S, R, y)) \in Nat
         /\ Cardinality(Lower(S, R, x)) < Cardinality(Lower(S, R, y))
<1> DEFINE P == Lower(S, R, x)
           Q == Lower(S, R, y)
<1>1. P \in SUBSET S /\ Q \in SUBSET S
  BY DEF Lower
<1>2. IsFiniteSet(P) /\ IsFiniteSet(Q)
  BY <1>1, FS_Subset
<1>3. Cardinality(P) \in Nat /\ Cardinality(Q) \in Nat
  BY <1>2, FS_CardinalityType
<1>4. P \in SUBSET Q /\ x \in Q /\ x \notin P
  BY DEF Lower, StrictlyOrdered
<1> HIDE DEF P, Q
<1>5. Cardinality(P) <= Cardinality(Q) /\ Cardinality(P) # Cardinality(Q)
  BY <1>2, <1>3, <1>4, FS_Subset
<1> QED
  BY <1>3, <1>5 DEF P, Q

LEMMA PlaceTaken ==
  ASSUME NEW S, IsFiniteSet(S), NEW R, StrictlyOrdered(S, R)
  PROVE  /\ Cardinality(S) \in Nat
         /\ \A x \in S : Cardinality(Lower(S, R, x)) \in 0 .. Cardinality(S) - 1
         /\ \A k \in 0 .. Cardinality(S) - 1 : \E x \in S : Cardinality(Lower(S, R, x)) = k
         /\ \A x, y \in S : Cardinality(Lower(S, R, x)) = Cardinality(Lower(S, R, y)) => x = y
<1> DEFINE n == Cardinality(S)
           f == [x \in S |-> Cardinality(Lower(S, R, x))]
<1>1. n \in Nat
  BY FS_CardinalityType
<1>2. ASSUME NEW x \in S PROVE Cardinality(Lower(S, R, x)) \in 0 .. n - 1
  <2>1. Lower(S, R, x) \in SUBSET (S \ {x})
    BY DEF Lower, StrictlyOrdered
  <2>2. IsFiniteSet(S \ {x}) /\ Cardinality(S \ {x}) = n - 1
    BY FS_RemoveElement
  <2>3. IsFiniteSet(Lower(S, R, x)) /\ Cardinality(Lower(S, R, x)) <= n - 1
    BY <2>1, <2>2, FS_Subset
  <2>4. Cardinality(Lower(S, R, x)) \in Nat
    BY <2>3, FS_CardinalityType
  <2> HIDE DEF n
  <2> QED
    BY <1>1, <2>3, <2>4
<1>3. ASSUME NEW x \in S, NEW y \in S, Cardinality(Lower(S, R, x)) = Cardinality(Lower(S, R, y)) PROVE x = y
  <2>1. CASE <<x, y>> \in R
    BY <1>3, <2>1, PlacesGrow
  <2>2. CASE <<y, x>> \in R
    BY <1>3, <2>2, PlacesGrow
  <2> QED
    BY <2>1, <2>2 DEF StrictlyOrdered
<1>4. f \in Injection(S, 0 .. n - 1)
  <2>1. f \in [S -> 0 .. n - 1]
    BY <1>2
  <2>2. \A x, y \in S : f[x] = f[y] => x = y
    BY <1>3
  <2> HIDE DEF f
  <2> QED
    BY <2>1, <2>2 DEF Injection, IsInjective
<1>5. IsFiniteSet(0 .. n - 1) /\ Cardinality(0 .. n - 1) = n
  <2> HIDE DEF n
  <2> QED
    BY <1>1, FS_Interval
<1>6. f \in Surjection(S, 0 .. n - 1)
  <2> HIDE DEF f
  <2> QED
    BY <1>4, <1>5, FS_Injection
<1>7. \A k \in 0 .. n - 1 : \E x \in S : f[x] = k
  <2> HIDE DEF f, n
  <2> QED
    BY <1>6 DEF Surjection
<1> QED
  BY <1>1, <1>2, <1>3, <1>7
(* Jaro-Winkler: which characters are matched.  A pair of equal characters *)
(* within the window is matched exactly when neither of them is matched    *)
(* with an earlier one.  That does not tell the two strings apart, and     *)
(* there is one such set of pairs, so that the matching from the left of   *)
(* either is the mirror image of the other's.                              *)

Near(s, t, w) ==
  {e \in (1 .. Len(s)) \X (1 .. Len(t)) : e[2] >= e[1] - w /\ e[2] <= e[1] + w /\ s[e[1]] = t[e[2]]}
Greedy(E, G) ==
  G = {e \in E : /\ \A f \in G : f[2] = e[2] => e[1] <= f[1]
                 /\ \A f \in G : f[1] = e[1] => e[2] <= f[2]}
Mirror(G) == {<<e[2], e[1]>> : e \in G}

LEMMA GreedyIsOne ==
  ASSUME NEW E \in SUBSET (Nat \X Nat), NEW G, NEW H, Greedy(E, G), Greedy(E, H)
  PROVE  G = H
<1> DEFINE D == (G \ H) \cup (H \ G)
           T == {e[1] + e[2] : e \in D}
<1>1. G \in SUBSET E /\ H \in SUBSET E
  BY DEF Greedy
<1>2. \A e \in D : e[1] \in Nat /\ e[2] \in Nat /\ e[1] + e[2] \in Nat
  BY <1>1
<1>3. ASSUME D # {} PROVE FALSE
  <2>1. T # {} /\ T \subseteq Nat
    BY <1>2, <1>3
  <2>2. PICK x \in T : \A y \in T : x <= y
    <3> HIDE DEF T
    <3> QED
      BY <2>1, LeastNat
  <2>3. PICK e \in D : x = e[1] + e[2]
    OBVIOUS
  <2>4. \A f \in E : f[1] + f[2] < x => (f \in G <=> f \in H)
    <3>1. \A f \in E : f[1] \in Nat /\ f[2] \in Nat
      OBVIOUS
    <3>2. \A f \in D : x <= f[1] + f[2]
      BY <2>2
    <3>3. x \in Nat
      BY <2>1, <2>2
    <3> QED
      BY <3>1, <3>2, <3>3
  <2>5. ASSUME NEW P, NEW Q, Greedy(E, P), Greedy(E, Q), e \in P, e \notin Q,
               \A f \in E : f[1] + f[2] < x => (f \in P <=> f \in Q)
        PROVE  FALSE
    <3>1. P \in SUBSET E /\ Q \in SUBSET E /\ e \in E
      BY <2>5 DEF Greedy
    <3>2. PICK f \in Q : (f[2] = e[2] /\ ~(e[1] <= f[1])) \/ (f[1] = e[1] /\ ~(e[2] <= f[2]))
      BY <2>5, <3>1 DEF Greedy
    <3>3. f \in E /\ f[1] \in Nat /\ f[2] \in Nat /\ e[1] \in Nat /\ e[2] \in Nat
      BY <3>1
    <3>4. f[1] + f[2] < x
      BY <2>3, <3>2, <3>3
    <3>5. f \in P
      BY <2>5, <3>3, <3>4
    <3>6. (\A g \in P : g[2] = e[2] => e[1] <= g[1]) /\ (\A g \in P : g[1] = e[1] => e[2] <= g[2])
      BY <2>5, Zenon DEF Greedy
    <3> QED
      BY <3>2, <3>5, <3>6
  <2> HIDE DEF T
  <2>6. CASE e \in G /\ e \notin H
    BY <2>4, <2>5, <2>6
  <2>7. CASE e \in H /\ e \notin G
    BY <2>4, <2>5, <2>7
  <2> QED
    BY <2>6, <2>7
<1> QED
  BY <1>3

LEMMA MirrorIsGreedy ==
  ASSUME NEW E \in SUBSET (Nat \X Nat), NEW G, Greedy(E, G)
  PROVE  Greedy(Mirror(E), Mirror(G))
<1>1. G \in SUBSET E
  BY DEF Greedy
<1>2. \A e \in E : e = <<e[1], e[2]>> /\ e[1] \in Nat /\ e[2] \in Nat
  OBVIOUS
<1>3. \A a, b \in Nat : <<b, a>> \in Mirror(E) <=> <<a, b>> \in E
  <2> TAKE a, b \in Nat
  <2>1. <<a, b>> \in E => <<b, a>> \in Mirror(E)
    BY DEF Mirror
  <2>2. ASSUME <<b, a>> \in Mirror(E) PROVE <<a, b>> \in E
    <3>1. PICK e \in E : <<b, a>> = <<e[2], e[1]>>
      BY <2>2 DEF Mirror
    <3> QED
      BY <1>2, <3>1
  <2> QED
    BY <2>1, <2>2
<1>4. \A a, b \in Nat : <<b, a>> \in Mirror(G) <=> <<a, b>> \in G
  <2> TAKE a, b \in Nat
  <2>1. <<a, b>> \in G => <<b, a>> \in Mirror(G)
    BY DEF Mirror
  <2>2. ASSUME <<b, a>> \in Mirror(G) PROVE <<a, b>> \in G
    <3>1. PICK e \in G : <<b, a>> = <<e[2], e[1]>>
      BY <2>2 DEF Mirror
    <3> QED
      BY <1>1, <1>2, <3>1
  <2> QED
    BY <2>1, <2>2
<1>5. \A x \in Mirror(E) : \E a, b \in Nat : x = <<b, a>>
  BY <1>2 DEF Mirror
<1>6. Mirror(G) \in SUBSET Mirror(E)
  BY <1>1 DEF Mirror
<1>7. ASSUME NEW a \in Nat, NEW b \in Nat, <<a, b>> \in E
      PROVE  <<a, b>> \in G <=> /\ \A f \in Mirror(G) : f[2] = a => b <= f[1]
                                /\ \A f \in Mirror(G) : f[1] = b => a <= f[2]
  <2>1. <<a, b>> \in G <=> /\ \A f \in G : f[2] = b => a <= f[1]
                           /\ \A f \in G : f[1] = a => b <= f[2]
    <3> DEFINE e == <<a, b>>
    <3>1. e \in G <=> /\ \A f \in G : f[2] = e[2] => e[1] <= f[1]
                      /\ \A f \in G : f[1] = e[1] => e[2] <= f[2]
      BY <1>7, Zenon DEF Greedy
    <3> QED
      BY <3>1
  <2>2. (\A f \in Mirror(G) : \E g \in G : f[1] = g[2] /\ f[2] = g[1])
        /\ \A g \in G : \E f \in Mirror(G) : f[1] = g[2] /\ f[2] = g[1]
    <3>1. \A g \in G : <<g[2], g[1]>> \in Mirror(G)
      BY DEF Mirror
    <3>2. ASSUME NEW f \in Mirror(G) PROVE \E g \in G : f[1] = g[2] /\ f[2] = g[1]
      BY DEF Mirror
    <3> QED
      BY <3>1, <3>2
  <2>3. (\A f \in G : f[2] = b => a <= f[1]) <=> \A f \in Mirror(G) : f[1] = b => a <= f[2]
    BY <2>2
  <2>4. (\A f \in G : f[1] = a => b <= f[2]) <=> \A f \in Mirror(G) : f[2] = a => b <= f[1]
    BY <2>2
  <2> QED
    BY <2>1, <2>3, <2>4
<1>8. ASSUME NEW x \in Mirror(E)
      PROVE  x \in Mirror(G) <=> /\ \A f \in Mirror(G) : f[2] = x[2] => x[1] <= f[1]
                                 /\ \A f \in Mirror(G) : f[1] = x[1] => x[2] <= f[2]
  <2>1. PICK a, b \in Nat : x = <<b, a>>
    BY <1>5
  <2>2. <<a, b>> \in E /\ x[1] = b /\ x[2] = a
    BY <1>3, <2>1
  <2>3. x \in Mirror(G) <=> <<a, b>> \in G
    BY <1>4, <2>1
  <2> QED
    BY <1>7, <2>2, <2>3
<1> QED
  BY <1>6, <1>8 DEF Greedy
NearUpTo(s, t, w, k) == {e \in Near(s, t, w) : e[1] <= k}

LEMMA TakeFirstGreedy ==
  ASSUME NEW s, NEW t, NEW w, Len(s) \in Nat, Len(t) \in Nat, NEW k \in 1 .. Len(s), NEW G,
         Greedy(NearUpTo(s, t, w, k - 1), G)
  PROVE  Greedy(NearUpTo(s, t, w, k), TakeFirst(s, t, w, k, G))
<1> DEFINE free == {j \in 1 .. Len(t) : j >= k - w /\ j <= k + w /\ s[k] = t[j] /\ \A p \in G : p[2] # j}
           first == {x \in free : \A y \in free : x <= y}
           H == G \cup {<<k, j>> : j \in first}
           E == NearUpTo(s, t, w, k)
           F == NearUpTo(s, t, w, k - 1)
<1>1. k \in Nat /\ 1 <= k
  OBVIOUS
<1>2. TakeFirst(s, t, w, k, G) = H
  BY Zenon DEF TakeFirst
<1>3. \A e \in Near(s, t, w) : e = <<e[1], e[2]>> /\ e[1] \in 1 .. Len(s) /\ e[2] \in 1 .. Len(t)
  BY DEF Near
<1>4. G \in SUBSET F /\ F \in SUBSET E /\ E \in SUBSET Near(s, t, w)
  <2>1. G \in SUBSET F
    BY DEF Greedy
  <2>2. F \in SUBSET E
    BY <1>1, <1>3 DEF NearUpTo
  <2> QED
    BY <2>1, <2>2 DEF NearUpTo
<1>5. \A e \in E : e \in F <=> e[1] # k
  BY <1>1, <1>3 DEF NearUpTo
<1>6. \A f \in G : f[1] < k /\ f[1] \in Nat /\ f[2] \in Nat
  BY <1>1, <1>3, <1>4 DEF NearUpTo
<1>7. \A j \in free : j \in Nat /\ <<k, j>> \in E
  BY <1>1 DEF NearUpTo, Near
<1>8. \A e \in E : e[1] = k => e = <<k, e[2]>> /\ (e[2] \in free <=> \A p \in G : p[2] # e[2])
  <2>1. \A e \in E : e[1] = k => e = <<k, e[2]>> /\ e[2] \in 1 .. Len(t) /\ e[2] >= k - w /\ e[2] <= k + w /\ s[k] = t[e[2]]
    BY DEF NearUpTo, Near
  <2> QED
    BY <2>1
<1>9. ASSUME free # {} PROVE \E x \in first : TRUE
  <2>1. free \subseteq Nat
    BY <1>7
  <2> HIDE DEF free
  <2> QED
    BY <1>9, <2>1, LeastNat
<1>10. H \in SUBSET E
  <2>1. \A j \in first : <<k, j>> \in E
    BY <1>7
  <2> HIDE DEF first, free, E, F
  <2> QED
    BY <1>4, <2>1
<1>11. first \in SUBSET free /\ \A x \in first : \A y \in free : x <= y
  OBVIOUS
<1>12. \A x \in free : (\A y \in free : x <= y) => x \in first
  OBVIOUS
<1>13. \A f \in H : f \in G \/ \E j \in first : f = <<k, j>>
  OBVIOUS
<1>14. (\A f \in G : f \in H) /\ \A j \in first : <<k, j>> \in H
  OBVIOUS
<1> HIDE DEF free, first, H, E, F
<1>15. ASSUME NEW e \in E, e[1] # k
       PROVE  e \in H <=> /\ \A f \in H : f[2] = e[2] => e[1] <= f[1]
                          /\ \A f \in H : f[1] = e[1] => e[2] <= f[2]
  <2>1. e \in F /\ e[1] \in Nat /\ e[1] < k
    BY <1>3, <1>4, <1>5, <1>15, <1>1 DEF E, NearUpTo
  <2>2. e \in H <=> e \in G
    BY <1>13, <1>14, <1>15
  <2>3. e \in G <=> /\ \A f \in G : f[2] = e[2] => e[1] <= f[1]
                    /\ \A f \in G : f[1] = e[1] => e[2] <= f[2]
    BY <2>1, Zenon DEF Greedy, F
  <2>4. \A f \in H : f \in G \/ f[1] = k
    BY <1>13
  <2> QED
    BY <1>14, <1>15, <1>1, <2>1, <2>2, <2>3, <2>4
<1>16. ASSUME NEW e \in E, e[1] = k
       PROVE  e \in H <=> /\ \A f \in H : f[2] = e[2] => e[1] <= f[1]
                          /\ \A f \in H : f[1] = e[1] => e[2] <= f[2]
  <2>1. e = <<k, e[2]>> /\ e[2] \in Nat
    BY <1>3, <1>4, <1>8, <1>16
  <2>2. e \in H <=> e[2] \in first
    BY <1>6, <1>13, <1>14, <1>16, <2>1
  <2>3. (\A f \in H : f[2] = e[2] => k <= f[1]) <=> \A f \in G : f[2] # e[2]
    <3>1. \A f \in H : f \in G \/ f[1] = k
      BY <1>13
    <3>2. \A f \in G : f \in H /\ ~(k <= f[1])
      BY <1>1, <1>6, <1>14
    <3> QED
      BY <1>1, <3>1, <3>2
  <2>4. (\A f \in H : f[1] = k => e[2] <= f[2]) <=> \A j \in first : e[2] <= j
    <3>1. ASSUME \A f \in H : f[1] = k => e[2] <= f[2], NEW j \in first PROVE e[2] <= j
      <4>1. <<k, j>> \in H /\ <<k, j>>[1] = k /\ <<k, j>>[2] = j
        BY <1>14
      <4> QED
        BY <3>1, <4>1
    <3>2. ASSUME \A j \in first : e[2] <= j, NEW f \in H, f[1] = k PROVE e[2] <= f[2]
      <4>1. PICK j \in first : f = <<k, j>>
        BY <1>1, <1>6, <1>13, <3>2
      <4> QED
        BY <3>2, <4>1
    <3> QED
      BY <3>1, <3>2
  <2>5. ASSUME e[2] \in first PROVE (\A f \in G : f[2] # e[2]) /\ \A j \in first : e[2] <= j
    BY <1>8, <1>11, <1>16, <2>5
  <2>6. ASSUME \A f \in G : f[2] # e[2], \A j \in first : e[2] <= j PROVE e[2] \in first
    <3>1. e[2] \in free
      BY <1>8, <1>16, <2>6
    <3>2. PICK x \in first : TRUE
      BY <1>9, <3>1
    <3>3. x <= e[2] /\ e[2] <= x /\ x \in Nat
      BY <1>7, <1>11, <2>6, <3>1, <3>2
    <3> QED
      BY <2>1, <3>2, <3>3
  <2> QED
    BY <1>16, <2>2, <2>3, <2>4, <2>5, <2>6
<1>17. Greedy(E, H)
  BY <1>10, <1>15, <1>16 DEF Greedy
<1> QED
  BY <1>2, <1>17 DEF E

PairRun(s, t, w, g, n) == g = [i \in 0 .. n |-> IF i = 0 THEN {} ELSE TakeFirst(s, t, w, i, g[i - 1])]

LEMMA PairRunExists ==
  ASSUME NEW s, NEW t, NEW w, NEW n \in Nat
  PROVE  \E g : PairRun(s, t, w, g, n)
<1> DEFINE T == {k \in Nat : ~ \E g : PairRun(s, t, w, g, k)}
<1>1. ASSUME T # {} PROVE FALSE
  <2>1. PICK k \in T : \A j \in T : k <= j
    <3>1. T \subseteq Nat
      OBVIOUS
    <3> HIDE DEF T
    <3> QED
      BY <1>1, <3>1, LeastNat
  <2>2. k \in Nat /\ ~ \E g : PairRun(s, t, w, g, k)
    OBVIOUS
  <2>3. CASE k = 0
    <3> DEFINE h == [j \in 0 .. 0 |-> {}]
    <3>1. h = [i \in 0 .. 0 |-> IF i = 0 THEN {} ELSE TakeFirst(s, t, w, i, h[i - 1])]
      <4>1. \A i \in 0 .. 0 : i = 0
        OBVIOUS
      <4> QED
        BY <4>1
    <3>2. PairRun(s, t, w, h, 0)
      BY <3>1, Zenon DEF PairRun
    <3> HIDE DEF h
    <3> QED
      BY <2>2, <2>3, <3>2
  <2>4. CASE k # 0
    <3>1. k - 1 \in Nat /\ k - 1 \notin T
      BY <2>1, <2>2, <2>4
    <3>2. PICK g : PairRun(s, t, w, g, k - 1)
      BY <3>1
    <3> DEFINE h == [j \in 0 .. k |-> IF j = k THEN TakeFirst(s, t, w, k, g[k - 1]) ELSE g[j]]
               StepOf(f, j) == IF j = 0 THEN {} ELSE TakeFirst(s, t, w, j, f[j - 1])
    <3>3. \A j \in 0 .. k - 1 : g[j] = StepOf(g, j)
      BY <3>2, Zenon DEF PairRun
    <3>4. ASSUME NEW j \in 0 .. k PROVE h[j] = StepOf(h, j)
      <4>1. CASE j = k
        <5>1. k - 1 \in 0 .. k /\ k - 1 # k
          BY <2>2, <2>4
        <5>2. h[k - 1] = g[k - 1] /\ h[k] = TakeFirst(s, t, w, k, g[k - 1])
          BY <2>2, <5>1
        <5> HIDE DEF h
        <5> QED
          BY <2>4, <4>1, <5>2
      <4>2. CASE j # k
        <5>1. j \in 0 .. k - 1 /\ (j # 0 => j - 1 \in 0 .. k /\ j - 1 # k)
          BY <2>2, <4>2
        <5>2. g[j] = StepOf(g, j)
          BY <3>3, <5>1
        <5>3. h[j] = g[j] /\ (j # 0 => h[j - 1] = g[j - 1])
          BY <4>2, <5>1
        <5> HIDE DEF h
        <5> QED
          BY <5>2, <5>3
      <4> QED
        BY <4>1, <4>2
    <3>5. h = [j \in 0 .. k |-> h[j]]
      OBVIOUS
    <3> HIDE DEF h
    <3>6. h = [j \in 0 .. k |-> StepOf(h, j)]
      <4> HIDE DEF StepOf
      <4> QED
        BY <3>4, <3>5
    <3>7. PairRun(s, t, w, h, k)
      BY <3>6, Zenon DEF PairRun
    <3> QED
      BY <2>2, <3>7
  <2> QED
    BY <2>3, <2>4
<1> QED
  BY <1>1

LEMMA PairsAreGreedy ==
  ASSUME NEW s, NEW t, NEW w, Len(s) \in Nat, Len(t) \in Nat
  PROVE  Greedy(Near(s, t, w), Pairs(s, t, w))
<1> DEFINE n == Len(s)
           g == CHOOSE g : PairRun(s, t, w, g, n)
           T == {k \in 0 .. n : ~ Greedy(NearUpTo(s, t, w, k), g[k])}
<1>1. PairRun(s, t, w, g, n)
  BY PairRunExists
<1>2. g = CHOOSE h : h = [i \in 0 .. n |-> IF i = 0 THEN {} ELSE TakeFirst(s, t, w, i, h[i - 1])]
  BY Zenon DEF PairRun
<1>3. Pairs(s, t, w) = g[n]
  BY <1>2, Zenon DEF Pairs
<1> HIDE DEF g
<1>4. \A k \in 0 .. n : g[k] = IF k = 0 THEN {} ELSE TakeFirst(s, t, w, k, g[k - 1])
  BY <1>1, Zenon DEF PairRun
<1>5. ASSUME T # {} PROVE FALSE
  <2>1. PICK k \in T : \A j \in T : k <= j
    <3>1. T \subseteq Nat
      OBVIOUS
    <3> HIDE DEF T
    <3> QED
      BY <1>5, <3>1, LeastNat
  <2>2. k \in 0 .. n /\ k \in Nat /\ ~ Greedy(NearUpTo(s, t, w, k), g[k])
    OBVIOUS
  <2>3. CASE k = 0
    <3>1. g[0] = {}
      BY <1>4, <2>2, <2>3
    <3>2. NearUpTo(s, t, w, 0) = {}
      BY DEF NearUpTo, Near
    <3> QED
      BY <2>2, <2>3, <3>1, <3>2 DEF Greedy
  <2>4. CASE k # 0
    <3>1. k - 1 \in 0 .. n /\ k - 1 \notin T
      BY <2>1, <2>2, <2>4
    <3>2. Greedy(NearUpTo(s, t, w, k - 1), g[k - 1])
      BY <3>1
    <3>3. g[k] = TakeFirst(s, t, w, k, g[k - 1])
      BY <1>4, <2>2, <2>4
    <3>4. k \in 1 .. Len(s)
      BY <2>2, <2>4
    <3> QED
      BY <2>2, <3>2, <3>3, <3>4, TakeFirstGreedy
  <2> QED
    BY <2>3, <2>4
<1>6. n \in 0 .. n /\ n \notin T
  <2> HIDE DEF T
  <2> QED
    BY <1>5
<1>7. Greedy(NearUpTo(s, t, w, n), g[n])
  BY <1>6
<1>8. NearUpTo(s, t, w, n) = Near(s, t, w)
  BY DEF NearUpTo, Near
<1> QED
  BY <1>3, <1>7, <1>8
(* What is matched is matched once on either side.                         *)
Firsts(G)  == {p[1] : p \in G}
Seconds(G) == {p[2] : p \in G}

LEMMA PairsAreOneToOne ==
  ASSUME NEW s, NEW t, NEW w, Len(s) \in Nat, Len(t) \in Nat, NEW G, Greedy(Near(s, t, w), G)
  PROVE  /\ Cardinality(G) \in Nat /\ IsFiniteSet(G)
         /\ Firsts(G) \in SUBSET (1 .. Len(s)) /\ Seconds(G) \in SUBSET (1 .. Len(t))
         /\ Cardinality(Firsts(G)) = Cardinality(G) /\ Cardinality(Seconds(G)) = Cardinality(G)
<1>1. G \in SUBSET ((1 .. Len(s)) \X (1 .. Len(t)))
  BY DEF Greedy, Near
<1>2. IsFiniteSet((1 .. Len(s)) \X (1 .. Len(t)))
  <2>1. IsFiniteSet(1 .. Len(s)) /\ IsFiniteSet(1 .. Len(t))
    BY FS_Interval
  <2> QED
    BY <2>1, FS_Product
<1>3. IsFiniteSet(G) /\ Cardinality(G) \in Nat
  BY <1>1, <1>2, FS_Subset, FS_CardinalityType
<1>4. \A e, f \in G : e[1] = f[1] \/ e[2] = f[2] => e = f
  <2> TAKE e, f \in G
  <2>1. \A x, y \in G : (y[2] = x[2] => x[1] <= y[1]) /\ (y[1] = x[1] => x[2] <= y[2])
    BY DEF Greedy
  <2>2. e = <<e[1], e[2]>> /\ f = <<f[1], f[2]>> /\ e[1] \in Nat /\ e[2] \in Nat /\ f[1] \in Nat /\ f[2] \in Nat
    BY <1>1
  <2>3. (e[1] = f[1] => e[2] = f[2]) /\ (e[2] = f[2] => e[1] = f[1])
    BY <2>1, <2>2
  <2> QED
    BY <2>2, <2>3
<1>5. Firsts(G) \in SUBSET (1 .. Len(s)) /\ Seconds(G) \in SUBSET (1 .. Len(t))
  BY <1>1 DEF Firsts, Seconds
<1>6. Cardinality(Firsts(G)) = Cardinality(G)
  <2> DEFINE f == [p \in G |-> p[1]]
  <2>1. f \in Surjection(G, Firsts(G))
    BY DEF Surjection, Firsts
  <2>2. f \in Injection(G, Firsts(G))
    BY <1>4 DEF Injection, IsInjective, Firsts
  <2> HIDE DEF f
  <2> QED
    BY <1>3, <2>1, <2>2, FS_Surjection
<1>7. Cardinality(Seconds(G)) = Cardinality(G)
  <2> DEFINE f == [p \in G |-> p[2]]
  <2>1. f \in Surjection(G, Seconds(G))
    BY DEF Surjection, Seconds
  <2>2. f \in Injection(G, Seconds(G))
    BY <1>4 DEF Injection, IsInjective, Seconds
  <2> HIDE DEF f
  <2> QED
    BY <1>3, <2>1, <2>2, FS_Surjection
<1> QED
  BY <1>3, <1>5, <1>6, <1>7

LEMMA NthOfAll ==
  ASSUME NEW n \in Nat, NEW k \in 1 .. n
  PROVE  Nth(1 .. n, k) = k
<1>1. ASSUME NEW i \in 1 .. n PROVE Cardinality({j \in 1 .. n : j < i}) = i - 1
  <2>1. {j \in 1 .. n : j < i} = 1 .. i - 1
    OBVIOUS
  <2>2. Cardinality(1 .. i - 1) = i - 1
    <3>1. 1 \in Int /\ i - 1 \in Int
      OBVIOUS
    <3>2. Cardinality(1 .. i - 1) = IF 1 > i - 1 THEN 0 ELSE i - 1 - 1 + 1
      BY <3>1, FS_Interval
    <3> QED
      BY <3>2
  <2> QED
    BY <2>1, <2>2
<1>2. \A i \in 1 .. n : Cardinality({j \in 1 .. n : j < i}) = k - 1 <=> i = k
  BY <1>1
<1> DEFINE i0 == CHOOSE i \in 1 .. n : Cardinality({j \in 1 .. n : j < i}) = k - 1
<1>3. i0 \in 1 .. n /\ Cardinality({j \in 1 .. n : j < i0}) = k - 1
  BY <1>2
<1>4. Nth(1 .. n, k) = i0
  BY DEF Nth
<1> HIDE DEF i0
<1> QED
  BY <1>2, <1>3, <1>4

LEMMA MirrorsPairs ==
  ASSUME NEW s, NEW t, NEW w \in Int, Len(s) \in Nat, Len(t) \in Nat
  PROVE  /\ Firsts(Pairs(t, s, w)) = Seconds(Pairs(s, t, w))
         /\ Seconds(Pairs(t, s, w)) = Firsts(Pairs(s, t, w))
<1> DEFINE G == Pairs(s, t, w)
<1>1. Greedy(Near(s, t, w), G)
  BY PairsAreGreedy
<1>2. Near(s, t, w) \in SUBSET (Nat \X Nat) /\ Near(t, s, w) \in SUBSET (Nat \X Nat)
  BY DEF Near
<1>3. Near(t, s, w) = Mirror(Near(s, t, w))
  <2>1. ASSUME NEW e \in Near(t, s, w) PROVE e \in Mirror(Near(s, t, w))
    <3>1. e = <<e[1], e[2]>> /\ <<e[2], e[1]>> \in Near(s, t, w)
      BY DEF Near
    <3> QED
      BY <3>1 DEF Mirror
  <2>2. ASSUME NEW e \in Near(s, t, w) PROVE <<e[2], e[1]>> \in Near(t, s, w)
    BY DEF Near
  <2> QED
    BY <2>1, <2>2 DEF Mirror
<1> HIDE DEF G
<1>4. Greedy(Near(t, s, w), Mirror(G))
  BY <1>1, <1>2, <1>3, MirrorIsGreedy
<1>5. Greedy(Near(t, s, w), Pairs(t, s, w))
  BY PairsAreGreedy
<1>6. Pairs(t, s, w) = Mirror(G)
  BY <1>2, <1>4, <1>5, GreedyIsOne
<1>7. Firsts(Mirror(G)) = Seconds(G) /\ Seconds(Mirror(G)) = Firsts(G)
  <2>1. \A e \in G : <<e[2], e[1]>> \in Mirror(G)
    BY DEF Mirror
  <2>2. ASSUME NEW f \in Mirror(G) PROVE \E e \in G : f[1] = e[2] /\ f[2] = e[1]
    BY DEF Mirror
  <2>3. \A e \in G : \E f \in Mirror(G) : f[1] = e[2] /\ f[2] = e[1]
    BY <2>1
  <2> QED
    BY <2>2, <2>3 DEF Firsts, Seconds
<1> QED
  BY <1>6, <1>7 DEF G
(* The Jaro score of two different strings, as a fraction.                 *)
JaroWindow(s, t) ==
  LET M == IF Len(s) > Len(t) THEN Len(s) ELSE Len(t)
  IN  IF M \div 2 - 1 > 0 THEN M \div 2 - 1 ELSE 0
JaroPairs(s, t) == Pairs(s, t, JaroWindow(s, t))
Mismatched(s, t, A, B, m) == {k \in 1 .. m : s[Nth(A, k)] # t[Nth(B, k)]}

LEMMA JaroIs ==
  ASSUME NEW s, NEW t
  PROVE  LET G == JaroPairs(s, t)
             m == Cardinality(G)
             n == Cardinality(Mismatched(s, t, Firsts(G), Seconds(G), m))
         IN  Jaro(s, t) = IF m = 0 THEN [num |-> 0, den |-> 1]
                          ELSE [num |-> 2 * m * m * (Len(s) + Len(t)) + (2 * m - n) * Len(s) * Len(t),
                                den |-> 6 * m * Len(s) * Len(t)]
BY Zenon DEF Jaro, JaroPairs, JaroWindow, Mismatched, Firsts, Seconds

LEMMA JaroWindowIsInt ==
  ASSUME NEW s, NEW t, Len(s) \in Nat, Len(t) \in Nat
  PROVE  JaroWindow(s, t) \in Int /\ JaroWindow(t, s) = JaroWindow(s, t)
<1> DEFINE M(x, y) == IF Len(x) > Len(y) THEN Len(x) ELSE Len(y)
           W(k) == IF k \div 2 - 1 > 0 THEN k \div 2 - 1 ELSE 0
<1>1. M(s, t) \in Nat /\ M(t, s) = M(s, t)
  OBVIOUS
<1>2. \A k \in Nat : W(k) \in Int
  OBVIOUS
<1>3. JaroWindow(s, t) = W(M(s, t)) /\ JaroWindow(t, s) = W(M(t, s))
  BY Zenon DEF JaroWindow
<1> HIDE DEF M, W
<1> QED
  BY <1>1, <1>2, <1>3

LEMMA MovedBound ==
  ASSUME NEW s, NEW t, NEW A, NEW B, NEW m \in Nat
  PROVE  /\ Cardinality(Mismatched(s, t, A, B, m)) \in 0 .. m
         /\ Cardinality(Mismatched(s, t, A, B, m)) = 0 => \A k \in 1 .. m : s[Nth(A, k)] = t[Nth(B, k)]
<1> DEFINE K == Mismatched(s, t, A, B, m)
<1>1. IsFiniteSet(1 .. m) /\ Cardinality(1 .. m) = m
  <2>1. 1 \in Int /\ m \in Int
    OBVIOUS
  <2>2. IsFiniteSet(1 .. m) /\ Cardinality(1 .. m) = IF 1 > m THEN 0 ELSE m - 1 + 1
    BY <2>1, FS_Interval
  <2> QED
    BY <2>2
<1>2. K \in SUBSET (1 .. m)
  BY DEF Mismatched
<1>3. IsFiniteSet(K) /\ Cardinality(K) <= m /\ Cardinality(K) \in Nat
  BY <1>1, <1>2, FS_Subset, FS_CardinalityType
<1>4. Cardinality(K) = 0 => K = {}
  BY <1>3, FS_EmptySet
<1>5. K = {} => \A k \in 1 .. m : s[Nth(A, k)] = t[Nth(B, k)]
  BY DEF Mismatched
<1> HIDE DEF K
<1>6. Cardinality(K) \in 0 .. m
  BY <1>3
<1> QED
  BY <1>4, <1>5, <1>6 DEF K

(* Products of numbers that are at least as large as m.                    *)
LEMMA JaroArithmetic ==
  ASSUME NEW a \in Nat, NEW b \in Nat, NEW m \in Nat, NEW n \in Nat, 0 < m, m <= a, m <= b, n <= m
  PROVE  LET num == 2 * m * m * (a + b) + (2 * m - n) * a * b
             den == 6 * m * a * b
         IN  /\ num \in Nat /\ den \in Nat /\ 0 < den /\ num <= den
             /\ num = den => m = a /\ m = b /\ n = 0
<1> DEFINE q == a * b
           mm == m * m
           ma == m * a
           mb == m * b
           mq == m * (a * b)
           nq == n * (a * b)
<1>1. q \in Nat /\ mm \in Nat /\ ma \in Nat /\ mb \in Nat /\ mq \in Nat /\ nq \in Nat
  OBVIOUS
<1>2. 0 < q /\ 0 < mq
  <2>1. \A x, y \in Nat : 0 < x /\ 0 < y => 0 < x * y /\ x * y \in Nat
    OBVIOUS
  <2>2. 0 < a /\ 0 < b
    OBVIOUS
  <2>3. 0 < q /\ q \in Nat
    BY <2>1, <2>2
  <2> QED
    BY <2>1, <2>3
<1> DEFINE maa == (m * m) * a
           mbb == (m * m) * b
<1>3. \A x, y, z \in Nat : x <= y => x * z <= y * z /\ x * z \in Nat /\ y * z \in Nat
  OBVIOUS
<1>4. \A x, y, z \in Nat : x < y /\ 0 < z => x * z < y * z
  OBVIOUS
<1>5. mbb <= mq /\ (m < a => mbb < mq) /\ mbb \in Nat
  <2>1. mbb = m * (m * b) /\ mq = a * (m * b)
    OBVIOUS
  <2>2. mbb = m * mb /\ mq = a * mb
    BY <2>1
  <2>3. 0 < mb
    <3>1. 0 < m /\ 0 < b
      OBVIOUS
    <3>2. \A x, y \in Nat : 0 < x /\ 0 < y => 0 < x * y
      OBVIOUS
    <3> QED
      BY <3>1, <3>2
  <2> HIDE DEF mb, mbb, mq
  <2> QED
    BY <1>1, <1>3, <1>4, <2>2, <2>3
<1>6. maa <= mq /\ (m < b => maa < mq) /\ maa \in Nat
  <2>1. maa = m * (m * a) /\ mq = b * (m * a)
    OBVIOUS
  <2>2. maa = m * ma /\ mq = b * ma
    BY <2>1
  <2>3. 0 < ma
    <3>1. 0 < m /\ 0 < a
      OBVIOUS
    <3>2. \A x, y \in Nat : 0 < x /\ 0 < y => 0 < x * y
      OBVIOUS
    <3> QED
      BY <3>1, <3>2
  <2> HIDE DEF ma, maa, mq
  <2> QED
    BY <1>1, <1>3, <1>4, <2>2, <2>3
<1>7. nq <= mq /\ (0 < n => 0 < nq)
  <2>1. n * q <= m * q
    <3> HIDE DEF q
    <3> QED
      BY <1>1, <1>3
  <2>2. 0 < n => 0 < n * q
    <3>1. \A x, y \in Nat : 0 < x /\ 0 < y => 0 < x * y
      OBVIOUS
    <3> HIDE DEF q
    <3> QED
      BY <1>1, <1>2, <3>1
  <2> QED
    BY <2>1, <2>2
<1>8. 2 * m * m * (a + b) + (2 * m - n) * a * b = 2 * maa + 2 * mbb + 2 * mq - nq
  OBVIOUS
<1>9. 6 * m * a * b = 6 * mq
  OBVIOUS
<1> HIDE DEF q, mm, ma, mb, mq, nq, maa, mbb
<1>10. 2 * maa + 2 * mbb + 2 * mq - nq \in Nat /\ 6 * mq \in Nat /\ 0 < 6 * mq
       /\ 2 * maa + 2 * mbb + 2 * mq - nq <= 6 * mq
  BY <1>1, <1>2, <1>5, <1>6, <1>7
<1>11. 2 * maa + 2 * mbb + 2 * mq - nq = 6 * mq => m = a /\ m = b /\ n = 0
  BY <1>1, <1>2, <1>5, <1>6, <1>7
<1> QED
  BY <1>8, <1>9, <1>10, <1>11
(* The score of two strings is that of the same fraction in either order.  *)
LEMMA JaroIsAFraction ==
  ASSUME NEW s, NEW t, s \in Seq(Int), t \in Seq(Int), s # t
  PROVE  /\ Jaro(s, t).num \in Nat /\ Jaro(s, t).den \in Nat /\ Jaro(s, t).num < Jaro(s, t).den
         /\ Jaro(t, s) = Jaro(s, t)
<1> DEFINE w == JaroWindow(s, t)
           G == Pairs(s, t, w)
           H == Pairs(t, s, w)
           A == Firsts(G)
           B == Seconds(G)
           m == Cardinality(G)
           K == Mismatched(s, t, A, B, m)
           n == Cardinality(K)
           a == Len(s)
           b == Len(t)
<1>1. a \in Nat /\ b \in Nat /\ w \in Int /\ JaroWindow(t, s) = w
  BY JaroWindowIsInt
<1>2. Greedy(Near(s, t, w), G) /\ Greedy(Near(t, s, w), H)
  BY <1>1, PairsAreGreedy
<1>3. /\ m \in Nat /\ A \in SUBSET (1 .. a) /\ B \in SUBSET (1 .. b)
      /\ Cardinality(A) = m /\ Cardinality(B) = m
  BY <1>1, <1>2, PairsAreOneToOne
<1>4. Firsts(H) = B /\ Seconds(H) = A
  BY <1>1, MirrorsPairs
<1>5. Cardinality(H) = m
  BY <1>1, <1>2, <1>3, <1>4, PairsAreOneToOne
<1>6. Mismatched(t, s, B, A, m) = K
  BY DEF Mismatched
<1>7. Jaro(s, t) = IF m = 0 THEN [num |-> 0, den |-> 1]
                   ELSE [num |-> 2 * m * m * (a + b) + (2 * m - n) * a * b, den |-> 6 * m * a * b]
  BY JaroIs, Zenon DEF JaroPairs
<1>8. Jaro(t, s) = IF m = 0 THEN [num |-> 0, den |-> 1]
                   ELSE [num |-> 2 * m * m * (b + a) + (2 * m - n) * b * a, den |-> 6 * m * b * a]
  <2> DEFINE m2 == Cardinality(H)
             n2 == Cardinality(Mismatched(t, s, Firsts(H), Seconds(H), m2))
  <2>1. JaroPairs(t, s) = H
    BY <1>1, Zenon DEF JaroPairs
  <2>2. Jaro(t, s) = IF m2 = 0 THEN [num |-> 0, den |-> 1]
                     ELSE [num |-> 2 * m2 * m2 * (b + a) + (2 * m2 - n2) * b * a, den |-> 6 * m2 * b * a]
    BY <2>1, JaroIs, Zenon
  <2>3. m2 = m /\ n2 = n
    BY <1>4, <1>5, <1>6
  <2> HIDE DEF m2, n2
  <2> QED
    BY <2>2, <2>3
<1>9. n \in 0 .. m /\ (n = 0 => \A k \in 1 .. m : s[Nth(A, k)] = t[Nth(B, k)])
  BY <1>3, MovedBound
<1>10. m <= a /\ m <= b /\ (m = a => A = 1 .. a) /\ (m = b => B = 1 .. b)
  <2>1. \A k \in Nat : IsFiniteSet(1 .. k) /\ Cardinality(1 .. k) = k
    <3> TAKE k \in Nat
    <3>1. 1 \in Int /\ k \in Int
      OBVIOUS
    <3>2. IsFiniteSet(1 .. k) /\ Cardinality(1 .. k) = IF 1 > k THEN 0 ELSE k - 1 + 1
      BY <3>1, FS_Interval
    <3> QED
      BY <3>2
  <2>2. ASSUME NEW k \in Nat, NEW C \in SUBSET (1 .. k)
        PROVE  Cardinality(C) <= k /\ (Cardinality(C) = k => C = 1 .. k)
    <3>1. IsFiniteSet(1 .. k) /\ Cardinality(1 .. k) = k
      BY <2>1
    <3>2. Cardinality(C) <= Cardinality(1 .. k) /\ (Cardinality(1 .. k) = Cardinality(C) => 1 .. k = C)
      BY <3>1, FS_Subset
    <3> QED
      BY <3>1, <3>2
  <2> HIDE DEF A, B, m, a, b
  <2> QED
    BY <1>1, <1>3, <2>2
<1>11. ~(m = a /\ m = b /\ n = 0)
  <2> SUFFICES ASSUME m = a, m = b, n = 0 PROVE FALSE
    OBVIOUS
  <2>1. A = 1 .. m /\ B = 1 .. m
    BY <1>10
  <2>2. \A k \in 1 .. m : Nth(A, k) = k /\ Nth(B, k) = k
    BY <1>3, <2>1, NthOfAll
  <2>3. \A k \in 1 .. m : s[k] = t[k]
    BY <1>9, <2>2
  <2>4. \A i \in 1 .. a : s[i] = t[i]
    <3> HIDE DEF m, a
    <3> QED
      BY <2>3
  <2>5. a = b
    OBVIOUS
  <2>6. s = [i \in 1 .. a |-> s[i]] /\ t = [i \in 1 .. b |-> t[i]]
    <3> HIDE DEF w, G, H, A, B, m, K, n
    <3>1. \A r \in Seq(Int) : r = [i \in 1 .. Len(r) |-> r[i]]
      OBVIOUS
    <3> QED
      BY <3>1
  <2>7. s = t
    <3> HIDE DEF a, b
    <3> QED
      BY <2>4, <2>5, <2>6
  <2> QED
    BY <2>7
<1> HIDE DEF w, G, H, A, B, m, K, n
<1>12. CASE m = 0
  BY <1>7, <1>8, <1>12
<1>13. CASE m # 0
  <2> DEFINE num == 2 * m * m * (a + b) + (2 * m - n) * a * b
             den == 6 * m * a * b
  <2>1. 0 < m /\ n \in Nat /\ n <= m
    BY <1>3, <1>9, <1>13
  <2>2. num \in Nat /\ den \in Nat /\ num <= den /\ (num = den => m = a /\ m = b /\ n = 0)
    BY <1>1, <1>3, <1>10, <2>1, JaroArithmetic
  <2>3. num < den
    <3> HIDE DEF num, den
    <3> QED
      BY <1>11, <2>2
  <2>4. 2 * m * m * (b + a) + (2 * m - n) * b * a = num /\ 6 * m * b * a = den
    <3>1. b + a = a + b
      BY <1>1
    <3>2. \A x, y, z \in Int : x * y * z = x * z * y
      OBVIOUS
    <3>3. 2 * m - n \in Int /\ 6 * m \in Int
      BY <1>3, <2>1
    <3> QED
      BY <1>1, <3>1, <3>2, <3>3
  <2>5. Jaro(s, t) = [num |-> num, den |-> den] /\ Jaro(t, s) = [num |-> num, den |-> den]
    <3> HIDE DEF a, b
    <3> QED
      BY <1>7, <1>8, <1>13, <2>4
  <2> HIDE DEF num, den
  <2> QED
    BY <2>2, <2>3, <2>5
<1> QED
  BY <1>12, <1>13

(* Jaro-Winkler keeps the order of the fractions, and their limits.        *)
SharedUpTo(s, t) == {k \in 0 .. 4 : k <= Len(s) /\ k <= Len(t) /\ \A i \in 1 .. k : s[i] = t[i]}

(* The similarity of two names, of any length and over any alphabet: it    *)
(* lies between 0 and 1, is 1 for equal names only, and does not depend on *)
(* which of the two is the subject's, though characters are paired from    *)
(* the left of the first (jaroWinkler of matching.ts).                     *)
THEOREM WinklerIsAScore ==
  ASSUME NEW s, NEW t, s \in Seq(Int), t \in Seq(Int)
  PROVE  LET x == jaroWinkler(s, t)  y == jaroWinkler(t, s) IN
            /\ 0 <= x.num /\ x.num <= x.den
            /\ x.num = x.den <=> s = t /\ s # <<>>
            /\ x.num * y.den = y.num * x.den
<1>1. CASE s = t
  BY <1>1 DEF jaroWinkler
<1>2. CASE s # t /\ (s = <<>> \/ t = <<>>)
  BY <1>2 DEF jaroWinkler
<1>3. CASE s # t /\ s # <<>> /\ t # <<>>
  <2> DEFINE j == Jaro(s, t)
             P == SharedUpTo(s, t)
             p == CHOOSE k \in P : \A q \in P : q <= k
  <2>1. j.num \in Nat /\ j.den \in Nat /\ j.num < j.den /\ Jaro(t, s) = j
    BY <1>3, JaroIsAFraction
  <2>2. SharedUpTo(t, s) = P
    BY DEF SharedUpTo
  <2>3. jaroWinkler(s, t) = [num |-> 10 * j.num + p * (j.den - j.num), den |-> 10 * j.den]
    BY <1>3, Zenon DEF jaroWinkler, SharedUpTo
  <2>4. jaroWinkler(t, s) = [num |-> 10 * j.num + p * (j.den - j.num), den |-> 10 * j.den]
    <3> DEFINE P2 == SharedUpTo(t, s)
               p2 == CHOOSE k \in P2 : \A q \in P2 : q <= k
               j2 == Jaro(t, s)
    <3>1. jaroWinkler(t, s) = [num |-> 10 * j2.num + p2 * (j2.den - j2.num), den |-> 10 * j2.den]
      BY <1>3, Zenon DEF jaroWinkler, SharedUpTo
    <3>2. p2 = p /\ j2 = j
      BY <2>1, <2>2
    <3> HIDE DEF p, p2, j, j2
    <3> QED
      BY <3>1, <3>2
  <2>5. p \in 0 .. 4
    <3>1. P \in SUBSET (0 .. 4) /\ 0 \in P
      BY DEF SharedUpTo
    <3>2. \E k \in P : \A q \in P : q <= k
      <4> HIDE DEF P
      <4>1. CASE 4 \in P
        BY <3>1, <4>1
      <4>2. CASE 4 \notin P /\ 3 \in P
        BY <3>1, <4>2
      <4>3. CASE 4 \notin P /\ 3 \notin P /\ 2 \in P
        BY <3>1, <4>3
      <4>4. CASE 4 \notin P /\ 3 \notin P /\ 2 \notin P /\ 1 \in P
        BY <3>1, <4>4
      <4>5. CASE 4 \notin P /\ 3 \notin P /\ 2 \notin P /\ 1 \notin P
        BY <3>1, <4>5
      <4> QED
        BY <4>1, <4>2, <4>3, <4>4, <4>5
    <3>3. p \in P
      <4> HIDE DEF P
      <4> QED
        BY <3>2
    <3> HIDE DEF P, p
    <3> QED
      BY <3>1, <3>3
  <2> HIDE DEF j, P, p
  <2> DEFINE num == 10 * j.num + p * (j.den - j.num)
  <2>6. num \in Nat /\ num < 10 * j.den
    <3>1. p = 0 \/ p = 1 \/ p = 2 \/ p = 3 \/ p = 4
      BY <2>5
    <3>2. j.den - j.num \in Nat /\ 0 < j.den - j.num
      BY <2>1
    <3> DEFINE d == j.den - j.num
    <3>3. 10 * j.num + 10 * d = 10 * j.den /\ j.num \in Nat /\ d \in Nat /\ 0 < d
      BY <2>1
    <3> HIDE DEF d
    <3>4. p * d \in Nat /\ p * d <= 4 * d
      <4>1. CASE p = 0
        BY <3>3, <4>1
      <4>2. CASE p = 1
        BY <3>3, <4>2
      <4>3. CASE p = 2
        BY <3>3, <4>3
      <4>4. CASE p = 3
        BY <3>3, <4>4
      <4>5. CASE p = 4
        BY <3>3, <4>5
      <4> QED
        BY <3>1, <4>1, <4>2, <4>3, <4>4, <4>5
    <3>5. 10 * j.num + p * d \in Nat /\ 10 * j.num + p * d < 10 * j.den
      <4> DEFINE pd == p * d
      <4>1. pd \in Nat /\ pd <= 4 * d
        BY <3>4
      <4> HIDE DEF pd
      <4>2. 10 * j.num + pd \in Nat /\ 10 * j.num + pd < 10 * j.den
        BY <2>1, <3>3, <4>1
      <4> QED
        BY <4>2 DEF pd
    <3> QED
      BY <3>5 DEF d
  <2> HIDE DEF num
  <2>7. jaroWinkler(s, t).num = num /\ jaroWinkler(s, t).den = 10 * j.den
        /\ jaroWinkler(t, s).num = num /\ jaroWinkler(t, s).den = 10 * j.den
    BY <2>3, <2>4 DEF num
  <2> QED
    BY <1>3, <2>1, <2>6, <2>7
<1> QED
  BY <1>1, <1>2, <1>3

LEMMA JaroWinklerHolds == JaroWinklerIsAScore
<1>1. ASSUME NEW s \in Strings PROVE s \in Seq(Int)
  <2>1. PICK n \in 0 .. 4 : s \in [1 .. n -> {1, 2}]
    BY DEF Strings
  <2>2. n \in Nat /\ {1, 2} \subseteq Int
    OBVIOUS
  <2> QED
    BY <2>1, <2>2
<1>2. ASSUME NEW s \in Strings, NEW t \in Strings
      PROVE  LET x == jaroWinkler(s, t)  y == jaroWinkler(t, s) IN
            /\ 0 <= x.num /\ x.num <= x.den
            /\ x.num = x.den <=> s = t /\ s # <<>>
            /\ x.num * y.den = y.num * x.den
  BY <1>1, WinklerIsAScore
<1> QED
  BY <1>2, Zenon DEF JaroWinklerIsAScore

-----------------------------------------------------------------------------
(* Screening: the report of a subject over the inputs it was given.        *)

ScreenTyped ==
  /\ subject \in [kind : SubjectKinds, wallet : BOOLEAN]
  /\ inputs \in [1 .. Len(SOURCE_IDS) -> Snapshots \cup {GapInput}]
Screened == screening = {} \/ (ScreenTyped /\ screening = {screenSubject})
ScreenInv == (working = "screen" => ScreenTyped) /\ Screened

LEMMA SubjectStays ==
  ASSUME subject' = subject, inputs' = inputs
  PROVE  screenSubject' = screenSubject
<1>1. \A i : Downloads(i)' = Downloads(i)
  BY Zenon DEF Downloads
<1>2. \A i : FirstRef(i)' = FirstRef(i)
  BY Zenon, <1>1 DEF FirstRef, Downloads
<1>3. \A i : RefsOf(i)' = RefsOf(i)
  BY Zenon, <1>1, <1>2 DEF RefsOf
<1>4. \A id, e : AllMatches(id, e)' = AllMatches(id, e)
  BY Zenon DEF AllMatches, screenWalletAgainstSdn
<1>5. \A i : SourceResult(i)' = SourceResult(i)
  BY Zenon, <1>3, <1>4 DEF SourceResult
<1> DEFINE per == [i \in DOMAIN inputs |-> SourceResult(i)]
           versions == UNION {{[id |-> r, source |-> SOURCE_IDS[i]] : r \in RefsOf(i)} : i \in DOMAIN inputs}
<1>6. per' = per
  BY <1>5
<1>7. versions' = versions
  BY <1>3
<1>8. screenSubject =
        [panel |-> SOURCE_IDS, per |-> per, versions |-> versions,
         complete |-> \A i \in DOMAIN per : per[i].status = "screened",
         verdict |-> aggregateVerdict(UNION {Severities(per[i].matches) : i \in DOMAIN per})]
  BY Zenon DEF screenSubject
<1>9. screenSubject' =
        [panel |-> SOURCE_IDS, per |-> per', versions |-> versions',
         complete |-> \A i \in DOMAIN per' : per'[i].status = "screened",
         verdict |-> aggregateVerdict(UNION {Severities(per'[i].matches) : i \in DOMAIN per'})]
  BY Zenon DEF screenSubject
<1> HIDE DEF per, versions
<1> QED
  BY Zenon, <1>6, <1>7, <1>8, <1>9

LEMMA ScreenStep ==
  ASSUME ScreenTyped, screening = {}, ScreenNext
  PROVE  ScreenTyped' /\ Screened'
<1>1. subject' = subject /\ inputs' = inputs /\ screening' = {screenSubject}
  BY DEF ScreenNext, Screen
<1>2. ScreenTyped'
  BY <1>1 DEF ScreenTyped
<1>3. screenSubject' = screenSubject
  BY <1>1, SubjectStays
<1> QED
  BY <1>1, <1>2, <1>3 DEF Screened

LEMMA ScreenRests ==
  ASSUME UNCHANGED screenVars, Screened
  PROVE  Screened' /\ (ScreenTyped => ScreenTyped')
<1>1. subject' = subject /\ inputs' = inputs /\ screening' = screening
  BY DEF screenVars
<1>2. screenSubject' = screenSubject
  BY <1>1, SubjectStays
<1> QED
  BY <1>1, <1>2 DEF Screened, ScreenTyped

LEMMA ScreenInvHolds == MCSpec => []ScreenInv
<1>1. MCInit => ScreenInv
  <2>1. RestScreen => screening = {}
    BY DEF RestScreen
  <2>2. DesksInit => working # "screen"
    BY DEF DesksInit
  <2>3. SpecialistsInit => (RestScreen /\ working # "screen") \/ ScreenInit
    BY DEF SpecialistsInit
  <2>4. ScreenInit => ScreenTyped /\ screening = {}
    BY Zenon DEF ScreenInit, ScreenTyped
  <2>5. MCInit => (RestScreen /\ working # "screen") \/ ScreenInit
    BY Zenon, <2>2, <2>3 DEF MCInit, RestSpecialists
  <2> QED
    BY Zenon, <2>1, <2>4, <2>5 DEF ScreenInv, Screened
<1>2. ScreenInv /\ [MCNext]_mcVars => ScreenInv'
  <2> SUFFICES ASSUME ScreenInv, [MCNext]_mcVars PROVE ScreenInv'
    OBVIOUS
  <2>1. working' = working
    BY Zenon DEF MCNext, mcVars
  <2>2. (working = "screen" /\ ScreenNext) \/ UNCHANGED screenVars
    BY Zenon DEF MCNext, SpecialistsNext, mcVars, specialistVars
  <2>3. CASE working = "screen" /\ ScreenNext
    <3>1. screening = {}
      BY <2>3 DEF ScreenNext, Screen
    <3> QED
      BY <2>1, <2>3, <3>1, ScreenStep DEF ScreenInv
  <2>4. CASE UNCHANGED screenVars
    BY <2>1, <2>4, ScreenRests DEF ScreenInv
  <2> QED
    BY <2>2, <2>3, <2>4
<1> QED
  BY <1>1, <1>2, PTL DEF MCSpec

-----------------------------------------------------------------------------
(* The best name of an entry, and the rounding of its score.               *)

ListedNames == [full : Int, core : Int]

LEMMA Greatest ==
  ASSUME NEW S \in SUBSET Int, IsFiniteSet(S), S # {}
  PROVE  \E x \in S : \A y \in S : y <= x
<1> DEFINE R == {e \in S \X S : e[1] > e[2]}
<1>1. StrictlyOrdered(S, R)
  BY DEF StrictlyOrdered
<1>2. Cardinality(S) \in Nat /\ Cardinality(S) # 0
  BY FS_CardinalityType, FS_EmptySet
<1> HIDE DEF R
<1>3. PICK x \in S : Cardinality(Lower(S, R, x)) = 0
  BY <1>1, <1>2, PlaceTaken
<1>4. IsFiniteSet(Lower(S, R, x))
  BY FS_Subset DEF Lower
<1>5. Lower(S, R, x) = {}
  BY <1>3, <1>4, FS_EmptySet
<1>6. \A y \in S : <<y, x>> \notin R
  BY Zenon, <1>5 DEF Lower
<1>7. \A y \in S : ~(y > x)
  BY <1>6 DEF R
<1> QED
  BY <1>7

LEMMA BestIs ==
  ASSUME NEW entry \in Seq(ListedNames)
  PROVE  /\ bestNameMatch(entry) \in Int
         /\ bestNameMatch(entry) > 0 => bestNameMatch(entry) >= POTENTIAL_THRESHOLD
<1> DEFINE S == {scorePrepared(entry[i]) : i \in DOMAIN entry}
           T == {x \in S : x >= POTENTIAL_THRESHOLD}
<1>1. \A i \in DOMAIN entry : scorePrepared(entry[i]) \in Int
  <2>1. \A i \in DOMAIN entry : entry[i] \in ListedNames
    OBVIOUS
  <2>2. \A x \in ListedNames : x.full \in Int /\ x.core \in Int
    BY DEF ListedNames
  <2> QED
    BY <2>1, <2>2 DEF scorePrepared
<1>2. IsFiniteSet(S)
  <2>1. IsFiniteSet(DOMAIN entry)
    <3>1. DOMAIN entry = 1 .. Len(entry) /\ Len(entry) \in Nat
      OBVIOUS
    <3> QED
      BY <3>1, FS_Interval
  <2> QED
    <3> DEFINE I == DOMAIN entry
               f == [i \in I |-> scorePrepared(entry[i])]
    <3>1. f \in [I -> S] /\ \A y \in S : \E i \in I : f[i] = y
      OBVIOUS
    <3>2. IsFiniteSet(I)
      BY <2>1
    <3> HIDE DEF I, S, f
    <3>3. f \in Surjection(I, S)
      BY <3>1 DEF Surjection
    <3> QED
      BY <3>2, <3>3, FS_Surjection
<1>3. S \in SUBSET Int
  BY <1>1
<1> HIDE DEF S
<1>4. T \in SUBSET Int /\ IsFiniteSet(T)
  BY <1>2, <1>3, FS_Subset
<1>5. bestNameMatch(entry) = IF T = {} THEN 0 ELSE CHOOSE x \in T : \A y \in T : y <= x
  BY Zenon DEF bestNameMatch, S
<1>6. CASE T = {}
  BY <1>5, <1>6
<1>7. CASE T # {}
  <2>1. \E x \in T : \A y \in T : y <= x
    <3> HIDE DEF T
    <3> QED
      BY <1>4, <1>7, Greatest
  <2>2. bestNameMatch(entry) \in T
    <3> HIDE DEF T
    <3> QED
      BY <1>5, <1>7, <2>1
  <2> QED
    BY <1>4, <2>2
<1> QED
  BY <1>6, <1>7

Thresholds == {ONE, MATCH_THRESHOLD, POTENTIAL_THRESHOLD}

LEMMA RoundsUp ==
  ASSUME NEW x \in Int, NEW t \in Thresholds
  PROVE  /\ round6(x) \in Int
         /\ x >= t => round6(x) >= t
         /\ ~RoundedAcross(x) => (round6(x) >= t <=> x >= t)
<1> DEFINE g == GRAIN
           h == GRAIN \div 2
           q == (x + h) \div g
           k == t \div g
<1>1. g \in Nat /\ g > 0 /\ t \in Int /\ t % g = 0
  BY ScreeningAssumption DEF Thresholds
<1>2. h \in Nat
  BY <1>1
<1>3. q \in Int /\ k \in Int /\ t = k * g
  <2> HIDE DEF g, h
  <2>1. q \in Int /\ k \in Int
    BY <1>1, <1>2
  <2>2. t = g * k + (t % g)
    BY <1>1
  <2> QED
    BY <1>1, <2>1, <2>2
<1>4. round6(x) = q * g /\ q * g \in Int
  <2>1. round6(x) = q * g
    BY DEF round6
  <2> HIDE DEF q, g
  <2> QED
    BY <1>1, <1>3, <2>1
<1>5. ASSUME x >= t PROVE q * g >= t
  <2>1. x + h < g * (q + 1)
    <3> HIDE DEF h, g
    <3>1. \A a \in Int, b \in Nat \ {0} : a < b * (a \div b + 1)
      OBVIOUS
    <3> QED
      BY <1>1, <1>2, <3>1
  <2> HIDE DEF q, h, g, k
  <2>2. k * g < g * (q + 1)
    <3>1. g * (q + 1) \in Int /\ k * g \in Int
      BY <1>1, <1>3
    <3> QED
      BY <1>2, <1>3, <1>5, <2>1, <3>1
  <2>3. k < q + 1
    <3>1. \A a, b \in Int, c \in Nat \ {0} : a * c < c * b => a < b
      OBVIOUS
    <3> QED
      BY <1>1, <1>3, <2>2, <3>1
  <2>4. \A a, b \in Int, c \in Nat : a <= b => a * c <= b * c
    OBVIOUS
  <2>5. k <= q
    BY <1>3, <2>3
  <2> QED
    BY <1>1, <1>3, <2>4, <2>5
<1> HIDE DEF q, h, g, k
<1>6. ASSUME ~RoundedAcross(x) PROVE round6(x) >= t => x >= t
  BY <1>1, <1>6 DEF RoundedAcross, Thresholds
<1> QED
  BY <1>4, <1>5, <1>6

-----------------------------------------------------------------------------
(* What a source gives: matches of the entries, or the wallet's.           *)

LEMMA InputsTyped ==
  ASSUME ScreenTyped
  PROVE  /\ DOMAIN inputs = 1 .. 3
         /\ \A i \in 1 .. 3 : inputs[i].gap \in BOOLEAN /\ inputs[i].entries \in Seq(Seq(ListedNames))
<1>1. Len(SOURCE_IDS) = 3
  BY DEF SOURCE_IDS
<1>2. \A x \in Snapshots : x.gap \in BOOLEAN /\ x.entries \in Seq(Seq(ListedNames))
  <2> SUFFICES ASSUME NEW x \in Snapshots PROVE x.gap \in BOOLEAN /\ x.entries \in Seq(Seq(ListedNames))
    OBVIOUS
  <2>1. PICK e \in {<<>>} \cup UNION {[1 .. n -> ListEntries] : n \in 1 .. MaxEntries} : x = [gap |-> FALSE, entries |-> e]
    BY DEF Snapshots
  <2>2. e \in Seq(Seq(ListedNames))
    <3>1. CASE e = <<>>
      BY <3>1
    <3>2. CASE e # <<>>
      <4>1. PICK n \in 1 .. MaxEntries : e \in [1 .. n -> ListEntries]
        BY <3>2
      <4>2. ListEntries \subseteq Seq(ListedNames) /\ n \in Nat
        BY ScreeningAssumption DEF ListedNames
      <4>3. e \in [1 .. n -> Seq(ListedNames)]
        BY <4>1, <4>2
      <4> HIDE DEF ListedNames
      <4> QED
        BY <4>2, <4>3
    <3> QED
      BY <3>1, <3>2
  <2> QED
    BY <2>1, <2>2
<1>3. GapInput.gap \in BOOLEAN /\ GapInput.entries \in Seq(Seq(ListedNames))
  BY DEF GapInput
<1> QED
  BY <1>1, <1>2, <1>3 DEF ScreenTyped

LEMMA SourceIds ==
  /\ Len(SOURCE_IDS) = 3 /\ DOMAIN SOURCE_IDS = 1 .. 3
  /\ SOURCE_IDS[1] = "ofac-sdn" /\ SOURCE_IDS[2] = "opensanctions-pep" /\ SOURCE_IDS[3] = "sec-edgar"
  /\ \A i, j \in 1 .. 3 : SOURCE_IDS[i] = SOURCE_IDS[j] => i = j
<1>1. /\ Len(SOURCE_IDS) = 3 /\ DOMAIN SOURCE_IDS = 1 .. 3
      /\ SOURCE_IDS[1] = "ofac-sdn" /\ SOURCE_IDS[2] = "opensanctions-pep" /\ SOURCE_IDS[3] = "sec-edgar"
  BY DEF SOURCE_IDS
<1>2. \A i \in 1 .. 3 : i = 1 \/ i = 2 \/ i = 3
  OBVIOUS
<1> QED
  BY <1>1, <1>2

(* A match of a source, for a score b.                                     *)
MatchOf(id, m, b) ==
  \/ id = "ofac-sdn" /\ m = makeMatch(Method(b), b)
  \/ id = "ofac-sdn" /\ b = ONE /\ m = makeMatch("wallet-exact", b)
  \/ id = "opensanctions-pep" /\ m = makeMatch("pep-match", b)
  \/ id = "sec-edgar" /\ m = makeMatch("edgar-registration", b)
FoundBy(entries, m, b) ==
  \/ \E k \in Hits(entries) : b = bestNameMatch(entries[k])
  \/ subject.wallet /\ b = ONE /\ m = makeMatch("wallet-exact", b)

LEMMA MatchForms ==
  ASSUME ScreenTyped, NEW i \in 1 .. 3, NEW ms, ms = AllMatches(SOURCE_IDS[i], inputs[i].entries)
  PROVE  /\ DOMAIN ms \in SUBSET Nat /\ IsFiniteSet(DOMAIN ms)
         /\ ms = [k \in DOMAIN ms |-> ms[k]]
         /\ \A k \in DOMAIN ms : \E b \in Int :
               b >= POTENTIAL_THRESHOLD /\ MatchOf(SOURCE_IDS[i], ms[k], b) /\ FoundBy(inputs[i].entries, ms[k], b)
<1> DEFINE es == inputs[i].entries
           n == Len(es)
           H == Hits(es)
           names == screenNamesAgainstEntries(es)
           pep == screenNamesAgainstPep(es)
           edgar == screenEntityAgainstEdgar(es)
           wallet == screenWalletAgainstSdn(es)
           Sound(f) == /\ DOMAIN f \in SUBSET (1 .. n + 1)
                       /\ f = [k \in DOMAIN f |-> f[k]]
                       /\ \A k \in DOMAIN f : \E b \in Int :
                            b >= POTENTIAL_THRESHOLD /\ MatchOf(SOURCE_IDS[i], f[k], b) /\ FoundBy(es, f[k], b)
<1>1. es \in Seq(Seq(ListedNames)) /\ n \in Nat /\ DOMAIN es = 1 .. n
  BY InputsTyped
<1>2. H \in SUBSET (1 .. n) /\ \A k \in H : bestNameMatch(es[k]) \in Int /\ bestNameMatch(es[k]) >= POTENTIAL_THRESHOLD
  <2>1. \A k \in 1 .. n : es[k] \in Seq(ListedNames)
    BY <1>1
  <2>2. \A k \in H : k \in 1 .. n /\ bestNameMatch(es[k]) > 0
    BY <1>1 DEF Hits
  <2> HIDE DEF H, n, es
  <2> QED
    BY <2>1, <2>2, BestIs
<1>3. ONE \in Int /\ ONE >= POTENTIAL_THRESHOLD /\ POTENTIAL_THRESHOLD \in Int /\ MATCH_THRESHOLD \in Int
  BY ScreeningAssumption
<1>4. SOURCE_IDS[i] = "ofac-sdn" => Sound(names)
  <2>1. names = [k \in H |-> makeMatch(Method(bestNameMatch(es[k])), bestNameMatch(es[k]))]
    BY DEF screenNamesAgainstEntries
  <2> HIDE DEF H, n, es, names
  <2> QED
    BY <1>1, <1>2, <2>1 DEF MatchOf, FoundBy, H
<1>5. SOURCE_IDS[i] = "opensanctions-pep" => Sound(pep)
  <2>1. pep = [k \in H |-> makeMatch("pep-match", bestNameMatch(es[k]))]
    BY DEF screenNamesAgainstPep
  <2> HIDE DEF H, n, es, pep
  <2> QED
    BY <1>1, <1>2, <2>1 DEF MatchOf, FoundBy, H
<1>6. SOURCE_IDS[i] = "sec-edgar" => Sound(edgar)
  <2>1. edgar = [k \in {x \in H : bestNameMatch(es[x]) >= MATCH_THRESHOLD} |-> makeMatch("edgar-registration", bestNameMatch(es[k]))]
    BY DEF screenEntityAgainstEdgar
  <2> HIDE DEF H, n, es, edgar
  <2> QED
    BY <1>1, <1>2, <2>1 DEF MatchOf, FoundBy, H
<1>7. SOURCE_IDS[i] = "ofac-sdn" => Sound(wallet)
  <2>1. wallet = [k \in (IF subject.wallet THEN {n + 1} ELSE {}) |-> makeMatch("wallet-exact", ONE)]
    BY DEF screenWalletAgainstSdn
  <2> HIDE DEF n, es, wallet
  <2> QED
    BY <1>1, <1>3, <2>1 DEF MatchOf, FoundBy
<1>8. Sound(<<>>)
  BY <1>1
<1>9. \A f, g : Sound(f) /\ Sound(g) => Sound(Joined(f, g))
  <2> SUFFICES ASSUME NEW f, NEW g, Sound(f), Sound(g) PROVE Sound(Joined(f, g))
    BY Zenon
  <2>1. Joined(f, g) = [k \in DOMAIN f \cup DOMAIN g |-> IF k \in DOMAIN f THEN f[k] ELSE g[k]]
    BY DEF Joined
  <2> HIDE DEF n, es
  <2> QED
    BY <2>1
<1>10. Sound(ms)
  <2> HIDE DEF Sound, names, pep, edgar, wallet, es
  <2>1. ms = CASE SOURCE_IDS[i] = "sec-edgar" -> IF subject.kind = "entity" THEN edgar ELSE <<>>
              [] SOURCE_IDS[i] = "opensanctions-pep" -> IF subject.kind = "wallet" THEN <<>> ELSE pep
              [] OTHER -> Joined(IF subject.kind = "wallet" THEN <<>> ELSE names, wallet)
    BY DEF AllMatches, es, names, pep, edgar, wallet
  <2>2. CASE SOURCE_IDS[i] = "sec-edgar"
    <3>1. ms = IF subject.kind = "entity" THEN edgar ELSE <<>>
      BY <2>1, <2>2
    <3> QED
      BY <1>6, <1>8, <2>2, <3>1
  <2>3. CASE SOURCE_IDS[i] = "opensanctions-pep"
    <3>1. ms = IF subject.kind = "wallet" THEN <<>> ELSE pep
      BY <2>1, <2>3
    <3> QED
      BY <1>5, <1>8, <2>3, <3>1
  <2>4. CASE SOURCE_IDS[i] = "ofac-sdn"
    <3>1. ms = Joined(IF subject.kind = "wallet" THEN <<>> ELSE names, wallet)
      BY <2>1, <2>4
    <3> QED
      BY <1>4, <1>7, <1>8, <1>9, <2>4, <3>1
  <2>5. SOURCE_IDS[i] \in {"ofac-sdn", "opensanctions-pep", "sec-edgar"}
    <3>1. i = 1 \/ i = 2 \/ i = 3
      OBVIOUS
    <3> QED
      BY <3>1, SourceIds
  <2> QED
    BY <2>2, <2>3, <2>4, <2>5
<1>11. IsFiniteSet(1 .. n + 1)
  <2> HIDE DEF n
  <2> QED
    BY <1>1, FS_Interval
<1>12. 1 .. n + 1 \in SUBSET Nat
  <2> HIDE DEF n
  <2> QED
    BY <1>1
<1>13. DOMAIN ms \in SUBSET (1 .. n + 1)
  BY <1>10
<1>14. DOMAIN ms \in SUBSET Nat /\ IsFiniteSet(DOMAIN ms)
  <2> HIDE DEF n
  <2> QED
    BY <1>11, <1>12, <1>13, FS_Subset
<1> QED
  BY <1>10, <1>14

(* What is kept of some matches: matches of theirs, the best by its rounded *)
(* score first.                                                            *)
LEMMA KeptIs ==
  ASSUME NEW ms, DOMAIN ms \in SUBSET Nat, IsFiniteSet(DOMAIN ms), \A i \in DOMAIN ms : ms[i].score \in Int
  PROVE  \E n \in Nat :
           /\ Kept(ms) = [k \in 1 .. n |-> Kept(ms)[k]]
           /\ \A k \in 1 .. n : \E i \in DOMAIN ms : Kept(ms)[k] = ms[i]
           /\ DOMAIN ms # {} => 1 \in 1 .. n /\ \A i \in DOMAIN ms : ms[i].score <= Kept(ms)[1].score
<1> DEFINE D == DOMAIN ms
           R == {e \in D \X D : Better(ms, e[1], e[2])}
           at(k) == CHOOSE i \in D : Place(ms, i) = k
           n == IF Cardinality(D) < MAX_MATCHES_PER_SOURCE THEN Cardinality(D) ELSE MAX_MATCHES_PER_SOURCE
<1>1. StrictlyOrdered(D, R)
  BY DEF StrictlyOrdered, Better
<1>2. \A i \in D : Place(ms, i) = Cardinality(Lower(D, R, i)) + 1
  <2>1. \A i \in D : Lower(D, R, i) = {j \in D : Better(ms, j, i)}
    BY DEF Lower
  <2> QED
    BY <2>1 DEF Place
<1>3. Cardinality(D) \in Nat /\ \A k \in 0 .. Cardinality(D) - 1 : \E x \in D : Cardinality(Lower(D, R, x)) = k
  <2> HIDE DEF D, R
  <2> QED
    BY <1>1, PlaceTaken DEF D
<1>4. n \in Nat /\ n <= Cardinality(D)
  <2> HIDE DEF D
  <2> QED
    BY <1>3, ScreeningAssumption
<1>5. Kept(ms) = [k \in 1 .. n |-> ms[at(k)]]
  BY DEF Kept
<1>6. \A k \in 1 .. n : at(k) \in D /\ Place(ms, at(k)) = k
  <2> SUFFICES ASSUME NEW k \in 1 .. n PROVE at(k) \in D /\ Place(ms, at(k)) = k
    OBVIOUS
  <2>1. k \in Int /\ k - 1 \in 0 .. Cardinality(D) - 1
    <3> HIDE DEF D, n
    <3> QED
      BY <1>3, <1>4
  <2>2. \E x \in D : Place(ms, x) = k
    <3>1. PICK x \in D : Cardinality(Lower(D, R, x)) = k - 1
      <4> HIDE DEF D, R
      <4> QED
        BY <1>3, <2>1
    <3> HIDE DEF D, R, n
    <3> QED
      BY <1>2, <2>1, <3>1
  <2> QED
    BY <2>2, Zenon
<1>7. ASSUME D # {} PROVE 1 \in 1 .. n /\ \A i \in D : ms[i].score <= ms[at(1)].score
  <2>1. Cardinality(D) # 0
    <3> HIDE DEF D
    <3> QED
      BY <1>7, FS_EmptySet DEF D
  <2>2. 1 \in 1 .. n
    <3> HIDE DEF D
    <3> QED
      BY <1>3, <2>1, ScreeningAssumption
  <2>3. at(1) \in D /\ Place(ms, at(1)) = 1
    BY <1>6, <2>2
  <2>4. IsFiniteSet(Lower(D, R, at(1))) /\ Lower(D, R, at(1)) \in SUBSET D
    <3>1. Lower(D, R, at(1)) \in SUBSET D
      BY DEF Lower
    <3> HIDE DEF D, R, at
    <3> QED
      BY <3>1, FS_Subset DEF D
  <2>5. Lower(D, R, at(1)) = {}
    <3> HIDE DEF D, R, at
    <3>1. Cardinality(Lower(D, R, at(1))) \in Nat
      BY <2>4, FS_CardinalityType
    <3>2. Cardinality(Lower(D, R, at(1))) = 0
      BY <1>2, <2>3, <3>1
    <3> QED
      BY <2>4, <3>2, FS_EmptySet
  <2>6. \A i \in D : ~Better(ms, i, at(1))
    <3> HIDE DEF at
    <3> QED
      BY <2>3, <2>5 DEF Lower
  <2> HIDE DEF at
  <2> QED
    BY <2>2, <2>3, <2>6 DEF Better
<1> HIDE DEF at, n
<1>8. Kept(ms) = [k \in 1 .. n |-> Kept(ms)[k]] /\ \A k \in 1 .. n : Kept(ms)[k] = ms[at(k)]
  BY <1>5
<1> QED
  BY <1>4, <1>6, <1>7, <1>8

-----------------------------------------------------------------------------
(* Severities: a match of a source is one at its bar, and what is recorded *)
(* is what is derived from the rounded score unless that crossed the bar.  *)

Bar(id) == IF id = "opensanctions-pep" THEN ONE ELSE MATCH_THRESHOLD
JudgedAt(id, score) == IF id = "sec-edgar" THEN "info" ELSE IF score >= Bar(id) THEN "match" ELSE "potential-match"

LEMMA SeverityIs ==
  ASSUME NEW id, NEW m, NEW b \in Int, b >= POTENTIAL_THRESHOLD, MatchOf(id, m, b)
  PROVE  /\ m.score = round6(b) /\ round6(b) \in Int
         /\ m.severity = JudgedAt(id, b)
         /\ severityForMatch(m.method, m.score) = JudgedAt(id, round6(b))
         /\ ~RoundedAcross(b) => JudgedAt(id, b) = JudgedAt(id, round6(b))
<1>1. {ONE, MATCH_THRESHOLD, POTENTIAL_THRESHOLD} \subseteq Int /\ MATCH_THRESHOLD <= ONE /\ POTENTIAL_THRESHOLD <= MATCH_THRESHOLD
  BY ScreeningAssumption
<1>2. ONE \in Thresholds /\ MATCH_THRESHOLD \in Thresholds /\ POTENTIAL_THRESHOLD \in Thresholds /\ Bar(id) \in Thresholds
  BY DEF Thresholds, Bar
<1>3. round6(b) \in Int /\ round6(b) >= POTENTIAL_THRESHOLD
  BY <1>2, RoundsUp
<1>4. b >= ONE => round6(b) >= ONE
  BY <1>2, RoundsUp
<1>5. ~RoundedAcross(b) => (round6(b) >= Bar(id) <=> b >= Bar(id))
  BY <1>2, RoundsUp
<1>6. PICK method \in {"exact", "jaro-winkler", "wallet-exact", "pep-match", "edgar-registration"} : m = makeMatch(method, b)
  BY DEF MatchOf, Method
<1>7. m.method = method /\ m.score = round6(b) /\ m.severity = severityForMatch(method, b)
  BY <1>6 DEF makeMatch
<1>8. \/ id = "ofac-sdn" /\ method = Method(b)
      \/ id = "ofac-sdn" /\ b = ONE /\ method = "wallet-exact"
      \/ id = "opensanctions-pep" /\ method = "pep-match"
      \/ id = "sec-edgar" /\ method = "edgar-registration"
  <2>1. \A x : m = makeMatch(x, b) => x = method
    BY <1>6 DEF makeMatch
  <2> QED
    BY <2>1 DEF MatchOf
<1>9. severityForMatch(method, b) = JudgedAt(id, b) /\ severityForMatch(method, round6(b)) = JudgedAt(id, round6(b))
  <2>1. CASE id = "ofac-sdn" /\ method = Method(b)
    BY <1>1, <1>3, <1>4, <2>1 DEF severityForMatch, Method, JudgedAt, Bar, classifyScore
  <2>2. CASE id = "ofac-sdn" /\ b = ONE /\ method = "wallet-exact"
    BY <1>1, <1>3, <1>4, <2>2 DEF severityForMatch, JudgedAt, Bar
  <2>3. CASE id = "opensanctions-pep" /\ method = "pep-match"
    BY <1>1, <1>3, <2>3 DEF severityForMatch, JudgedAt, Bar
  <2>4. CASE id = "sec-edgar" /\ method = "edgar-registration"
    BY <2>4 DEF severityForMatch, JudgedAt
  <2> QED
    BY <1>8, <2>1, <2>2, <2>3, <2>4
<1> QED
  BY <1>3, <1>5, <1>7, <1>9 DEF JudgedAt

-----------------------------------------------------------------------------
(* What the report says of each source.                                    *)

RefRun(i, g) == g = [k \in 1 .. i |-> IF k = 1 THEN 1 ELSE g[k - 1] + Downloads(k - 1)]

LEMMA FirstRefIsInt ==
  ASSUME ScreenTyped, NEW i \in 1 .. 3
  PROVE  FirstRef(i) \in Int
<1>1. \A k \in 1 .. 3 : Downloads(k) \in Nat
  BY InputsTyped DEF Downloads
<1>2. \E g : RefRun(i, g)
  <2> DEFINE d1 == Downloads(1)
             d2 == Downloads(2)
             g == [k \in 1 .. i |-> IF k = 1 THEN 1 ELSE IF k = 2 THEN 1 + d1 ELSE 1 + d1 + d2]
  <2>1. d1 \in Nat /\ d2 \in Nat
    BY <1>1
  <2>2. \A k \in 1 .. i : k = 1 \/ (k = 2 /\ 1 \in 1 .. i) \/ (k = 3 /\ 2 \in 1 .. i)
    OBVIOUS
  <2>3. \A k \in 1 .. i : g[k] = IF k = 1 THEN 1 ELSE g[k - 1] + Downloads(k - 1)
    <3> SUFFICES ASSUME NEW k \in 1 .. i PROVE g[k] = IF k = 1 THEN 1 ELSE g[k - 1] + Downloads(k - 1)
      OBVIOUS
    <3>1. CASE k = 1
      BY <3>1
    <3>2. CASE k = 2 /\ 1 \in 1 .. i
      <4>1. g[k - 1] = 1 /\ Downloads(k - 1) = d1
        BY <3>2
      <4>2. g[k] = 1 + d1
        BY <3>2
      <4> QED
        BY <3>2, <4>1, <4>2
    <3>3. CASE k = 3 /\ 2 \in 1 .. i
      <4>1. g[k - 1] = 1 + d1 /\ Downloads(k - 1) = d2
        BY <3>3
      <4>2. g[k] = 1 + d1 + d2
        BY <3>3
      <4> QED
        BY <3>3, <4>1, <4>2
    <3> QED
      BY <2>2, <3>1, <3>2, <3>3
  <2>4. RefRun(i, g)
    <3>1. g = [k \in 1 .. i |-> g[k]]
      OBVIOUS
    <3> HIDE DEF g
    <3> QED
      BY <2>3, <3>1 DEF RefRun
  <2> QED
    BY <2>4
<1> DEFINE n == CHOOSE g : RefRun(i, g)
<1>3. RefRun(i, n)
  BY <1>2
<1>4. FirstRef(i) = n[i]
  BY Zenon DEF FirstRef, RefRun
<1> HIDE DEF n
<1>5. \A k \in 1 .. i : n[k] = IF k = 1 THEN 1 ELSE n[k - 1] + Downloads(k - 1)
  BY <1>3 DEF RefRun
<1>6. n[1] = 1
  BY <1>5
<1>7. i >= 2 => n[2] = n[1] + Downloads(1)
  BY <1>5
<1>8. i >= 3 => n[3] = n[2] + Downloads(2)
  BY <1>5
<1>9. i = 1 \/ i = 2 \/ i = 3
  OBVIOUS
<1> QED
  BY <1>1, <1>4, <1>6, <1>7, <1>8, <1>9

LEMMA RefsAre ==
  ASSUME ScreenTyped, NEW i \in 1 .. 3
  PROVE  RefsOf(i) = {} <=> inputs[i].gap
<1>1. FirstRef(i) \in Int
  BY FirstRefIsInt
<1>2. Downloads(i) = IF inputs[i].gap THEN 0 ELSE IF SOURCE_IDS[i] = "ofac-sdn" THEN 2 ELSE 1
  BY DEF Downloads
<1>3. CASE inputs[i].gap
  BY <1>1, <1>2, <1>3 DEF RefsOf
<1>4. CASE ~inputs[i].gap
  <2>1. FirstRef(i) \in RefsOf(i)
    BY <1>1, <1>2, <1>4 DEF RefsOf
  <2> QED
    BY <1>4, <2>1
<1> QED
  BY <1>3, <1>4

GoodMatch(i, m) ==
  \E b \in Int : b >= POTENTIAL_THRESHOLD /\ MatchOf(SOURCE_IDS[i], m, b) /\ FoundBy(inputs[i].entries, m, b)
GoodResult(i, p) ==
  /\ p = [id |-> p.id, status |-> p.status, refs |-> p.refs, matches |-> p.matches, verdict |-> p.verdict]
  /\ p.id = SOURCE_IDS[i] /\ p.refs = RefsOf(i)
  /\ IF inputs[i].gap THEN p.status = "gap" /\ p.matches = <<>>
     ELSE p.status = "screened" /\ p.verdict = aggregateVerdict(Severities(p.matches))
          /\ p.matches = Kept(AllMatches(SOURCE_IDS[i], inputs[i].entries))
  /\ \A k \in DOMAIN p.matches : GoodMatch(i, p.matches[k])

LEMMA ResultIs ==
  ASSUME ScreenTyped, NEW i \in 1 .. 3
  PROVE  GoodResult(i, SourceResult(i))
<1> DEFINE ms == AllMatches(SOURCE_IDS[i], inputs[i].entries)
<1>1. CASE inputs[i].gap
  <2>1. SourceResult(i) = [id |-> SOURCE_IDS[i], status |-> "gap", refs |-> {}, matches |-> <<>>, verdict |-> "none"]
    BY <1>1 DEF SourceResult
  <2>2. RefsOf(i) = {}
    BY <1>1, RefsAre
  <2> QED
    BY <1>1, <2>1, <2>2 DEF GoodResult
<1>2. CASE ~inputs[i].gap
  <2>1. SourceResult(i) = [id |-> SOURCE_IDS[i], status |-> "screened", refs |-> RefsOf(i), matches |-> Kept(ms),
                           verdict |-> aggregateVerdict(Severities(Kept(ms)))]
    BY <1>2, Zenon DEF SourceResult
  <2>2. DOMAIN ms \in SUBSET Nat /\ IsFiniteSet(DOMAIN ms) /\ \A k \in DOMAIN ms : GoodMatch(i, ms[k])
    BY MatchForms DEF GoodMatch
  <2> HIDE DEF ms
  <2>3. \A k \in DOMAIN ms : ms[k].score \in Int
    BY <2>2, SeverityIs DEF GoodMatch
  <2>4. \A k \in DOMAIN Kept(ms) : GoodMatch(i, Kept(ms)[k])
    BY <2>2, <2>3, KeptIs
  <2> QED
    BY <1>2, <2>1, <2>4 DEF GoodResult, ms
<1> QED
  BY <1>1, <1>2

(* The report of a subject.                                                *)
GoodReport(r) ==
  /\ r = [panel |-> r.panel, per |-> r.per, versions |-> r.versions, complete |-> r.complete, verdict |-> r.verdict]
  /\ r.panel = SOURCE_IDS /\ r.per = [i \in 1 .. 3 |-> r.per[i]]
  /\ \A i \in 1 .. 3 : GoodResult(i, r.per[i])
  /\ r.versions = UNION {{[id |-> v, source |-> SOURCE_IDS[i]] : v \in RefsOf(i)} : i \in 1 .. 3}
  /\ r.complete = (\A i \in 1 .. 3 : r.per[i].status = "screened")
  /\ r.verdict = aggregateVerdict(UNION {Severities(r.per[i].matches) : i \in 1 .. 3})

LEMMA ReportIs ==
  ASSUME ScreenTyped
  PROVE  GoodReport(screenSubject)
<1> DEFINE per == [i \in 1 .. 3 |-> SourceResult(i)]
           versions == UNION {{[id |-> r, source |-> SOURCE_IDS[i]] : r \in RefsOf(i)} : i \in 1 .. 3}
           complete == \A i \in 1 .. 3 : per[i].status = "screened"
           verdict == aggregateVerdict(UNION {Severities(per[i].matches) : i \in 1 .. 3})
<1>1. DOMAIN inputs = 1 .. 3
  BY InputsTyped
<1>2. screenSubject = [panel |-> SOURCE_IDS, per |-> per, versions |-> versions, complete |-> complete, verdict |-> verdict]
  BY <1>1, Zenon DEF screenSubject
<1>3. \A i \in 1 .. 3 : GoodResult(i, per[i])
  BY ResultIs
<1>4. per = [i \in 1 .. 3 |-> per[i]]
  OBVIOUS
<1>5. /\ versions = UNION {{[id |-> r, source |-> SOURCE_IDS[i]] : r \in RefsOf(i)} : i \in 1 .. 3}
      /\ complete = (\A i \in 1 .. 3 : per[i].status = "screened")
      /\ verdict = aggregateVerdict(UNION {Severities(per[i].matches) : i \in 1 .. 3})
  BY Zenon
<1> HIDE DEF per, versions, complete, verdict
<1>6. /\ screenSubject.panel = SOURCE_IDS /\ screenSubject.per = per /\ screenSubject.versions = versions
      /\ screenSubject.complete = complete /\ screenSubject.verdict = verdict
  BY <1>2
<1>7. screenSubject = [panel |-> screenSubject.panel, per |-> screenSubject.per, versions |-> screenSubject.versions,
                       complete |-> screenSubject.complete, verdict |-> screenSubject.verdict]
  BY <1>2, <1>6
<1> QED
  BY <1>3, <1>4, <1>5, <1>6, <1>7, Zenon DEF GoodReport

LEMMA JudgedByScore ==
  ASSUME ScreenTyped, ~SomeRounded, NEW i \in 1 .. 3, NEW m, GoodMatch(i, m)
  PROVE  /\ m.score \in Int /\ m.severity = JudgedAt(SOURCE_IDS[i], m.score)
         /\ severityForMatch(m.method, m.score) = m.severity
<1>1. PICK b \in Int : b >= POTENTIAL_THRESHOLD /\ MatchOf(SOURCE_IDS[i], m, b) /\ FoundBy(inputs[i].entries, m, b)
  BY DEF GoodMatch
<1>2. ~RoundedAcross(b)
  <2>1. CASE \E k \in Hits(inputs[i].entries) : b = bestNameMatch(inputs[i].entries[k])
    <3>1. i \in DOMAIN inputs
      BY InputsTyped
    <3> QED
      BY <2>1, <3>1, Zenon DEF SomeRounded
  <2>2. CASE b = ONE
    BY <2>2, ScreeningAssumption DEF RoundedAcross
  <2> QED
    BY <1>1, <2>1, <2>2 DEF FoundBy
<1>3. /\ m.score = round6(b) /\ round6(b) \in Int
      /\ m.severity = JudgedAt(SOURCE_IDS[i], b)
      /\ severityForMatch(m.method, m.score) = JudgedAt(SOURCE_IDS[i], round6(b))
      /\ JudgedAt(SOURCE_IDS[i], b) = JudgedAt(SOURCE_IDS[i], round6(b))
  BY <1>1, <1>2, SeverityIs
<1> QED
  BY <1>3

LEMMA PanelFormIs ==
  /\ {SOURCE_IDS[i] : i \in DOMAIN SOURCE_IDS} = {"ofac-sdn", "opensanctions-pep", "sec-edgar"}
  /\ Expected = {"ofac-sdn", "opensanctions-pep", "sec-edgar"}
  /\ Cardinality(Expected) = 3
<1>1. \A i \in 1 .. 3 : i = 1 \/ i = 2 \/ i = 3
  OBVIOUS
<1>2. {SOURCE_IDS[i] : i \in DOMAIN SOURCE_IDS} = {"ofac-sdn", "opensanctions-pep", "sec-edgar"}
  <2>1. 1 \in DOMAIN SOURCE_IDS /\ 2 \in DOMAIN SOURCE_IDS /\ 3 \in DOMAIN SOURCE_IDS
    BY SourceIds
  <2> QED
    BY <1>1, <2>1, SourceIds
<1>3. IsFiniteSet({"ofac-sdn"}) /\ Cardinality({"ofac-sdn"}) = 1
  BY FS_Singleton
<1> DEFINE two == {"ofac-sdn"} \cup {"opensanctions-pep"}
<1>4. IsFiniteSet(two) /\ Cardinality(two) = 2
  <2>1. "opensanctions-pep" \notin {"ofac-sdn"}
    OBVIOUS
  <2> QED
    BY <1>3, <2>1, FS_AddElement
<1>5. Cardinality(two \cup {"sec-edgar"}) = 3
  <2>1. "sec-edgar" \notin two
    OBVIOUS
  <2> HIDE DEF two
  <2> QED
    BY <1>4, <2>1, FS_AddElement
<1>6. two \cup {"sec-edgar"} = {"ofac-sdn", "opensanctions-pep", "sec-edgar"}
  OBVIOUS
<1> QED
  BY <1>2, <1>5, <1>6 DEF Expected

LEMMA PanelCovered ==
  ASSUME ScreenTyped, NEW r, GoodReport(r)
  PROVE  /\ CoversPanel(r, Expected)
         /\ DOMAIN r.per = 1 .. 3 /\ Len(r.panel) = 3 /\ r.per # <<>>
         /\ Cardinality({r.per[i].id : i \in DOMAIN r.per}) = 3
<1>1. DOMAIN r.per = 1 .. 3 /\ r.panel = SOURCE_IDS /\ \A i \in 1 .. 3 : r.per[i].id = SOURCE_IDS[i]
  BY DEF GoodReport, GoodResult
<1>2. {r.per[i].id : i \in DOMAIN r.per} = Expected
  BY <1>1, SourceIds DEF Expected
<1>3. {r.panel[i] : i \in DOMAIN r.panel} = Expected
  BY <1>1 DEF Expected
<1>4. Len(r.per) = 3
  BY <1>1
<1>5. Len(r.panel) = 3
  BY <1>1, SourceIds
<1>6. r.per # <<>>
  BY <1>1
<1> QED
  BY <1>1, <1>2, <1>3, <1>4, <1>5, <1>6, PanelFormIs DEF CoversPanel

(* A report passes the verification unless a score was rounded up to a     *)
(* threshold.                                                              *)
LEMMA ReportVerifies ==
  ASSUME ScreenTyped, ~SomeRounded, NEW r, GoodReport(r)
  PROVE  verifyScreening(r, Expected)
<1> DEFINE screened == {i \in DOMAIN r.per : r.per[i].status = "screened"}
           derived(i) == {severityForMatch(r.per[i].matches[k].method, r.per[i].matches[k].score) : k \in DOMAIN r.per[i].matches}
<1>1. DOMAIN r.per = 1 .. 3 /\ \A i \in 1 .. 3 : GoodResult(i, r.per[i])
  BY PanelCovered DEF GoodReport
<1>2. \A i \in 1 .. 3 : derived(i) = Severities(r.per[i].matches)
  <2> SUFFICES ASSUME NEW i \in 1 .. 3 PROVE derived(i) = Severities(r.per[i].matches)
    OBVIOUS
  <2>1. \A k \in DOMAIN r.per[i].matches : GoodMatch(i, r.per[i].matches[k])
    BY <1>1, Zenon DEF GoodResult
  <2>2. \A k \in DOMAIN r.per[i].matches :
           severityForMatch(r.per[i].matches[k].method, r.per[i].matches[k].score) = r.per[i].matches[k].severity
    BY <2>1, JudgedByScore
  <2> QED
    BY <2>2 DEF Severities
<1>3. \A i \in 1 .. 3 : r.per[i].status = "screened" <=> ~inputs[i].gap
  BY <1>1 DEF GoodResult
<1>4. ASSUME NEW i \in screened
      PROVE  /\ r.per[i].refs # {}
             /\ \A ref \in r.per[i].refs : [id |-> ref, source |-> r.per[i].id] \in r.versions
             /\ \A k \in DOMAIN r.per[i].matches :
                  LET m == r.per[i].matches[k] IN severityForMatch(m.method, m.score) \in {m.severity} \ {"none"}
             /\ r.per[i].verdict = aggregateVerdict(derived(i))
  <2>1. i \in 1 .. 3 /\ ~inputs[i].gap /\ GoodResult(i, r.per[i])
    BY <1>1, <1>3
  <2>2. r.per[i].refs # {}
    BY <2>1, RefsAre DEF GoodResult
  <2>3. \A ref \in r.per[i].refs : [id |-> ref, source |-> r.per[i].id] \in r.versions
    <3>1. r.versions = UNION {{[id |-> v, source |-> SOURCE_IDS[j]] : v \in RefsOf(j)} : j \in 1 .. 3}
      BY DEF GoodReport
    <3>2. r.per[i].refs = RefsOf(i) /\ r.per[i].id = SOURCE_IDS[i]
      BY <2>1 DEF GoodResult
    <3> QED
      BY <2>1, <3>1, <3>2
  <2>4. ASSUME NEW k \in DOMAIN r.per[i].matches
        PROVE  LET m == r.per[i].matches[k] IN severityForMatch(m.method, m.score) \in {m.severity} \ {"none"}
    <3> DEFINE m == r.per[i].matches[k]
    <3>1. GoodMatch(i, m)
      BY <2>1, Zenon DEF GoodResult
    <3> HIDE DEF m
    <3>2. m.severity = JudgedAt(SOURCE_IDS[i], m.score) /\ severityForMatch(m.method, m.score) = m.severity
      BY <2>1, <3>1, JudgedByScore
    <3>3. m.severity # "none"
      BY <3>2 DEF JudgedAt
    <3>4. severityForMatch(m.method, m.score) \in {m.severity} \ {"none"}
      BY <3>2, <3>3
    <3> QED
      BY <3>4 DEF m
  <2>5. r.per[i].verdict = aggregateVerdict(derived(i))
    BY <1>2, <2>1 DEF GoodResult
  <2> QED
    BY <2>2, <2>3, <2>4, <2>5
<1>5. CoversPanel(r, Expected)
  BY PanelCovered
<1>6. r.complete = (r.per # <<>> /\ screened = DOMAIN r.per /\ Len(r.panel) = Cardinality({r.per[i].id : i \in DOMAIN r.per}))
  <2>1. r.per # <<>> /\ Len(r.panel) = Cardinality({r.per[i].id : i \in DOMAIN r.per})
    BY PanelCovered
  <2>2. r.complete = (\A i \in 1 .. 3 : r.per[i].status = "screened")
    BY DEF GoodReport
  <2>3. screened = DOMAIN r.per <=> \A i \in 1 .. 3 : r.per[i].status = "screened"
    BY <1>1
  <2> QED
    BY <2>1, <2>2, <2>3
<1>7. r.verdict = aggregateVerdict(UNION {derived(i) : i \in screened})
  <2>1. r.verdict = aggregateVerdict(UNION {Severities(r.per[i].matches) : i \in 1 .. 3})
    BY DEF GoodReport
  <2>2. \A i \in 1 .. 3 : i \notin screened => Severities(r.per[i].matches) = {}
    BY <1>1, <1>3 DEF GoodResult, Severities
  <2>3. UNION {Severities(r.per[i].matches) : i \in 1 .. 3} = UNION {derived(i) : i \in screened}
    <3> HIDE DEF derived
    <3>1. screened \in SUBSET (1 .. 3)
      BY <1>1
    <3> HIDE DEF screened
    <3> QED
      BY <1>2, <2>2, <3>1
  <2> QED
    BY <2>1, <2>3
<1> QED
  BY <1>4, <1>5, <1>6, <1>7, Zenon DEF verifyScreening

(* Of a source, the kept matches call for the verdict that all call for.   *)
Grave == {"match", "potential-match"}
AgreeOn(A, B) == ("match" \in A <=> "match" \in B) /\ (A \cap Grave # {} <=> B \cap Grave # {})

LEMMA KeptIsGrave ==
  ASSUME ScreenTyped, ~SomeRounded, NEW i \in 1 .. 3
  PROVE  LET ms == AllMatches(SOURCE_IDS[i], inputs[i].entries) IN
         AgreeOn(Severities(Kept(ms)), Severities(ms))
<1> DEFINE ms == AllMatches(SOURCE_IDS[i], inputs[i].entries)
           id == SOURCE_IDS[i]
<1>1. DOMAIN ms \in SUBSET Nat /\ IsFiniteSet(DOMAIN ms) /\ \A k \in DOMAIN ms : GoodMatch(i, ms[k])
  BY MatchForms DEF GoodMatch
<1> HIDE DEF ms
<1>2. \A k \in DOMAIN ms : ms[k].score \in Int /\ ms[k].severity = JudgedAt(id, ms[k].score)
  BY <1>1, JudgedByScore
<1>3. PICK n \in Nat :
        /\ Kept(ms) = [k \in 1 .. n |-> Kept(ms)[k]]
        /\ \A k \in 1 .. n : \E j \in DOMAIN ms : Kept(ms)[k] = ms[j]
        /\ DOMAIN ms # {} => 1 \in 1 .. n /\ \A j \in DOMAIN ms : ms[j].score <= Kept(ms)[1].score
  BY <1>1, <1>2, KeptIs
<1> DEFINE ks == Kept(ms)
<1>4. DOMAIN ks = 1 .. n
  BY <1>3
<1> HIDE DEF ks, id
<1>5. Severities(ks) \subseteq Severities(ms)
  BY <1>3, <1>4 DEF Severities, ks
<1>6. ASSUME NEW j \in DOMAIN ms
      PROVE  \E k \in DOMAIN ks : ks[k].severity = JudgedAt(id, ks[k].score) /\ ks[k].score >= ms[j].score /\ ks[k].score \in Int
  <2>1. 1 \in DOMAIN ks /\ ms[j].score <= ks[1].score
    BY <1>3, <1>4, <1>6 DEF ks
  <2>2. PICK l \in DOMAIN ms : ks[1] = ms[l]
    BY <1>3, <1>4, <2>1 DEF ks
  <2> QED
    BY <1>2, <2>1, <2>2
<1>7. Bar(id) \in Int
  BY ScreeningAssumption DEF Bar
<1>8. ASSUME NEW s \in Severities(ms), s \in Grave
      PROVE  \E x \in Severities(ks) : x \in Grave /\ (s = "match" => x = "match")
  <2>1. PICK j \in DOMAIN ms : s = ms[j].severity
    BY DEF Severities
  <2>2. PICK k \in DOMAIN ks : ks[k].severity = JudgedAt(id, ks[k].score) /\ ks[k].score >= ms[j].score /\ ks[k].score \in Int
    BY <1>6
  <2>3. id # "sec-edgar"
    BY <1>2, <1>8, <2>1 DEF JudgedAt, Grave
  <2>4. ks[k].severity \in Grave
    BY <2>2, <2>3 DEF JudgedAt, Grave
  <2>5. s = "match" => ms[j].score >= Bar(id)
    BY <1>2, <2>1, <2>3 DEF JudgedAt
  <2>6. s = "match" => ks[k].severity = "match"
    BY <1>2, <1>7, <2>2, <2>3, <2>5 DEF JudgedAt
  <2> QED
    BY <2>4, <2>6 DEF Severities
<1>9. AgreeOn(Severities(ks), Severities(ms))
  <2>1. "match" \in Grave
    BY DEF Grave
  <2> HIDE DEF ms
  <2> QED
    BY <1>5, <1>8, <2>1 DEF AgreeOn
<1> QED
  BY <1>9, Zenon DEF ms, ks

LEMMA VerdictSame ==
  ASSUME NEW A, NEW B, AgreeOn(A, B)
  PROVE  aggregateVerdict(A) = aggregateVerdict(B)
<1>1. CASE "match" \in A
  BY <1>1 DEF AgreeOn, aggregateVerdict
<1>2. CASE "match" \notin A /\ A \cap Grave # {}
  <2>1. "potential-match" \in A /\ "potential-match" \in B /\ "match" \notin B
    BY <1>2 DEF AgreeOn, Grave
  <2> QED
    BY <1>2, <2>1 DEF aggregateVerdict
<1>3. CASE A \cap Grave = {}
  <2>1. B \cap Grave = {}
    BY <1>3 DEF AgreeOn
  <2> QED
    BY <1>3, <2>1 DEF aggregateVerdict, Grave
<1> QED
  BY <1>1, <1>2, <1>3

LEMMA TruncationSound ==
  ASSUME ScreenTyped, ~SomeRounded, NEW r, GoodReport(r)
  PROVE  r.verdict = aggregateVerdict(UNION {Severities(AllMatches(SOURCE_IDS[i], inputs[i].entries)) :
                                             i \in {k \in DOMAIN inputs : ~inputs[k].gap}})
<1> DEFINE all(i) == Severities(AllMatches(SOURCE_IDS[i], inputs[i].entries))
           kept(i) == Severities(r.per[i].matches)
           good == {k \in 1 .. 3 : ~inputs[k].gap}
<1>1. DOMAIN inputs = 1 .. 3
  BY InputsTyped
<1>2. \A i \in good : AgreeOn(kept(i), all(i))
  <2> SUFFICES ASSUME NEW i \in good PROVE AgreeOn(kept(i), all(i))
    OBVIOUS
  <2>1. i \in 1 .. 3 /\ ~inputs[i].gap /\ GoodResult(i, r.per[i])
    BY DEF GoodReport
  <2>2. r.per[i].matches = Kept(AllMatches(SOURCE_IDS[i], inputs[i].entries))
    BY <2>1, Zenon DEF GoodResult
  <2> QED
    BY <2>1, <2>2, KeptIsGrave
<1>3. \A i \in 1 .. 3 : i \notin good => kept(i) = {}
  BY DEF GoodReport, GoodResult, Severities
<1> HIDE DEF all, kept
<1>4. AgreeOn(UNION {kept(i) : i \in 1 .. 3}, UNION {all(i) : i \in good})
  <2>1. ASSUME NEW x, x \in UNION {kept(i) : i \in 1 .. 3} PROVE \E i \in good : x \in kept(i)
    BY <1>3, <2>1
  <2>2. "match" \in UNION {kept(i) : i \in 1 .. 3} <=> "match" \in UNION {all(i) : i \in good}
    <3>1. \A i \in good : "match" \in kept(i) <=> "match" \in all(i)
      BY <1>2 DEF AgreeOn
    <3>2. good \in SUBSET (1 .. 3)
      OBVIOUS
    <3> HIDE DEF good
    <3> QED
      BY <2>1, <3>1, <3>2
  <2>3. \A i \in good : kept(i) \cap Grave # {} <=> all(i) \cap Grave # {}
    BY <1>2 DEF AgreeOn
  <2>4. (UNION {kept(i) : i \in 1 .. 3}) \cap Grave # {} => (UNION {all(i) : i \in good}) \cap Grave # {}
    <3> SUFFICES ASSUME NEW x \in Grave, x \in UNION {kept(i) : i \in 1 .. 3} PROVE (UNION {all(i) : i \in good}) \cap Grave # {}
      OBVIOUS
    <3>1. PICK i \in good : x \in kept(i)
      BY <2>1
    <3>2. PICK y \in all(i) : y \in Grave
      BY <2>3, <3>1
    <3> QED
      BY <3>1, <3>2
  <2>5. (UNION {all(i) : i \in good}) \cap Grave # {} => (UNION {kept(i) : i \in 1 .. 3}) \cap Grave # {}
    <3> SUFFICES ASSUME NEW x \in Grave, x \in UNION {all(i) : i \in good} PROVE (UNION {kept(i) : i \in 1 .. 3}) \cap Grave # {}
      OBVIOUS
    <3>1. PICK i \in good : x \in all(i)
      OBVIOUS
    <3>2. PICK y \in kept(i) : y \in Grave
      BY <2>3, <3>1
    <3> QED
      BY <3>1, <3>2
  <2> QED
    BY <2>2, <2>4, <2>5 DEF AgreeOn
<1>5. r.verdict = aggregateVerdict(UNION {kept(i) : i \in 1 .. 3})
  BY DEF GoodReport, kept
<1>6. r.verdict = aggregateVerdict(UNION {all(i) : i \in good})
  BY <1>4, <1>5, VerdictSame
<1> QED
  BY <1>1, <1>6 DEF all

(* A verdict of match rests on a wallet, an exact name or a sanctions list. *)
LEMMA MatchRestsOn ==
  ASSUME ScreenTyped, NEW r, GoodReport(r), r.verdict = "match"
  PROVE  \/ subject.wallet
         \/ \E i \in DOMAIN inputs : ~inputs[i].gap /\ \E k \in DOMAIN inputs[i].entries :
              LET best == bestNameMatch(inputs[i].entries[k]) IN
              best >= ONE \/ (SOURCE_IDS[i] = "ofac-sdn" /\ best >= MATCH_THRESHOLD)
<1>1. DOMAIN inputs = 1 .. 3
  BY InputsTyped
<1>2. "match" \in UNION {Severities(r.per[i].matches) : i \in 1 .. 3}
  <2>1. r.verdict = aggregateVerdict(UNION {Severities(r.per[i].matches) : i \in 1 .. 3})
    BY DEF GoodReport
  <2> QED
    BY <2>1 DEF aggregateVerdict
<1>3. PICK i \in 1 .. 3 : "match" \in Severities(r.per[i].matches)
  BY <1>2
<1>4. PICK j \in DOMAIN r.per[i].matches : r.per[i].matches[j].severity = "match"
  BY <1>3 DEF Severities
<1>5. GoodResult(i, r.per[i])
  BY DEF GoodReport
<1> DEFINE m == r.per[i].matches[j]
<1>6. GoodMatch(i, m)
  BY <1>5, Zenon DEF GoodResult
<1>7. ~inputs[i].gap
  BY <1>4, <1>5 DEF GoodResult
<1>8. m.severity = "match"
  BY <1>4
<1> HIDE DEF m
<1>9. PICK b \in Int : b >= POTENTIAL_THRESHOLD /\ MatchOf(SOURCE_IDS[i], m, b) /\ FoundBy(inputs[i].entries, m, b)
  BY <1>6 DEF GoodMatch
<1>10. m.severity = JudgedAt(SOURCE_IDS[i], b)
  BY <1>9, SeverityIs
<1>11. SOURCE_IDS[i] # "sec-edgar" /\ b >= Bar(SOURCE_IDS[i])
  BY <1>8, <1>10 DEF JudgedAt
<1>12. b >= ONE \/ (SOURCE_IDS[i] = "ofac-sdn" /\ b >= MATCH_THRESHOLD)
  <2>1. i = 1 \/ i = 2 \/ i = 3
    OBVIOUS
  <2> QED
    BY <1>11, <2>1, SourceIds DEF Bar
<1>13. CASE subject.wallet
  BY <1>13
<1>14. CASE \E k \in Hits(inputs[i].entries) : b = bestNameMatch(inputs[i].entries[k])
  <2>1. PICK k \in DOMAIN inputs[i].entries : b = bestNameMatch(inputs[i].entries[k])
    BY <1>14 DEF Hits
  <2> QED
    BY <1>1, <1>7, <1>12, <2>1
<1> QED
  BY <1>9, <1>13, <1>14 DEF FoundBy

-----------------------------------------------------------------------------
(* One thing changed in a report.                                          *)

(* What is left of a sequence stood at another place of it.                *)
LEMMA RemovedIs ==
  ASSUME NEW n \in Nat, NEW s, s = [k \in 1 .. n |-> s[k]], NEW i \in 1 .. n
  PROVE  /\ DOMAIN RemoveAt(s, i) = 1 .. n - 1 /\ Len(RemoveAt(s, i)) = n - 1
         /\ \A k \in 1 .. n - 1 : RemoveAt(s, i)[k] = IF k < i THEN s[k] ELSE s[k + 1]
<1> DEFINE a == SubSeq(s, 1, i - 1)
           b == SubSeq(s, i + 1, n)
<1>1. s \in Seq({s[k] : k \in 1 .. n}) /\ Len(s) = n
  <2>1. s \in [1 .. n -> {s[k] : k \in 1 .. n}]
    OBVIOUS
  <2>2. \A T : s \in [1 .. n -> T] => s \in Seq(T) /\ Len(s) = n
    OBVIOUS
  <2> QED
    BY <2>1, <2>2, Zenon
<1> DEFINE T == {s[k] : k \in 1 .. n}
<1> HIDE DEF T
<1>2. s \in Seq(T) /\ Len(s) = n
  BY <1>1 DEF T
<1>3. a \in Seq(T) /\ Len(a) = i - 1 /\ \A k \in 1 .. i - 1 : a[k] = s[k]
  BY <1>2
<1>4. b \in Seq(T) /\ Len(b) = n - i /\ \A k \in 1 .. n - i : b[k] = s[k + i]
  BY <1>2
<1>5. RemoveAt(s, i) = a \o b
  BY <1>2 DEF RemoveAt
<1> HIDE DEF a, b
<1>6. /\ Len(a \o b) = n - 1 /\ DOMAIN (a \o b) = 1 .. n - 1
      /\ \A k \in 1 .. n - 1 : (a \o b)[k] = IF k <= i - 1 THEN a[k] ELSE b[k - (i - 1)]
  BY <1>3, <1>4
<1>7. \A k \in 1 .. n - 1 : (a \o b)[k] = IF k < i THEN s[k] ELSE s[k + 1]
  <2> SUFFICES ASSUME NEW k \in 1 .. n - 1 PROVE (a \o b)[k] = IF k < i THEN s[k] ELSE s[k + 1]
    OBVIOUS
  <2>1. CASE k < i
    <3>1. k \in 1 .. i - 1 /\ k <= i - 1
      BY <2>1
    <3>2. a[k] = s[k]
      BY <1>3, <3>1
    <3> QED
      BY <1>6, <2>1, <3>1, <3>2
  <2>2. CASE ~(k < i)
    <3>1. k - (i - 1) \in 1 .. n - i /\ k - (i - 1) + i = k + 1 /\ ~(k <= i - 1)
      BY <2>2
    <3>2. b[k - (i - 1)] = s[k + 1]
      BY <1>4, <3>1
    <3> QED
      BY <1>6, <2>2, <3>1, <3>2
  <2> QED
    BY <2>1, <2>2
<1> QED
  BY <1>5, <1>6, <1>7

LEMMA RemovedOfThree ==
  ASSUME NEW s, s = [k \in 1 .. 3 |-> s[k]], NEW i \in 1 .. 3
  PROVE  /\ DOMAIN RemoveAt(s, i) = 1 .. 2
         /\ \A k \in 1 .. 2 : RemoveAt(s, i)[k] = IF k < i THEN s[k] ELSE s[k + 1]
<1>1. \A n \in Nat : n = 3 =>
        DOMAIN RemoveAt(s, i) = 1 .. n - 1 /\ \A k \in 1 .. n - 1 : RemoveAt(s, i)[k] = IF k < i THEN s[k] ELSE s[k + 1]
  <2> SUFFICES ASSUME NEW n \in Nat, n = 3
               PROVE  DOMAIN RemoveAt(s, i) = 1 .. n - 1 /\ \A k \in 1 .. n - 1 : RemoveAt(s, i)[k] = IF k < i THEN s[k] ELSE s[k + 1]
    OBVIOUS
  <2>1. s = [k \in 1 .. n |-> s[k]] /\ i \in 1 .. n
    OBVIOUS
  <2> QED
    BY <2>1, RemovedIs
<1>2. 3 \in Nat /\ 3 - 1 = 2
  OBVIOUS
<1> QED
  BY <1>1, <1>2

LEMMA SourceLeftOut ==
  ASSUME ScreenTyped, NEW r, GoodReport(r), NEW i \in 1 .. 3
  PROVE  /\ ~CoversPanel([r EXCEPT !.per = RemoveAt(@, i)], Expected)
         /\ ~CoversPanel([r EXCEPT !.per = RemoveAt(@, i), !.panel = RemoveAt(@, i)], Expected)
<1>1. r.per = [k \in 1 .. 3 |-> r.per[k]] /\ r.panel = SOURCE_IDS /\ \A k \in 1 .. 3 : r.per[k].id = SOURCE_IDS[k]
  BY DEF GoodReport, GoodResult
<1>2. r.panel = [k \in 1 .. 3 |-> r.panel[k]]
  BY <1>1 DEF SOURCE_IDS
<1>3. r = [panel |-> r.panel, per |-> r.per, versions |-> r.versions, complete |-> r.complete, verdict |-> r.verdict]
  BY DEF GoodReport
<1> DEFINE per == RemoveAt(r.per, i)
           panel == RemoveAt(r.panel, i)
           ids == {per[k].id : k \in DOMAIN per}
           left == {panel[k] : k \in DOMAIN panel}
<1>4. DOMAIN per = 1 .. 2 /\ \A k \in 1 .. 2 : per[k] = IF k < i THEN r.per[k] ELSE r.per[k + 1]
  <2> DEFINE full == r.per
  <2>1. full = [k \in 1 .. 3 |-> full[k]]
    BY <1>1
  <2> HIDE DEF full
  <2>2. DOMAIN RemoveAt(full, i) = 1 .. 2 /\ \A k \in 1 .. 2 : RemoveAt(full, i)[k] = IF k < i THEN full[k] ELSE full[k + 1]
    BY <2>1, RemovedOfThree
  <2> QED
    BY <2>2 DEF full
<1>5. DOMAIN panel = 1 .. 2 /\ \A k \in 1 .. 2 : panel[k] = IF k < i THEN r.panel[k] ELSE r.panel[k + 1]
  <2> DEFINE full == r.panel
  <2>1. full = [k \in 1 .. 3 |-> full[k]]
    BY <1>2
  <2> HIDE DEF full
  <2>2. DOMAIN RemoveAt(full, i) = 1 .. 2 /\ \A k \in 1 .. 2 : RemoveAt(full, i)[k] = IF k < i THEN full[k] ELSE full[k + 1]
    BY <2>1, RemovedOfThree
  <2> QED
    BY <2>2 DEF full
<1> HIDE DEF per, panel
<1>6. SOURCE_IDS[i] \notin ids
  <2>1. \A k \in 1 .. 2 : per[k].id = IF k < i THEN SOURCE_IDS[k] ELSE SOURCE_IDS[k + 1]
    BY <1>1, <1>4
  <2>2. \A k \in 1 .. 2 : per[k].id # SOURCE_IDS[i]
    BY <2>1, SourceIds
  <2> QED
    BY <1>4, <2>2
<1>7. SOURCE_IDS[i] \notin left
  <2>1. \A k \in 1 .. 2 : panel[k] # SOURCE_IDS[i]
    BY <1>1, <1>5, SourceIds
  <2> QED
    BY <1>5, <2>1
<1>8. SOURCE_IDS[i] \in Expected /\ SOURCE_IDS[i] \in {r.panel[k] : k \in DOMAIN r.panel}
  BY <1>1, SourceIds DEF Expected
<1>9. ~CoversPanel([r EXCEPT !.per = RemoveAt(@, i)], Expected)
  <2> DEFINE e == [r EXCEPT !.per = RemoveAt(@, i)]
  <2>1. e.per = per /\ e.panel = r.panel
    BY <1>3 DEF per
  <2> HIDE DEF e
  <2>2. ~CoversPanel(e, Expected)
    BY <1>6, <1>8, <2>1 DEF CoversPanel
  <2> QED
    BY <2>2 DEF e
<1>10. ~CoversPanel([r EXCEPT !.per = RemoveAt(@, i), !.panel = RemoveAt(@, i)], Expected)
  <2> DEFINE e == [r EXCEPT !.per = RemoveAt(@, i), !.panel = RemoveAt(@, i)]
  <2>1. e.per = per /\ e.panel = panel
    BY <1>3 DEF per, panel
  <2> HIDE DEF e
  <2>2. ~CoversPanel(e, Expected)
    BY <1>7, <1>8, <2>1 DEF CoversPanel
  <2> QED
    BY <2>2 DEF e
<1> QED
  BY <1>9, <1>10

LEMMA GapPassedOver ==
  ASSUME ScreenTyped, NEW r, GoodReport(r), ~r.complete
  PROVE  ~verifyScreening([r EXCEPT !.complete = TRUE], Expected)
<1> DEFINE e == [r EXCEPT !.complete = TRUE]
           screened == {i \in DOMAIN e.per : e.per[i].status = "screened"}
<1>1. e.per = r.per /\ e.complete = TRUE
  BY DEF GoodReport
<1>2. \E i \in 1 .. 3 : r.per[i].status # "screened"
  BY DEF GoodReport
<1>3. DOMAIN r.per = 1 .. 3
  BY PanelCovered
<1> HIDE DEF e
<1>4. screened # DOMAIN e.per
  BY <1>1, <1>2, <1>3
<1>5. ~verifyScreening(e, Expected)
  BY <1>1, <1>4, Zenon DEF verifyScreening
<1> QED
  BY <1>5 DEF e

(* A report that verifies has the verdict of the severities it records.    *)
LEMMA RecordedVerdict ==
  ASSUME NEW e, verifyScreening(e, Expected)
  PROVE  e.verdict = aggregateVerdict(UNION {Severities(e.per[i].matches) : i \in {k \in DOMAIN e.per : e.per[k].status = "screened"}})
<1> DEFINE screened == {i \in DOMAIN e.per : e.per[i].status = "screened"}
           derived(i) == {severityForMatch(e.per[i].matches[k].method, e.per[i].matches[k].score) : k \in DOMAIN e.per[i].matches}
<1>1. \A i \in screened : \A k \in DOMAIN e.per[i].matches :
        severityForMatch(e.per[i].matches[k].method, e.per[i].matches[k].score) \in {e.per[i].matches[k].severity} \ {"none"}
  BY Zenon DEF verifyScreening
<1>2. \A i \in screened : derived(i) = Severities(e.per[i].matches)
  BY <1>1 DEF Severities
<1>3. e.verdict = aggregateVerdict(UNION {derived(i) : i \in screened})
  BY Zenon DEF verifyScreening
<1>4. UNION {derived(i) : i \in screened} = UNION {Severities(e.per[i].matches) : i \in screened}
  <2> HIDE DEF derived, screened
  <2> QED
    BY <1>2
<1> QED
  BY <1>3, <1>4

LEMMA VerdictLowered ==
  ASSUME ScreenTyped, NEW r, GoodReport(r), NEW v, v # r.verdict
  PROVE  ~verifyScreening([r EXCEPT !.verdict = v], Expected)
<1> DEFINE e == [r EXCEPT !.verdict = v]
           screened == {i \in DOMAIN r.per : r.per[i].status = "screened"}
<1>1. e.per = r.per /\ e.verdict = v
  BY DEF GoodReport
<1> HIDE DEF e
<1>2. r.verdict = aggregateVerdict(UNION {Severities(r.per[i].matches) : i \in 1 .. 3})
  BY DEF GoodReport
<1>3. DOMAIN r.per = 1 .. 3
  BY PanelCovered
<1>4. \A i \in 1 .. 3 : i \notin screened => Severities(r.per[i].matches) = {}
  <2>1. \A i \in 1 .. 3 : GoodResult(i, r.per[i])
    BY DEF GoodReport
  <2>2. \A i \in 1 .. 3 : i \notin screened => inputs[i].gap
    BY <1>3, <2>1 DEF GoodResult
  <2>3. \A i \in 1 .. 3 : i \notin screened => r.per[i].matches = <<>>
    BY <2>1, <2>2 DEF GoodResult
  <2> QED
    BY <2>3 DEF Severities
<1>5. UNION {Severities(r.per[i].matches) : i \in 1 .. 3} = UNION {Severities(r.per[i].matches) : i \in screened}
  <2>1. screened \in SUBSET (1 .. 3)
    BY <1>3
  <2> HIDE DEF screened
  <2> QED
    BY <1>4, <2>1
<1>6. ASSUME verifyScreening(e, Expected) PROVE FALSE
  <2>1. e.verdict = aggregateVerdict(UNION {Severities(e.per[i].matches) : i \in {k \in DOMAIN e.per : e.per[k].status = "screened"}})
    BY <1>6, RecordedVerdict
  <2>2. v = aggregateVerdict(UNION {Severities(r.per[i].matches) : i \in screened})
    BY <1>1, <2>1, Zenon
  <2> QED
    BY <1>2, <1>5, <2>2
<1> QED
  BY <1>6 DEF e

LEMMA VersionDropped ==
  ASSUME ScreenTyped, NEW r, GoodReport(r), NEW v \in r.versions
  PROVE  ~verifyScreening([r EXCEPT !.versions = @ \ {v}], Expected)
<1> DEFINE e == [r EXCEPT !.versions = @ \ {v}]
<1>1. e.per = r.per /\ e.versions = r.versions \ {v}
  BY DEF GoodReport
<1> HIDE DEF e
<1>2. r.versions = UNION {{[id |-> w, source |-> SOURCE_IDS[i]] : w \in RefsOf(i)} : i \in 1 .. 3}
  BY DEF GoodReport
<1>2a. PICK i \in 1 .. 3 : \E w \in RefsOf(i) : v = [id |-> w, source |-> SOURCE_IDS[i]]
  BY <1>2
<1>3. PICK w \in RefsOf(i) : v = [id |-> w, source |-> SOURCE_IDS[i]]
  BY <1>2a
<1>4. GoodResult(i, r.per[i]) /\ i \in DOMAIN r.per
  BY PanelCovered DEF GoodReport
<1>5. ~inputs[i].gap
  BY <1>3, RefsAre
<1>6. r.per[i].id = SOURCE_IDS[i] /\ w \in r.per[i].refs /\ r.per[i].status = "screened"
  BY <1>3, <1>4, <1>5 DEF GoodResult
<1>7. [id |-> w, source |-> e.per[i].id] \notin e.versions
  BY <1>1, <1>3, <1>6
<1>8. ~verifyScreening(e, Expected)
  BY <1>1, <1>4, <1>6, <1>7, Zenon DEF verifyScreening
<1> QED
  BY <1>8 DEF e

LEMMA SeverityLowered ==
  ASSUME ScreenTyped, NEW r, GoodReport(r), NEW i \in 1 .. 3, NEW k \in DOMAIN r.per[i].matches,
         r.per[i].matches[k].severity # "info"
  PROVE  ~verifyScreening([r EXCEPT !.per[i].matches[k].severity = "info"], Expected)
<1> DEFINE e == [r EXCEPT !.per[i].matches[k].severity = "info"]
           m == r.per[i].matches[k]
           n == e.per[i].matches[k]
<1>1. r.per = [j \in 1 .. 3 |-> r.per[j]] /\ GoodResult(i, r.per[i]) /\ DOMAIN r.per = 1 .. 3
  BY PanelCovered DEF GoodReport
<1>2. GoodMatch(i, m)
  BY <1>1, Zenon DEF GoodResult
<1>3. ~inputs[i].gap
  BY <1>1 DEF GoodResult
<1>4. r.per[i].status = "screened"
  BY <1>1, <1>3 DEF GoodResult
<1>5. PICK b \in Int : b >= POTENTIAL_THRESHOLD /\ MatchOf(SOURCE_IDS[i], m, b)
  <2> HIDE DEF m
  <2> QED
    BY <1>2 DEF GoodMatch
<1>6. severityForMatch(m.method, m.score) = JudgedAt(SOURCE_IDS[i], round6(b)) /\ m.severity = JudgedAt(SOURCE_IDS[i], b)
  <2> HIDE DEF m
  <2> QED
    BY <1>5, SeverityIs
<1>7. severityForMatch(m.method, m.score) # "info"
  <2>1. m.severity # "info"
    OBVIOUS
  <2> HIDE DEF m
  <2> QED
    BY <1>6, <2>1 DEF JudgedAt
<1>8. \E x, y, z : m = [method |-> x, score |-> y, severity |-> z]
  <2> HIDE DEF m
  <2> QED
    BY <1>5 DEF MatchOf, makeMatch
<1> DEFINE ms == [r.per[i].matches EXCEPT ![k] = [@ EXCEPT !.severity = "info"]]
           p == [r.per[i] EXCEPT !.matches = ms]
<1>9. e = [r EXCEPT !.per = [r.per EXCEPT ![i] = p]]
  OBVIOUS
<1>10. i \in DOMAIN e.per /\ e.per[i] = p
  <2>1. e.per = [r.per EXCEPT ![i] = p]
    <3> HIDE DEF e, p
    <3> QED
      BY <1>9, Zenon DEF GoodReport
  <2> HIDE DEF e, m, p
  <2> QED
    BY <1>1, <2>1
<1>11. e.per[i].status = "screened" /\ e.per[i].matches = ms
  <2>1. r.per[i] = [id |-> r.per[i].id, status |-> r.per[i].status, refs |-> r.per[i].refs, matches |-> r.per[i].matches,
                    verdict |-> r.per[i].verdict]
    BY <1>1, Zenon DEF GoodResult
  <2> HIDE DEF e, m, ms
  <2> QED
    BY <1>4, <1>10, <2>1
<1>12. k \in DOMAIN e.per[i].matches /\ n = [m EXCEPT !.severity = "info"]
  <2> HIDE DEF e
  <2> QED
    BY <1>11
<1>13. n.method = m.method /\ n.score = m.score /\ n.severity = "info"
  <2> HIDE DEF m, n
  <2> QED
    BY <1>8, <1>12
<1>14. severityForMatch(n.method, n.score) \notin {n.severity} \ {"none"}
  <2> HIDE DEF m, n
  <2> QED
    BY <1>7, <1>13
<1> HIDE DEF e, m
<1>15. i \in {x \in DOMAIN e.per : e.per[x].status = "screened"}
  BY <1>10, <1>11
<1>16. ~verifyScreening(e, Expected)
  BY <1>12, <1>14, <1>15, Zenon DEF verifyScreening, n
<1> QED
  BY <1>16 DEF e

LEMMA EditsCaught ==
  ASSUME ScreenTyped, NEW r, GoodReport(r), NEW e \in Edits(r)
  PROVE  ~verifyScreening(e, Expected)
<1>1. DOMAIN r.per = 1 .. 3
  BY PanelCovered
<1>2. \A x : verifyScreening(x, Expected) => CoversPanel(x, Expected)
  BY Zenon DEF verifyScreening
<1>3. CASE \E i \in 1 .. 3 : e = [r EXCEPT !.per = RemoveAt(@, i)]
  BY <1>2, <1>3, SourceLeftOut
<1>4. CASE \E i \in 1 .. 3 : e = [r EXCEPT !.per = RemoveAt(@, i), !.panel = RemoveAt(@, i)]
  BY <1>2, <1>4, SourceLeftOut
<1>5. CASE ~r.complete /\ e = [r EXCEPT !.complete = TRUE]
  BY <1>5, GapPassedOver
<1>6. CASE \E v : v # r.verdict /\ e = [r EXCEPT !.verdict = v]
  BY <1>6, VerdictLowered
<1>7. CASE \E v \in r.versions : e = [r EXCEPT !.versions = @ \ {v}]
  BY <1>7, VersionDropped
<1>8. CASE \E i \in 1 .. 3 : \E k \in DOMAIN r.per[i].matches :
             r.per[i].matches[k].severity # "info" /\ e = [r EXCEPT !.per[i].matches[k].severity = "info"]
  <2>1. PICK i \in 1 .. 3 : \E k \in DOMAIN r.per[i].matches : r.per[i].matches[k].severity # "info" /\ e = [r EXCEPT !.per[i].matches[k].severity = "info"]
    BY <1>8, Zenon
  <2>2. PICK k \in DOMAIN r.per[i].matches : r.per[i].matches[k].severity # "info" /\ e = [r EXCEPT !.per[i].matches[k].severity = "info"]
    BY <2>1, Zenon
  <2> QED
    BY <2>2, SeverityLowered
<1> DEFINE A == {[r EXCEPT !.per = RemoveAt(@, i)] : i \in DOMAIN r.per}
           B == {[r EXCEPT !.per = RemoveAt(@, i), !.panel = RemoveAt(@, i)] : i \in DOMAIN r.per}
           C == {[r EXCEPT !.complete = TRUE] : x \in {y \in {1} : ~r.complete}}
           D == {[r EXCEPT !.verdict = v] : v \in {"clear", "potential-match"} \ {r.verdict}}
           E == {[r EXCEPT !.versions = @ \ {v}] : v \in r.versions}
           F(i) == {[r EXCEPT !.per[i].matches[k].severity = "info"] :
                       k \in {x \in DOMAIN r.per[i].matches : r.per[i].matches[x].severity # "info"}}
           G == UNION {F(i) : i \in DOMAIN r.per}
<1>9. e \in A \cup B \cup C \cup D \cup E \cup G
  BY Zenon DEF Edits
<1>10. CASE e \in A
  BY <1>1, <1>3, <1>10, Zenon
<1>11. CASE e \in B
  BY <1>1, <1>4, <1>11, Zenon
<1>12. CASE e \in C
  BY <1>5, <1>12, Zenon
<1>13. CASE e \in D
  <2>1. \E v : v # r.verdict /\ e = [r EXCEPT !.verdict = v]
    BY <1>13, Zenon
  <2> QED
    BY <1>6, <2>1
<1>14. CASE e \in E
  BY <1>7, <1>14, Zenon
<1>15. CASE e \in G
  <2>1. PICK i \in 1 .. 3 : e \in F(i)
    BY <1>1, <1>15, Zenon
  <2>2. \E k \in DOMAIN r.per[i].matches :
           r.per[i].matches[k].severity # "info" /\ e = [r EXCEPT !.per[i].matches[k].severity = "info"]
    BY <2>1, Zenon
  <2> QED
    BY <1>8, <2>2, Zenon
<1> HIDE DEF A, B, C, D, E, G
<1> QED
  BY <1>9, <1>10, <1>11, <1>12, <1>13, <1>14, <1>15

(* What a report says is what a verifier derives, and whoever tampers with *)
(* it is caught.                                                           *)
LEMMA ScreeningHolds ==
  MCSpec => [](/\ VerifiesUnlessRounded /\ TruncationKeepsVerdict /\ SingleEditIsCaught /\ PepNeverBlocksAlone
               /\ JaroWinklerIsAScore)
<1>1. ScreenInv => VerifiesUnlessRounded /\ TruncationKeepsVerdict /\ SingleEditIsCaught /\ PepNeverBlocksAlone
  <2> SUFFICES ASSUME ScreenInv PROVE VerifiesUnlessRounded /\ TruncationKeepsVerdict /\ SingleEditIsCaught /\ PepNeverBlocksAlone
    OBVIOUS
  <2>1. ASSUME NEW r \in screening PROVE ScreenTyped /\ GoodReport(r)
    <3>1. ScreenTyped /\ r = screenSubject
      BY <2>1 DEF ScreenInv, Screened
    <3> QED
      BY <3>1, ReportIs
  <2>2. VerifiesUnlessRounded
    BY <2>1, ReportVerifies DEF VerifiesUnlessRounded
  <2>3. TruncationKeepsVerdict
    BY <2>1, TruncationSound, Zenon DEF TruncationKeepsVerdict
  <2>4. SingleEditIsCaught
    BY <2>1, EditsCaught DEF SingleEditIsCaught
  <2>5. PepNeverBlocksAlone
    BY <2>1, MatchRestsOn, Zenon DEF PepNeverBlocksAlone
  <2> QED
    BY <2>2, <2>3, <2>4, <2>5
<1> QED
  BY <1>1, ScreenInvHolds, JaroWinklerHolds, PTL

-----------------------------------------------------------------------------
(* Site audits: what is measured, and what the reports are of.             *)

LEMMA SitePart == MCSpec => (SiteInit \/ RestSite) /\ [][SiteNext]_siteVars
<1>1. MCInit => SiteInit \/ RestSite
  BY Zenon DEF MCInit, SpecialistsInit, RestSpecialists
<1>2. [MCNext]_mcVars => [SiteNext]_siteVars
  BY Zenon DEF MCNext, SpecialistsNext, mcVars, specialistVars
<1> QED
  BY <1>1, <1>2, PTL DEF MCSpec

Measures == {"timing-sample", "tls", "http-redirect"}
GoodMeasure(e) ==
  /\ e = [id |-> e.id, kind |-> e.kind, val |-> e.val]
  /\ e.kind \in Measures
  /\ e.kind = "timing-sample" => e.val \in Answers
  /\ e.kind = "tls" => e.val \in CertDays
  /\ e.kind = "http-redirect" => e.val \in [secure : BOOLEAN]

(* The certificate and the plain variant are looked at once each, and of an *)
(* https site only: what was measured of them did not fail as well.        *)
GoodMeasures(ev, gs, scheme) ==
  /\ ev = [k \in 1 .. Len(ev) |-> ev[k]] /\ Len(ev) \in Nat
  /\ gs \in Seq(Measures)
  /\ \A k \in 1 .. Len(ev) : GoodMeasure(ev[k]) /\ ev[k].id = k
  /\ \A i, j \in 1 .. Len(ev) : ev[i].kind = ev[j].kind => ev[i].kind = "timing-sample" \/ i = j
  /\ \A i, j \in 1 .. Len(gs) : gs[i] = gs[j] => gs[i] = "timing-sample" \/ i = j
  /\ \A i \in 1 .. Len(ev), j \in 1 .. Len(gs) : ev[i].kind = gs[j] => gs[j] = "timing-sample"
  /\ scheme = "http" => (\A i \in 1 .. Len(ev) : ev[i].kind = "timing-sample") /\ (\A i \in 1 .. Len(gs) : gs[i] = "timing-sample")

ReportOn(ev, gs, scheme) ==
  LET a == deriveAssessment(ev, gs, scheme) IN [evidence |-> ev, gaps |-> gs, categories |-> a.categories, overall |-> a.overall]
ReportOK(r, scheme) == GoodMeasures(r.evidence, r.gaps, scheme) /\ r = ReportOn(r.evidence, r.gaps, scheme)

Untouched(kind) == (\A i \in 1 .. Len(evidence) : evidence[i].kind # kind) /\ (\A i \in 1 .. Len(gaps) : gaps[i] # kind)

SiteInv ==
  /\ site = [at |-> site.at, scheme |-> site.scheme, hops |-> site.hops, sample |-> site.sample]
  /\ site.at \in {"probe", "tls", "redirect", "derive", "settled", "done"}
  /\ site.scheme \in {"https", "http"} /\ site.hops \in 0 .. MAX_REDIRECTS
  /\ visited \in Seq({"public"}) /\ Len(visited) = site.hops
  /\ site.at \notin {"probe", "redirect"} => site.hops = 0
  /\ site.at \in {"tls", "redirect"} => site.scheme = "https"
  /\ site.at \in {"probe", "tls"} => Untouched("tls")
  /\ site.at \in {"probe", "tls", "redirect"} => Untouched("http-redirect")
  /\ GoodMeasures(evidence, gaps, site.scheme)
  /\ audits = [i \in 1 .. Len(audits) |-> audits[i]] /\ Len(audits) \in Nat
  /\ \A i \in 1 .. Len(audits) : ReportOK(audits[i], site.scheme)

LEMMA NothingMeasured == ASSUME NEW scheme PROVE GoodMeasures(<<>>, <<>>, scheme)
BY DEF GoodMeasures

LEMMA SiteStarts == SiteInit \/ RestSite => SiteInv
<1> SUFFICES ASSUME SiteInit \/ RestSite PROVE SiteInv
  OBVIOUS
<1>1. /\ site = [at |-> site.at, scheme |-> site.scheme, hops |-> site.hops, sample |-> site.sample]
      /\ site.at \in {"probe", "done"} /\ site.scheme \in {"https", "http"} /\ site.hops = 0
      /\ evidence = <<>> /\ gaps = <<>> /\ audits = <<>> /\ visited = <<>>
  BY SiteAssumption DEF SiteInit, RestSite
<1>2. GoodMeasures(evidence, gaps, site.scheme)
  BY <1>1, NothingMeasured
<1>3. Untouched("tls") /\ Untouched("http-redirect")
  BY <1>1 DEF Untouched
<1>4. 0 \in 0 .. MAX_REDIRECTS
  BY SiteAssumption
<1>5. /\ visited \in Seq({"public"}) /\ Len(visited) = 0
      /\ audits = [i \in 1 .. Len(audits) |-> audits[i]] /\ Len(audits) = 0
  BY <1>1
<1> QED
  BY <1>1, <1>2, <1>3, <1>4, <1>5 DEF SiteInv

(* One more measurement, or one more that failed.                          *)
LEMMA MeasureMore ==
  ASSUME NEW ev, NEW gs, NEW scheme, GoodMeasures(ev, gs, scheme), NEW kind, NEW val,
         GoodMeasure([id |-> Len(ev) + 1, kind |-> kind, val |-> val]),
         \/ kind = "timing-sample"
         \/ /\ scheme = "https" /\ \A i \in 1 .. Len(ev) : ev[i].kind # kind
            /\ \A i \in 1 .. Len(gs) : gs[i] # kind
  PROVE  GoodMeasures(Append(ev, [id |-> Len(ev) + 1, kind |-> kind, val |-> val]), gs, scheme)
<1> DEFINE e == [id |-> Len(ev) + 1, kind |-> kind, val |-> val]
           n == Len(ev)
           more == Append(ev, e)
<1>1. n \in Nat /\ ev = [k \in 1 .. n |-> ev[k]]
  BY DEF GoodMeasures
<1>2. e.id = n + 1 /\ e.kind = kind /\ GoodMeasure(e)
  BY Zenon
<1> HIDE DEF e
<1>3. Len(more) = n + 1 /\ more = [k \in 1 .. n + 1 |-> more[k]] /\ more[n + 1] = e /\ \A k \in 1 .. n : more[k] = ev[k]
  <2> DEFINE S == {ev[k] : k \in 1 .. n} \cup {e}
  <2>1. ev \in [1 .. n -> S] /\ e \in S
    <3> HIDE DEF n
    <3> QED
      BY <1>1
  <2> HIDE DEF S, n
  <2>2. ev \in Seq(S)
    BY <1>1, <2>1
  <2>3. Len(ev) = n
    BY DEF n
  <2> QED
    BY <1>1, <2>1, <2>2, <2>3
<1>4. \A k \in 1 .. n + 1 : k = n + 1 \/ k \in 1 .. n
  BY <1>1
<1> HIDE DEF n, more
<1>4a. \A k \in 1 .. n : GoodMeasure(ev[k]) /\ ev[k].id = k
  BY DEF GoodMeasures, n
<1>4b. \A i, j \in 1 .. n : ev[i].kind = ev[j].kind => ev[i].kind = "timing-sample" \/ i = j
  BY DEF GoodMeasures, n
<1>4c. kind = "timing-sample" \/ \A i \in 1 .. n : ev[i].kind # kind
  BY DEF n
<1>5. \A k \in 1 .. n + 1 : GoodMeasure(more[k]) /\ more[k].id = k
  <2> SUFFICES ASSUME NEW k \in 1 .. n + 1 PROVE GoodMeasure(more[k]) /\ more[k].id = k
    OBVIOUS
  <2>1. CASE k = n + 1
    BY <1>2, <1>3, <2>1
  <2>2. CASE k \in 1 .. n
    BY <1>3, <1>4a, <2>2
  <2> QED
    BY <1>4, <2>1, <2>2
<1>6. \A i, j \in 1 .. n + 1 : more[i].kind = more[j].kind => more[i].kind = "timing-sample" \/ i = j
  <2> SUFFICES ASSUME NEW i \in 1 .. n + 1, NEW j \in 1 .. n + 1, more[i].kind = more[j].kind, more[i].kind # "timing-sample"
               PROVE  i = j
    OBVIOUS
  <2>1. CASE i \in 1 .. n /\ j \in 1 .. n
    BY <1>3, <1>4b, <2>1
  <2>2. CASE i = n + 1 /\ j \in 1 .. n
    BY <1>2, <1>3, <1>4c, <2>2
  <2>3. CASE i \in 1 .. n /\ j = n + 1
    BY <1>2, <1>3, <1>4c, <2>3
  <2> QED
    BY <1>4, <2>1, <2>2, <2>3
<1>7. \A i \in 1 .. n + 1, j \in 1 .. Len(gs) : more[i].kind = gs[j] => gs[j] = "timing-sample"
  <2>1. \A i \in 1 .. n, j \in 1 .. Len(gs) : ev[i].kind = gs[j] => gs[j] = "timing-sample"
    BY DEF GoodMeasures, n
  <2>2. \A j \in 1 .. Len(gs) : kind = gs[j] => gs[j] = "timing-sample"
    OBVIOUS
  <2> QED
    BY <1>2, <1>3, <1>4, <2>1, <2>2
<1>8. scheme = "http" => \A i \in 1 .. n + 1 : more[i].kind = "timing-sample"
  <2>1. scheme = "http" => \A i \in 1 .. n : ev[i].kind = "timing-sample"
    BY DEF GoodMeasures, n
  <2> QED
    BY <1>2, <1>3, <1>4, <2>1
<1>9. GoodMeasures(more, gs, scheme)
  <2>1. Len(more) = n + 1 /\ Len(more) \in Nat
    BY <1>1, <1>3
  <2>2. /\ more = [k \in 1 .. Len(more) |-> more[k]]
        /\ \A k \in 1 .. Len(more) : GoodMeasure(more[k]) /\ more[k].id = k
        /\ \A i, j \in 1 .. Len(more) : more[i].kind = more[j].kind => more[i].kind = "timing-sample" \/ i = j
        /\ \A i \in 1 .. Len(more), j \in 1 .. Len(gs) : more[i].kind = gs[j] => gs[j] = "timing-sample"
        /\ scheme = "http" => \A i \in 1 .. Len(more) : more[i].kind = "timing-sample"
    BY <1>3, <1>5, <1>6, <1>7, <1>8, <2>1
  <2>3. /\ gs \in Seq(Measures)
        /\ \A i, j \in 1 .. Len(gs) : gs[i] = gs[j] => gs[i] = "timing-sample" \/ i = j
        /\ scheme = "http" => \A i \in 1 .. Len(gs) : gs[i] = "timing-sample"
    BY DEF GoodMeasures
  <2> QED
    BY <2>1, <2>2, <2>3, Zenon DEF GoodMeasures
<1> QED
  BY <1>9 DEF more, e

LEMMA FailMore ==
  ASSUME NEW ev, NEW gs, NEW scheme, GoodMeasures(ev, gs, scheme), NEW kind \in Measures,
         \/ kind = "timing-sample"
         \/ /\ scheme = "https" /\ \A i \in 1 .. Len(ev) : ev[i].kind # kind
            /\ \A i \in 1 .. Len(gs) : gs[i] # kind
  PROVE  GoodMeasures(ev, Append(gs, kind), scheme)
<1> DEFINE n == Len(gs)
           more == Append(gs, kind)
<1>1. gs \in Seq(Measures) /\ n \in Nat
  BY DEF GoodMeasures
<1>2. more \in Seq(Measures) /\ Len(more) = n + 1 /\ more[n + 1] = kind /\ \A k \in 1 .. n : more[k] = gs[k]
  BY <1>1
<1>3. \A k \in 1 .. n + 1 : k = n + 1 \/ k \in 1 .. n
  BY <1>1
<1> HIDE DEF n, more
<1>4. \A i, j \in 1 .. n + 1 : more[i] = more[j] => more[i] = "timing-sample" \/ i = j
  BY <1>2, <1>3 DEF GoodMeasures, n
<1>5. \A i \in 1 .. Len(ev), j \in 1 .. n + 1 : ev[i].kind = more[j] => more[j] = "timing-sample"
  BY <1>2, <1>3 DEF GoodMeasures, n
<1>6. scheme = "http" => \A i \in 1 .. n + 1 : more[i] = "timing-sample"
  BY <1>2, <1>3 DEF GoodMeasures, n
<1>7. GoodMeasures(ev, more, scheme)
  BY <1>2, <1>4, <1>5, <1>6 DEF GoodMeasures
<1> QED
  BY <1>7 DEF more

LEMMA AppendIs ==
  ASSUME NEW s, s = [k \in 1 .. Len(s) |-> s[k]], Len(s) \in Nat, NEW x
  PROVE  /\ Len(Append(s, x)) = Len(s) + 1
         /\ Append(s, x) = [k \in 1 .. Len(s) + 1 |-> Append(s, x)[k]]
         /\ \A k \in 1 .. Len(s) : Append(s, x)[k] = s[k]
         /\ Append(s, x)[Len(s) + 1] = x
         /\ \A k \in 1 .. Len(s) + 1 : k = Len(s) + 1 \/ k \in 1 .. Len(s)
<1> DEFINE n == Len(s)
           S == {s[k] : k \in 1 .. n} \cup {x}
<1>1. n \in Nat /\ s = [k \in 1 .. n |-> s[k]]
  OBVIOUS
<1>2. s \in [1 .. n -> S] /\ x \in S
  <2> HIDE DEF n
  <2> QED
    BY <1>1
<1> HIDE DEF S, n
<1>3. s \in Seq(S)
  BY <1>1, <1>2
<1>4. Len(s) = n
  BY DEF n
<1> QED
  BY <1>1, <1>2, <1>3, <1>4

LEMMA StaysUntouched ==
  ASSUME SiteInv, NEW kind, Untouched(kind), NEW other, other # kind,
         \/ \E val : evidence' = Append(evidence, [id |-> Len(evidence) + 1, kind |-> other, val |-> val]) /\ gaps' = gaps
         \/ gaps' = Append(gaps, other) /\ evidence' = evidence
  PROVE  Untouched(kind)'
<1>1. evidence = [k \in 1 .. Len(evidence) |-> evidence[k]] /\ Len(evidence) \in Nat /\ gaps \in Seq(Measures)
  BY DEF SiteInv, GoodMeasures
<1>2. gaps = [k \in 1 .. Len(gaps) |-> gaps[k]] /\ Len(gaps) \in Nat
  BY <1>1
<1>3. CASE \E val : evidence' = Append(evidence, [id |-> Len(evidence) + 1, kind |-> other, val |-> val]) /\ gaps' = gaps
  <2>a. PICK val : evidence' = Append(evidence, [id |-> Len(evidence) + 1, kind |-> other, val |-> val]) /\ gaps' = gaps
    BY <1>3
  <2> DEFINE e == [id |-> Len(evidence) + 1, kind |-> other, val |-> val]
  <2>1. e.kind = other /\ evidence' = Append(evidence, e) /\ gaps' = gaps
    BY <2>a
  <2> HIDE DEF e
  <2>b. /\ Len(Append(evidence, e)) = Len(evidence) + 1
        /\ \A k \in 1 .. Len(evidence) : Append(evidence, e)[k] = evidence[k]
        /\ Append(evidence, e)[Len(evidence) + 1] = e
        /\ \A k \in 1 .. Len(evidence) + 1 : k = Len(evidence) + 1 \/ k \in 1 .. Len(evidence)
    BY <1>1, AppendIs
  <2>2. \A k \in 1 .. Len(evidence') : evidence'[k].kind # kind
    BY <2>1, <2>b DEF Untouched
  <2> QED
    BY <2>1, <2>2 DEF Untouched
<1>4. CASE gaps' = Append(gaps, other) /\ evidence' = evidence
  <2>1. \A k \in 1 .. Len(gaps') : gaps'[k] # kind
    BY <1>2, <1>4, AppendIs DEF Untouched
  <2> QED
    BY <1>4, <2>1 DEF Untouched
<1> QED
  BY <1>3, <1>4

(* A measurement, taken or failed, of a kind that is open.                 *)
LEMMA Measuring ==
  ASSUME SiteInv, NEW kind \in Measures, NEW val,
         kind = "timing-sample" \/ (site.scheme = "https" /\ Untouched(kind)),
         \/ /\ evidence' = Append(evidence, [id |-> Len(evidence) + 1, kind |-> kind, val |-> val]) /\ gaps' = gaps
            /\ GoodMeasure([id |-> Len(evidence) + 1, kind |-> kind, val |-> val])
         \/ gaps' = Append(gaps, kind) /\ evidence' = evidence
  PROVE  /\ GoodMeasures(evidence', gaps', site.scheme)
         /\ \A k : k # kind /\ Untouched(k) => Untouched(k)'
<1>1. GoodMeasures(evidence, gaps, site.scheme)
  BY DEF SiteInv
<1>2. \/ kind = "timing-sample"
      \/ /\ site.scheme = "https" /\ \A i \in 1 .. Len(evidence) : evidence[i].kind # kind
         /\ \A i \in 1 .. Len(gaps) : gaps[i] # kind
  BY DEF Untouched
<1>3. GoodMeasures(evidence', gaps', site.scheme)
  <2>1. CASE /\ evidence' = Append(evidence, [id |-> Len(evidence) + 1, kind |-> kind, val |-> val]) /\ gaps' = gaps
             /\ GoodMeasure([id |-> Len(evidence) + 1, kind |-> kind, val |-> val])
    <3>1. GoodMeasures(Append(evidence, [id |-> Len(evidence) + 1, kind |-> kind, val |-> val]), gaps, site.scheme)
      BY <1>1, <1>2, <2>1, MeasureMore
    <3> QED
      BY <2>1, <3>1
  <2>2. CASE gaps' = Append(gaps, kind) /\ evidence' = evidence
    <3>1. GoodMeasures(evidence, Append(gaps, kind), site.scheme)
      BY <1>1, <1>2, FailMore
    <3> QED
      BY <2>2, <3>1
  <2> QED
    BY <2>1, <2>2
<1>4. ASSUME NEW k, k # kind, Untouched(k) PROVE Untouched(k)'
  BY <1>4, StaysUntouched
<1> QED
  BY <1>3, <1>4

LEMMA ProbeStep ==
  ASSUME SiteInv, ProbeRequest
  PROVE  SiteInv'
<1> DEFINE kind == IF site.at = "probe" THEN "timing-sample" ELSE "http-redirect"
           after == IF site.at = "probe" THEN AfterSample ELSE [site EXCEPT !.at = "derive", !.hops = 0]
<1>1. /\ site.at \in {"probe", "redirect"} /\ audits' = audits
      /\ \/ Failed(kind) /\ site' = after /\ visited' = <<>>
         \/ \E host \in {"public", "private"} :
               /\ assertSafeProbeUrl(host)
               /\ \/ /\ MayFollow
                     /\ site' = [site EXCEPT !.hops = @ + 1] /\ visited' = Append(visited, host)
                     /\ UNCHANGED <<evidence, gaps>>
                  \/ /\ IF site.at = "probe" THEN \E a \in Answers : Measured(kind, a)
                        ELSE \E https \in BOOLEAN : Measured(kind, [secure |-> site.hops >= 1 /\ https])
                     /\ site' = after /\ visited' = <<>>
  BY Zenon DEF ProbeRequest
<1>2. /\ site = [at |-> site.at, scheme |-> site.scheme, hops |-> site.hops, sample |-> site.sample]
      /\ site.scheme \in {"https", "http"} /\ site.hops \in 0 .. MAX_REDIRECTS /\ MAX_REDIRECTS \in Nat
      /\ visited \in Seq({"public"}) /\ Len(visited) = site.hops
      /\ site.at = "redirect" => site.scheme = "https" /\ Untouched("http-redirect")
      /\ site.at = "probe" => Untouched("tls") /\ Untouched("http-redirect")
      /\ GoodMeasures(evidence, gaps, site.scheme)
      /\ audits = [i \in 1 .. Len(audits) |-> audits[i]] /\ Len(audits) \in Nat
      /\ \A i \in 1 .. Len(audits) : ReportOK(audits[i], site.scheme)
  BY <1>1, SiteAssumption DEF SiteInv
<1>3. CASE /\ MayFollow /\ \E host \in {"public", "private"} : assertSafeProbeUrl(host) /\ visited' = Append(visited, host)
           /\ site' = [site EXCEPT !.hops = @ + 1] /\ UNCHANGED <<evidence, gaps>>
  <2>1. visited' = Append(visited, "public") /\ site.hops < MAX_REDIRECTS
    BY <1>3 DEF assertSafeProbeUrl, MayFollow
  <2>2. /\ site' = [at |-> site.at, scheme |-> site.scheme, hops |-> site.hops + 1, sample |-> site.sample]
        /\ evidence' = evidence /\ gaps' = gaps
    BY <1>2, <1>3
  <2>3. visited' \in Seq({"public"}) /\ Len(visited') = site.hops + 1 /\ site.hops + 1 \in 0 .. MAX_REDIRECTS
    BY <1>2, <2>1
  <2>4. site'.at = site.at /\ site'.scheme = site.scheme /\ site'.hops = site.hops + 1 /\ site'.sample = site.sample
    BY <2>2
  <2>5. /\ Untouched("tls")' = Untouched("tls") /\ Untouched("http-redirect")' = Untouched("http-redirect")
    BY <2>2 DEF Untouched
  <2> QED
    BY <1>1, <1>2, <2>2, <2>3, <2>4, <2>5 DEF SiteInv
<1>4. CASE /\ site' = after /\ visited' = <<>>
           /\ \/ Failed(kind)
              \/ IF site.at = "probe" THEN \E a \in Answers : Measured(kind, a)
                 ELSE \E https \in BOOLEAN : Measured(kind, [secure |-> site.hops >= 1 /\ https])
  <2>1. /\ site' = [at |-> site'.at, scheme |-> site.scheme, hops |-> 0, sample |-> site'.sample]
        /\ site.at = "probe" => site'.at \in {"probe", "tls", "derive"} /\ (site'.at = "tls" => site.scheme = "https")
        /\ site.at = "redirect" => site'.at = "derive"
    <3>1. CASE site.at = "probe"
      BY <1>2, <1>4, <3>1 DEF AfterSample
    <3>2. CASE site.at = "redirect"
      BY <1>2, <1>4, <3>2
    <3> QED
      BY <1>1, <3>1, <3>2
  <2>2. kind \in Measures /\ (kind = "timing-sample" \/ (site.scheme = "https" /\ Untouched(kind)))
    BY <1>1, <1>2 DEF Measures
  <2>3. PICK val : \/ /\ evidence' = Append(evidence, [id |-> Len(evidence) + 1, kind |-> kind, val |-> val]) /\ gaps' = gaps
                      /\ GoodMeasure([id |-> Len(evidence) + 1, kind |-> kind, val |-> val])
                   \/ gaps' = Append(gaps, kind) /\ evidence' = evidence
    <3>1. CASE Failed(kind)
      BY <3>1 DEF Failed
    <3>2. CASE site.at = "probe" /\ \E a \in Answers : Measured(kind, a)
      <4>1. PICK a \in Answers : Measured(kind, a)
        BY <3>2
      <4>2. evidence' = Append(evidence, [id |-> Len(evidence) + 1, kind |-> kind, val |-> a]) /\ gaps' = gaps
        BY <4>1 DEF Measured
      <4>3. GoodMeasure([id |-> Len(evidence) + 1, kind |-> kind, val |-> a])
        BY <3>2 DEF GoodMeasure, Measures
      <4> QED
        BY <4>2, <4>3
    <3>3. CASE site.at = "redirect" /\ \E https \in BOOLEAN : Measured(kind, [secure |-> site.hops >= 1 /\ https])
      <4>1. PICK https \in BOOLEAN : Measured(kind, [secure |-> site.hops >= 1 /\ https])
        BY <3>3
      <4> DEFINE v == [secure |-> site.hops >= 1 /\ https]
      <4>2. evidence' = Append(evidence, [id |-> Len(evidence) + 1, kind |-> kind, val |-> v]) /\ gaps' = gaps
        BY <4>1 DEF Measured
      <4>3. v \in [secure : BOOLEAN]
        OBVIOUS
      <4>4. kind = "http-redirect"
        BY <3>3
      <4> HIDE DEF v, kind
      <4>5. GoodMeasure([id |-> Len(evidence) + 1, kind |-> kind, val |-> v])
        BY <4>3, <4>4 DEF GoodMeasure, Measures
      <4> QED
        BY <4>2, <4>5
    <3> QED
      BY <1>1, <1>4, <3>1, <3>2, <3>3
  <2>4. /\ GoodMeasures(evidence', gaps', site.scheme)
        /\ \A k : k # kind /\ Untouched(k) => Untouched(k)'
    <3> HIDE DEF kind
    <3> QED
      BY <2>2, <2>3, Measuring
  <2>5. site.at = "probe" => Untouched("tls")' /\ Untouched("http-redirect")'
    <3> SUFFICES ASSUME site.at = "probe" PROVE Untouched("tls")' /\ Untouched("http-redirect")'
      OBVIOUS
    <3>1. kind # "tls" /\ kind # "http-redirect"
      OBVIOUS
    <3> HIDE DEF kind
    <3> QED
      BY <1>2, <2>4, <3>1
  <2>6. visited' \in Seq({"public"}) /\ Len(visited') = 0 /\ 0 \in 0 .. MAX_REDIRECTS
    BY <1>2, <1>4
  <2>7. site'.scheme = site.scheme /\ site'.hops = 0
    BY <2>1
  <2>8. site'.at \in {"probe", "tls", "derive"} /\ (site'.at # "derive" => site.at = "probe") /\ (site'.at = "tls" => site.scheme = "https")
    BY <1>1, <2>1
  <2> HIDE DEF kind, after
  <2>9. site' = [at |-> site'.at, scheme |-> site'.scheme, hops |-> site'.hops, sample |-> site'.sample]
    BY <2>1, <2>7
  <2> QED
    BY <1>1, <1>2, <2>4, <2>5, <2>6, <2>7, <2>8, <2>9 DEF SiteInv
<1> HIDE DEF kind, after
<1> QED
  BY <1>1, <1>3, <1>4, Zenon

LEMMA TlsStep ==
  ASSUME SiteInv, TlsInspect
  PROVE  SiteInv'
<1>1. /\ site.at = "tls" /\ audits' = audits /\ visited' = visited /\ site' = [site EXCEPT !.at = "redirect"]
      /\ (\E d \in CertDays : Measured("tls", d)) \/ Failed("tls")
  BY Zenon DEF TlsInspect
<1>2. /\ site = [at |-> site.at, scheme |-> site.scheme, hops |-> site.hops, sample |-> site.sample]
      /\ site.scheme = "https" /\ site.hops = 0 /\ site.hops \in 0 .. MAX_REDIRECTS
      /\ visited \in Seq({"public"}) /\ Len(visited) = site.hops
      /\ Untouched("tls") /\ Untouched("http-redirect")
      /\ audits = [i \in 1 .. Len(audits) |-> audits[i]] /\ Len(audits) \in Nat
      /\ \A i \in 1 .. Len(audits) : ReportOK(audits[i], site.scheme)
  BY <1>1 DEF SiteInv
<1>3. PICK val : \/ /\ evidence' = Append(evidence, [id |-> Len(evidence) + 1, kind |-> "tls", val |-> val]) /\ gaps' = gaps
                    /\ GoodMeasure([id |-> Len(evidence) + 1, kind |-> "tls", val |-> val])
                 \/ gaps' = Append(gaps, "tls") /\ evidence' = evidence
  <2>1. CASE Failed("tls")
    BY <2>1 DEF Failed
  <2>2. CASE \E d \in CertDays : Measured("tls", d)
    <3>1. PICK d \in CertDays : Measured("tls", d)
      BY <2>2
    <3>2. evidence' = Append(evidence, [id |-> Len(evidence) + 1, kind |-> "tls", val |-> d]) /\ gaps' = gaps
      BY <3>1 DEF Measured
    <3>3. GoodMeasure([id |-> Len(evidence) + 1, kind |-> "tls", val |-> d])
      BY DEF GoodMeasure, Measures
    <3> QED
      BY <3>2, <3>3
  <2> QED
    BY <1>1, <2>1, <2>2
<1>4. "tls" \in Measures /\ "tls" # "http-redirect"
  BY DEF Measures
<1>5. /\ GoodMeasures(evidence', gaps', site.scheme)
      /\ \A k : k # "tls" /\ Untouched(k) => Untouched(k)'
  BY <1>2, <1>3, <1>4, Measuring
<1>6. /\ site'.at = "redirect" /\ site'.scheme = site.scheme /\ site'.hops = 0
      /\ site' = [at |-> site'.at, scheme |-> site'.scheme, hops |-> site'.hops, sample |-> site'.sample]
  BY <1>1, <1>2
<1>7. Untouched("http-redirect")'
  BY <1>2, <1>4, <1>5
<1> QED
  BY <1>1, <1>2, <1>5, <1>6, <1>7 DEF SiteInv

LEMMA ReportParts ==
  ASSUME NEW ev, NEW gs, NEW scheme, NEW r, r = ReportOn(ev, gs, scheme)
  PROVE  r.evidence = ev /\ r.gaps = gs
BY DEF ReportOn

LEMMA DeriveStep ==
  ASSUME SiteInv, Derive
  PROVE  SiteInv'
<1>1. /\ site.at = "derive" /\ audits' = Append(audits, SiteReport(evidence, gaps))
      /\ evidence' = <<>> /\ gaps' = <<>> /\ visited' = visited
      /\ site' = [site EXCEPT !.at = IF Len(audits) = 0 THEN "probe" ELSE "settled", !.sample = 1]
  BY Zenon DEF Derive
<1>2. /\ site = [at |-> site.at, scheme |-> site.scheme, hops |-> site.hops, sample |-> site.sample]
      /\ site.scheme \in {"https", "http"} /\ site.hops = 0 /\ site.hops \in 0 .. MAX_REDIRECTS
      /\ visited \in Seq({"public"}) /\ Len(visited) = site.hops
      /\ GoodMeasures(evidence, gaps, site.scheme)
      /\ audits = [i \in 1 .. Len(audits) |-> audits[i]] /\ Len(audits) \in Nat
      /\ \A i \in 1 .. Len(audits) : ReportOK(audits[i], site.scheme)
  BY <1>1 DEF SiteInv
<1> DEFINE r == SiteReport(evidence, gaps)
<1>3. r = ReportOn(evidence, gaps, site.scheme)
  BY Zenon DEF SiteReport, ReportOn
<1> HIDE DEF r
<1>4. ReportOK(r, site.scheme)
  <2>1. r.evidence = evidence /\ r.gaps = gaps
    BY <1>3, ReportParts
  <2> QED
    BY <1>2, <1>3, <2>1 DEF ReportOK
<1>5. /\ audits' = [i \in 1 .. Len(audits') |-> audits'[i]] /\ Len(audits') \in Nat
      /\ \A i \in 1 .. Len(audits') : ReportOK(audits'[i], site.scheme)
  <2>1. audits' = Append(audits, r)
    BY <1>1 DEF r
  <2>2. Len(audits') = Len(audits) + 1
    BY <1>2, <2>1, AppendIs
  <2>3. audits' = [i \in 1 .. Len(audits) + 1 |-> audits'[i]]
    BY <1>2, <2>1, AppendIs
  <2>4. \A i \in 1 .. Len(audits) + 1 : i = Len(audits) + 1 \/ i \in 1 .. Len(audits)
    BY <1>2
  <2>5. \A i \in 1 .. Len(audits) : audits'[i] = audits[i]
    BY <1>2, <2>1, AppendIs
  <2>6. audits'[Len(audits) + 1] = r
    BY <1>2, <2>1, AppendIs
  <2> QED
    BY <1>2, <1>4, <2>2, <2>3, <2>4, <2>5, <2>6
<1>6. /\ site'.at \in {"probe", "settled"} /\ site'.scheme = site.scheme /\ site'.hops = 0
      /\ site' = [at |-> site'.at, scheme |-> site'.scheme, hops |-> site'.hops, sample |-> site'.sample]
  BY <1>1, <1>2
<1>7. Untouched("tls")' /\ Untouched("http-redirect")'
  BY <1>1 DEF Untouched
<1>8. GoodMeasures(evidence', gaps', site.scheme)
  BY <1>1, NothingMeasured
<1> QED
  BY <1>1, <1>2, <1>5, <1>6, <1>7, <1>8 DEF SiteInv

LEMMA SiteInvHolds == MCSpec => []SiteInv
<1>1. SiteInv /\ [SiteNext]_siteVars => SiteInv'
  <2> SUFFICES ASSUME SiteInv, [SiteNext]_siteVars PROVE SiteInv'
    OBVIOUS
  <2>1. CASE ProbeRequest
    BY <2>1, ProbeStep
  <2>2. CASE TlsInspect
    BY <2>2, TlsStep
  <2>3. CASE Derive
    BY <2>3, DeriveStep
  <2>4. CASE UNCHANGED siteVars
    BY <2>4, Zenon DEF siteVars, SiteInv, Untouched
  <2> QED
    BY <2>1, <2>2, <2>3, <2>4, Zenon DEF SiteNext
<1> QED
  BY <1>1, SiteStarts, SitePart, PTL

-----------------------------------------------------------------------------
(* The assessment, category by category.                                   *)

KindAt(ev, kind) == {i \in DOMAIN ev : ev[i].kind = kind}
FirstAt(ev, kind) == CHOOSE i \in KindAt(ev, kind) : \A j \in KindAt(ev, kind) : i <= j
GoodAt(ev) == {i \in KindAt(ev, "timing-sample") : ev[i].val.status >= 200 /\ ev[i].val.status < 400}
SourceAt(ev) == CHOOSE i \in GoodAt(ev) : \A j \in GoodAt(ev) : i <= j
IdsOf(ev, I) == {ev[i].id : i \in I}
Redirected(ev) == KindAt(ev, "http-redirect") # {}
RedirectOf(ev) == IF ~Redirected(ev) THEN "unseen" ELSE IF ev[FirstAt(ev, "http-redirect")].val.secure THEN "yes" ELSE "no"
PerfOf(ev, gs) ==
  IF KindAt(ev, "timing-sample") = {} THEN Cat(0, TRUE, {}, gapReason(gs, "timing-sample"))
  ELSE Cat(scorePerformance(P95(ev) * 10), FALSE, IdsOf(ev, KindAt(ev, "timing-sample")), GapsOf(gs, "timing-sample"))
TlsOf(ev, gs, scheme) ==
  IF scheme = "http" THEN Cat(0, TRUE, {}, 0)
  ELSE IF KindAt(ev, "tls") = {} THEN Cat(0, TRUE, {}, gapReason(gs, "tls"))
  ELSE Cat(scoreTls(ev[FirstAt(ev, "tls")].val), FALSE, IdsOf(ev, {FirstAt(ev, "tls")}), 0)
HeadersOf(ev) ==
  IF GoodAt(ev) = {} THEN Cat(0, TRUE, {}, 0)
  ELSE Cat(scoreHeaders(ev[SourceAt(ev)].val.headers), FALSE, IdsOf(ev, {SourceAt(ev)}), 0)
LackOf(ev, gs, scheme) ==
  (IF GoodAt(ev) = {} THEN 1 ELSE 0)
  + (IF scheme = "https" /\ ~Redirected(ev) THEN 2 + gapReason(gs, "http-redirect") ELSE 0)
AnswersOf(ev) == {ev[i].val : i \in IF GoodAt(ev) # {} THEN {SourceAt(ev)} ELSE {}}
HygieneFor(ev, gs, scheme) ==
  HygieneOf(AnswersOf(ev), RedirectOf(ev),
            IdsOf(ev, (IF GoodAt(ev) # {} THEN {SourceAt(ev)} ELSE {}) \cup KindAt(ev, "http-redirect")),
            LackOf(ev, gs, scheme))
CatsOf(ev, gs, scheme) ==
  [performance |-> PerfOf(ev, gs), tls |-> TlsOf(ev, gs, scheme), headers |-> HeadersOf(ev), hygiene |-> HygieneFor(ev, gs, scheme)]

LEMMA AssessmentIs ==
  ASSUME NEW ev, NEW gs, NEW scheme
  PROVE  deriveAssessment(ev, gs, scheme) =
           [categories |-> CatsOf(ev, gs, scheme), overall |-> Overall(CatsOf(ev, gs, scheme))]
BY Zenon DEF deriveAssessment, CatsOf, PerfOf, TlsOf, HeadersOf, HygieneFor, KindAt, FirstAt, GoodAt, SourceAt, IdsOf,
             RedirectOf, Redirected, LackOf, AnswersOf

LEMMA CatIs ==
  ASSUME NEW s, NEW d, NEW c, NEW x
  PROVE  /\ Cat(s, d, c, x) = [score |-> s, degraded |-> d, cites |-> c, reason |-> x]
         /\ Cat(s, d, c, x).score = s /\ Cat(s, d, c, x).degraded = d /\ Cat(s, d, c, x).cites = c /\ Cat(s, d, c, x).reason = x
BY DEF Cat

LEMMA CategoriesAre ==
  ASSUME NEW ev, NEW gs, NEW scheme, NEW cats, cats = CatsOf(ev, gs, scheme)
  PROVE  /\ DOMAIN cats = {"performance", "tls", "headers", "hygiene"}
         /\ cats["performance"] = PerfOf(ev, gs) /\ cats["tls"] = TlsOf(ev, gs, scheme)
         /\ cats["headers"] = HeadersOf(ev) /\ cats["hygiene"] = HygieneFor(ev, gs, scheme)
BY DEF CatsOf

(* A report that was delivered is the one of its evidence; verifyAudit     *)
(* derives the same again.                                                 *)
LEMMA ReportIsDerived ==
  ASSUME NEW r, NEW scheme, ReportOK(r, scheme)
  PROVE  /\ r = [evidence |-> r.evidence, gaps |-> r.gaps, categories |-> r.categories, overall |-> r.overall]
         /\ r.categories = CatsOf(r.evidence, r.gaps, scheme) /\ r.overall = Overall(r.categories)
<1> DEFINE a == deriveAssessment(r.evidence, r.gaps, scheme)
<1>1. r = [evidence |-> r.evidence, gaps |-> r.gaps, categories |-> a.categories, overall |-> a.overall]
  BY Zenon DEF ReportOK, ReportOn
<1>2. a.categories = CatsOf(r.evidence, r.gaps, scheme) /\ a.overall = Overall(CatsOf(r.evidence, r.gaps, scheme))
  BY AssessmentIs
<1> HIDE DEF a
<1>3. r.categories = a.categories /\ r.overall = a.overall
  BY <1>1
<1> QED
  BY <1>1, <1>2, <1>3

-----------------------------------------------------------------------------
(* The scores are numbers; slower is no better.                            *)

LEMMA LeastIs ==
  ASSUME NEW S \in SUBSET Int, NEW k \in S, \A j \in S : k <= j
  PROVE  (CHOOSE i \in S : \A j \in S : i <= j) = k
<1> DEFINE c == CHOOSE i \in S : \A j \in S : i <= j
<1>1. c \in S /\ \A j \in S : c <= j
  BY Zenon
<1> HIDE DEF c
<1>2. c <= k /\ k <= c /\ c \in Int /\ k \in Int
  BY <1>1
<1>3. c = k
  BY <1>2
<1> QED
  BY <1>3 DEF c

LEMMA PerformanceIs ==
  ASSUME NEW ms \in Int
  PROVE  scorePerformance(ms) =
           IF ms <= 20000 THEN 1000 ELSE IF ms <= 50000 THEN 850 ELSE IF ms <= 100000 THEN 700
           ELSE IF ms <= 200000 THEN 500 ELSE IF ms <= 400000 THEN 250 ELSE 100
<1> DEFINE table == <<<<20000, 1000>>, <<50000, 850>>, <<100000, 700>>, <<200000, 500>>, <<400000, 250>>>>
           at == {i \in DOMAIN table : ms <= table[i][1]}
           c == CHOOSE i \in at : \A j \in at : i <= j
<1>1. scorePerformance(ms) = IF at = {} THEN 100 ELSE table[c][2]
  <2>1. scorePerformance(ms) = Stepped(table, ms, 100)
    BY DEF scorePerformance
  <2> HIDE DEF table
  <2> QED
    BY <2>1, Zenon DEF Stepped
<1>2. /\ DOMAIN table = 1 .. 5
      /\ table[1] = <<20000, 1000>> /\ table[2] = <<50000, 850>> /\ table[3] = <<100000, 700>>
      /\ table[4] = <<200000, 500>> /\ table[5] = <<400000, 250>>
  OBVIOUS
<1> HIDE DEF table
<1>3. /\ table[1][1] = 20000 /\ table[2][1] = 50000 /\ table[3][1] = 100000 /\ table[4][1] = 200000 /\ table[5][1] = 400000
      /\ table[1][2] = 1000 /\ table[2][2] = 850 /\ table[3][2] = 700 /\ table[4][2] = 500 /\ table[5][2] = 250
  BY <1>2
<1>4. \A i \in 1 .. 5 : i = 1 \/ i = 2 \/ i = 3 \/ i = 4 \/ i = 5
  OBVIOUS
<1>5. /\ 1 \in at <=> ms <= 20000
      /\ 2 \in at <=> ms <= 50000
      /\ 3 \in at <=> ms <= 100000
      /\ 4 \in at <=> ms <= 200000
      /\ 5 \in at <=> ms <= 400000
      /\ at \in SUBSET {1, 2, 3, 4, 5}
  BY <1>2, <1>3, <1>4
<1> HIDE DEF at
<1>5a. at \in SUBSET Int
  BY <1>5
<1>5b. \A k \in at : (\A j \in at : k <= j) => c = k
  BY <1>5a, LeastIs
<1> HIDE DEF c
<1>6. CASE ms <= 20000
  <2>1. 1 \in at /\ \A j \in at : 1 <= j
    BY <1>5, <1>6
  <2>2. c = 1
    BY <1>5b, <2>1
  <2> QED
    BY <1>1, <1>3, <1>6, <2>1, <2>2
<1>7. CASE ms > 20000 /\ ms <= 50000
  <2>1. 2 \in at /\ \A j \in at : 2 <= j
    BY <1>5, <1>7
  <2>2. c = 2
    BY <1>5b, <2>1
  <2> QED
    BY <1>1, <1>3, <1>7, <2>1, <2>2
<1>8. CASE ms > 50000 /\ ms <= 100000
  <2>1. 3 \in at /\ \A j \in at : 3 <= j
    BY <1>5, <1>8
  <2>2. c = 3
    BY <1>5b, <2>1
  <2> QED
    BY <1>1, <1>3, <1>8, <2>1, <2>2
<1>9. CASE ms > 100000 /\ ms <= 200000
  <2>1. 4 \in at /\ \A j \in at : 4 <= j
    BY <1>5, <1>9
  <2>2. c = 4
    BY <1>5b, <2>1
  <2> QED
    BY <1>1, <1>3, <1>9, <2>1, <2>2
<1>10. CASE ms > 200000 /\ ms <= 400000
  <2>1. 5 \in at /\ \A j \in at : 5 <= j
    BY <1>5, <1>10
  <2>2. c = 5
    BY <1>5b, <2>1
  <2> QED
    BY <1>1, <1>3, <1>10, <2>1, <2>2
<1>11. CASE ms > 400000
  <2>1. at = {}
    BY <1>5, <1>11
  <2> QED
    BY <1>1, <1>11, <2>1
<1> QED
  BY <1>6, <1>7, <1>8, <1>9, <1>10, <1>11

LEMMA SlowerIsNoBetter ==
  ASSUME NEW x \in Int, NEW y \in Int, x <= y
  PROVE  /\ scorePerformance(x) \in Nat /\ scorePerformance(y) \in Nat
         /\ scorePerformance(y) <= scorePerformance(x)
BY PerformanceIs

LEMMA TlsIsNat ==
  ASSUME NEW days \in Int
  PROVE  scoreTls(days) \in Nat
<1> DEFINE table == <<<<-60, 1000>>, <<-30, 800>>, <<-14, 600>>, <<-7, 400>>, <<-1, 200>>>>
           at == {i \in DOMAIN table : 0 - days <= table[i][1]}
           c == CHOOSE i \in at : \A j \in at : i <= j
<1>1. scoreTls(days) = IF at = {} THEN 0 ELSE table[c][2]
  <2>1. scoreTls(days) = Stepped(table, 0 - days, 0)
    BY DEF scoreTls
  <2> HIDE DEF table
  <2> QED
    BY <2>1, Zenon DEF Stepped
<1>2. DOMAIN table = 1 .. 5 /\ \A i \in 1 .. 5 : table[i][2] \in Nat
  OBVIOUS
<1>3. at # {} => \E i \in at : \A j \in at : i <= j
  <2>1. at \in SUBSET Nat
    BY <1>2
  <2> HIDE DEF at
  <2> QED
    BY <2>1, LeastNat
<1>4. at # {} => c \in DOMAIN table
  <2> HIDE DEF table
  <2> QED
    BY <1>3
<1> HIDE DEF c
<1> QED
  BY <1>1, <1>2, <1>4

-----------------------------------------------------------------------------
(* Ranks and percentiles.                                                  *)

Sooner(val) == {e \in (DOMAIN val) \X (DOMAIN val) : val[e[1]] < val[e[2]] \/ (val[e[1]] = val[e[2]] /\ e[1] < e[2])}
Numbers(val) == DOMAIN val \in SUBSET Nat /\ IsFiniteSet(DOMAIN val) /\ \A k \in DOMAIN val : val[k] \in Int

LEMMA SoonerOrders ==
  ASSUME NEW val, Numbers(val)
  PROVE  StrictlyOrdered(DOMAIN val, Sooner(val))
BY DEF StrictlyOrdered, Sooner, Numbers

LEMMA RankedIs ==
  ASSUME NEW val, Numbers(val), NEW k \in 1 .. Cardinality(DOMAIN val)
  PROVE  \E x \in DOMAIN val : Ranked(val, k) = val[x] /\ Cardinality(Lower(DOMAIN val, Sooner(val), x)) = k - 1
<1> DEFINE D == DOMAIN val
           R == Sooner(val)
           c == CHOOSE i \in D : Cardinality({j \in D : val[j] < val[i] \/ (val[j] = val[i] /\ j < i)}) = k - 1
<1>1. \A i \in D : Lower(D, R, i) = {j \in D : val[j] < val[i] \/ (val[j] = val[i] /\ j < i)}
  BY DEF Lower, Sooner
<1>2. Cardinality(D) \in Nat /\ \A m \in 0 .. Cardinality(D) - 1 : \E x \in D : Cardinality(Lower(D, R, x)) = m
  <2>1. IsFiniteSet(D) /\ StrictlyOrdered(D, R)
    BY SoonerOrders DEF Numbers
  <2> HIDE DEF D, R
  <2> QED
    BY <2>1, PlaceTaken
<1>3. k - 1 \in 0 .. Cardinality(D) - 1
  BY <1>2
<1>4. \E x \in D : Cardinality(Lower(D, R, x)) = k - 1
  <2> HIDE DEF D, R
  <2> QED
    BY <1>2, <1>3
<1>5. \E x \in D : Cardinality({j \in D : val[j] < val[x] \/ (val[j] = val[x] /\ j < x)}) = k - 1
  <2> HIDE DEF D, R
  <2> QED
    BY <1>1, <1>4
<1>6. c \in D /\ Cardinality({j \in D : val[j] < val[c] \/ (val[j] = val[c] /\ j < c)}) = k - 1
  <2> HIDE DEF D
  <2> QED
    BY <1>5, Zenon
<1>7. Ranked(val, k) = val[c]
  BY Zenon DEF Ranked
<1> HIDE DEF c
<1>8. Cardinality(Lower(D, R, c)) = k - 1
  <2> HIDE DEF D, R
  <2> QED
    BY <1>1, <1>6
<1> QED
  BY <1>6, <1>7, <1>8

(* If each number of one family is matched by one of the other that is no  *)
(* smaller, then so is each rank of it.                                    *)
LEMMA RanksDominate ==
  ASSUME NEW a, NEW b, Numbers(a), Numbers(b), Cardinality(DOMAIN a) = Cardinality(DOMAIN b),
         NEW f \in [DOMAIN a -> DOMAIN b], \A k, l \in DOMAIN a : f[k] = f[l] => k = l,
         \A k \in DOMAIN a : a[k] <= b[f[k]],
         NEW k \in 1 .. Cardinality(DOMAIN a)
  PROVE  Ranked(a, k) <= Ranked(b, k)
<1> DEFINE A == DOMAIN a
           B == DOMAIN b
           RA == Sooner(a)
           RB == Sooner(b)
<1>1. IsFiniteSet(A) /\ IsFiniteSet(B) /\ A \in SUBSET Nat /\ B \in SUBSET Nat /\ k \in Int
  BY DEF Numbers
<1>2. PICK x \in A : Ranked(a, k) = a[x] /\ Cardinality(Lower(A, RA, x)) = k - 1
  BY RankedIs
<1>3. PICK y \in B : Ranked(b, k) = b[y] /\ Cardinality(Lower(B, RB, y)) = k - 1
  BY RankedIs
<1>4. \A i \in A : a[i] \in Int
  BY DEF Numbers
<1>5. \A i \in B : b[i] \in Int
  BY DEF Numbers
<1>6. ASSUME a[x] > b[y] PROVE FALSE
  <2> DEFINE LA == Lower(A, RA, x)
             LB == Lower(B, RB, y) \cup {y}
             P == {i \in A : f[i] \in LB}
             g == [i \in P |-> f[i]]
  <2>1. LB \in SUBSET B /\ Lower(B, RB, y) \in SUBSET B /\ y \notin Lower(B, RB, y)
    BY <1>1, <1>3, <1>5 DEF Lower, Sooner
  <2>2. IsFiniteSet(LB) /\ Cardinality(LB) = k
    <3>1. IsFiniteSet(Lower(B, RB, y))
      <4> HIDE DEF B, RB, LB
      <4> QED
        BY <1>1, <2>1, FS_Subset
    <3>2. Cardinality(Lower(B, RB, y) \cup {y}) = Cardinality(Lower(B, RB, y)) + 1 /\ IsFiniteSet(LB)
      <4> HIDE DEF B, RB
      <4> QED
        BY <2>1, <3>1, FS_AddElement
    <3> HIDE DEF B, RB
    <3> QED
      BY <1>1, <1>3, <3>2
  <2>3. \A i \in LB : b[i] <= b[y]
    BY <1>3, <1>5 DEF Lower, Sooner
  <2>4. LA \in SUBSET A /\ IsFiniteSet(LA) /\ Cardinality(LA) = k - 1
    <3>1. LA \in SUBSET A
      BY DEF Lower
    <3> HIDE DEF A, RA
    <3> QED
      BY <1>1, <1>2, <3>1, FS_Subset DEF LA
  <2> HIDE DEF LB
  <2>5. P \in SUBSET LA
    <3>1. \A i \in P : a[i] < a[x]
      <4> SUFFICES ASSUME NEW i \in P PROVE a[i] < a[x]
        OBVIOUS
      <4>1. i \in A /\ f[i] \in LB /\ f[i] \in B
        OBVIOUS
      <4>2. a[i] <= b[f[i]] /\ b[f[i]] <= b[y]
        BY <2>3, <4>1
      <4>3. a[i] \in Int /\ b[f[i]] \in Int /\ b[y] \in Int /\ a[x] \in Int
        BY <1>2, <1>3, <1>4, <1>5, <4>1
      <4> QED
        BY <1>6, <4>2, <4>3
    <3> QED
      BY <1>2, <3>1 DEF Lower, Sooner
  <2>6. f \in Surjection(A, B)
    <3>1. f \in Injection(A, B)
      <4> HIDE DEF A, B
      <4>1. f \in [A -> B] /\ \A i, j \in A : f[i] = f[j] => i = j
        BY DEF A, B
      <4> QED
        BY <4>1 DEF Injection, IsInjective
    <3>2. Cardinality(A) = Cardinality(B)
      OBVIOUS
    <3> HIDE DEF A, B
    <3> QED
      BY <1>1, <3>1, <3>2, FS_Injection
  <2>7. g \in Surjection(P, LB)
    <3>1. \A j \in LB : \E i \in A : f[i] = j
      <4> HIDE DEF A, B
      <4> QED
        BY <2>1, <2>6 DEF Surjection
    <3>2. g \in [P -> LB] /\ \A j \in LB : \E i \in P : g[i] = j
      BY <3>1
    <3> HIDE DEF P, g
    <3> QED
      BY <3>2 DEF Surjection
  <2> HIDE DEF P, g, LA
  <2>8. IsFiniteSet(P) /\ Cardinality(P) <= k - 1
    BY <2>4, <2>5, FS_Subset
  <2>9. k <= Cardinality(P)
    BY <2>2, <2>7, <2>8, FS_Surjection
  <2>10. Cardinality(P) \in Nat
    BY <2>8, FS_CardinalityType
  <2> QED
    BY <1>1, <2>8, <2>9, <2>10
<1>7. a[x] \in Int /\ b[y] \in Int
  BY <1>2, <1>3, <1>4, <1>5
<1> HIDE DEF A, B
<1> QED
  BY <1>2, <1>3, <1>6, <1>7

LEMMA PlacesOf95 ==
  ASSUME NEW n \in Nat \ {0}, NEW rank, rank = (n - 1) * 95
  PROVE  /\ rank \in Nat /\ rank % 100 \in 0 .. 99 /\ rank \div 100 + 1 \in 1 .. n
         /\ rank % 100 # 0 => rank \div 100 + 2 \in 1 .. n
<1>1. rank \in Nat
  OBVIOUS
<1> DEFINE d == rank \div 100
           q == rank % 100
<1>2. d \in Nat /\ q \in 0 .. 99 /\ rank = 100 * d + q
  BY <1>1
<1> HIDE DEF d, q
<1>3. d + 1 \in 1 .. n /\ (q # 0 => d + 2 \in 1 .. n)
  BY <1>2
<1> QED
  BY <1>1, <1>2, <1>3 DEF d, q

LEMMA BetweenGrows ==
  ASSUME NEW q \in 0 .. 99, NEW x1 \in Int, NEW y1 \in Int, NEW x2 \in Int, NEW y2 \in Int, x1 <= x2, y1 <= y2
  PROVE  /\ x1 + (q * (y1 - x1)) \div 100 \in Int /\ x2 + (q * (y2 - x2)) \div 100 \in Int
         /\ x1 + (q * (y1 - x1)) \div 100 <= x2 + (q * (y2 - x2)) \div 100
<1> DEFINE u1 == q * (y1 - x1)
           u2 == q * (y2 - x2)
           dx == q * (x2 - x1)
           dy == q * (y2 - y1)
<1>1. u1 \in Int /\ u2 \in Int /\ dx \in Int /\ dy \in Int
  OBVIOUS
<1>2. u2 + dx = u1 + dy
  <2>1. \A a, b, c, d \in Int : q * (d - b) + q * (b - a) = q * (c - a) + q * (d - c)
    OBVIOUS
  <2> QED
    BY <2>1
<1>3. dy >= 0 /\ dx <= 100 * (x2 - x1)
  <2>1. \A z \in Nat : q * z >= 0 /\ q * z <= 100 * z
    OBVIOUS
  <2>2. x2 - x1 \in Nat /\ y2 - y1 \in Nat
    OBVIOUS
  <2> QED
    BY <2>1, <2>2
<1> HIDE DEF u1, u2, dx, dy
<1> DEFINE d1 == u1 \div 100
           d2 == u2 \div 100
<1>4. d1 \in Int /\ d2 \in Int /\ 100 * d1 <= u1 /\ u2 < 100 * d2 + 100
  BY <1>1
<1> HIDE DEF d1, d2
<1>5. x1 + d1 <= x2 + d2
  BY <1>1, <1>2, <1>3, <1>4
<1> QED
  BY <1>4, <1>5 DEF d1, d2, u1, u2

LEMMA RankedInt ==
  ASSUME NEW val, Numbers(val), NEW k \in 1 .. Cardinality(DOMAIN val)
  PROVE  Ranked(val, k) \in Int
BY RankedIs DEF Numbers

LEMMA PercentilesDominate ==
  ASSUME NEW a, NEW b, Numbers(a), Numbers(b), Cardinality(DOMAIN a) = Cardinality(DOMAIN b), DOMAIN a # {},
         NEW f \in [DOMAIN a -> DOMAIN b], \A k, l \in DOMAIN a : f[k] = f[l] => k = l,
         \A k \in DOMAIN a : a[k] <= b[f[k]]
  PROVE  /\ percentile(a, 95) \in Int /\ percentile(b, 95) \in Int
         /\ percentile(a, 95) <= percentile(b, 95)
<1> DEFINE n == Cardinality(DOMAIN a)
           rank == (n - 1) * 95
           lo == rank \div 100 + 1
           hi == IF rank % 100 = 0 THEN rank \div 100 + 1 ELSE rank \div 100 + 1 + 1
           q == rank % 100
<1>1. n \in Nat \ {0} /\ n = Cardinality(DOMAIN b)
  <2>1. IsFiniteSet(DOMAIN a)
    BY DEF Numbers
  <2>2. Cardinality(DOMAIN a) \in Nat /\ Cardinality(DOMAIN a) # 0
    BY <2>1, FS_CardinalityType, FS_EmptySet
  <2> QED
    BY <2>2
<1> HIDE DEF n
<1>2. rank \in Nat /\ q \in 0 .. 99 /\ lo \in 1 .. n /\ hi \in 1 .. n
  <2> HIDE DEF rank
  <2>1. /\ rank \in Nat /\ rank % 100 \in 0 .. 99 /\ rank \div 100 + 1 \in 1 .. n
        /\ rank % 100 # 0 => rank \div 100 + 2 \in 1 .. n
    BY <1>1, PlacesOf95 DEF rank
  <2>2. rank \div 100 + 1 + 1 = rank \div 100 + 2
    BY <2>1
  <2> QED
    BY <2>1, <2>2
<1>3. percentile(a, 95) = Ranked(a, lo) + (q * (Ranked(a, hi) - Ranked(a, lo))) \div 100
  BY Zenon DEF percentile, n
<1>4. percentile(b, 95) = Ranked(b, lo) + (q * (Ranked(b, hi) - Ranked(b, lo))) \div 100
  <2>1. percentile(b, 95) =
          LET top == (Cardinality(DOMAIN b) - 1) * 95
              from == top \div 100 + 1
              to == IF top % 100 = 0 THEN from ELSE from + 1
          IN  Ranked(b, from) + ((top % 100) * (Ranked(b, to) - Ranked(b, from))) \div 100
    BY Zenon DEF percentile
  <2> QED
    BY Zenon, <1>1, <2>1
<1> HIDE DEF lo, hi, q, rank
<1>5. Ranked(a, lo) \in Int /\ Ranked(a, hi) \in Int /\ Ranked(b, lo) \in Int /\ Ranked(b, hi) \in Int
  BY <1>1, <1>2, RankedInt DEF n
<1>6. Ranked(a, lo) <= Ranked(b, lo) /\ Ranked(a, hi) <= Ranked(b, hi)
  <2>1. \A k \in 1 .. Cardinality(DOMAIN a) : Ranked(a, k) <= Ranked(b, k)
    <3> SUFFICES ASSUME NEW k \in 1 .. Cardinality(DOMAIN a) PROVE Ranked(a, k) <= Ranked(b, k)
      OBVIOUS
    <3> QED
      BY RanksDominate, Zenon
  <2> QED
    BY <1>2, <2>1 DEF n
<1> DEFINE al == Ranked(a, lo)
           ah == Ranked(a, hi)
           bl == Ranked(b, lo)
           bh == Ranked(b, hi)
<1>7. al \in Int /\ ah \in Int /\ bl \in Int /\ bh \in Int /\ al <= bl /\ ah <= bh
  BY <1>5, <1>6
<1>8. percentile(a, 95) = al + (q * (ah - al)) \div 100 /\ percentile(b, 95) = bl + (q * (bh - bl)) \div 100
  BY <1>3, <1>4
<1> HIDE DEF al, ah, bl, bh
<1> QED
  BY <1>2, <1>7, <1>8, BetweenGrows

-----------------------------------------------------------------------------
(* What was measured, as numbers.                                          *)

LEMMA TotalsAre ==
  ASSUME NEW ev, NEW gs, NEW scheme, GoodMeasures(ev, gs, scheme)
  PROVE  /\ DOMAIN Totals(ev) = KindAt(ev, "timing-sample") /\ Numbers(Totals(ev))
<1>1. DOMAIN ev = 1 .. Len(ev) /\ Len(ev) \in Nat /\ \A i \in 1 .. Len(ev) : GoodMeasure(ev[i])
  BY DEF GoodMeasures
<1>2. Totals(ev) = [i \in KindAt(ev, "timing-sample") |-> ev[i].val.total]
  BY Zenon DEF Totals, KindAt
<1>3. \A i \in KindAt(ev, "timing-sample") : ev[i].val.total \in Int
  <2> SUFFICES ASSUME NEW i \in KindAt(ev, "timing-sample") PROVE ev[i].val.total \in Int
    OBVIOUS
  <2>1. ev[i].val \in Answers
    BY <1>1 DEF KindAt, GoodMeasure
  <2> QED
    BY <2>1, SiteAssumption
<1>4. KindAt(ev, "timing-sample") \in SUBSET (1 .. Len(ev)) /\ IsFiniteSet(1 .. Len(ev)) /\ 1 .. Len(ev) \in SUBSET Nat
  BY <1>1, FS_Interval DEF KindAt
<1>5. IsFiniteSet(KindAt(ev, "timing-sample")) /\ KindAt(ev, "timing-sample") \in SUBSET Nat
  BY <1>4, FS_Subset
<1> QED
  BY <1>2, <1>3, <1>5 DEF Numbers

LEMMA P95IsInt ==
  ASSUME NEW ev, NEW gs, NEW scheme, GoodMeasures(ev, gs, scheme), KindAt(ev, "timing-sample") # {}
  PROVE  P95(ev) \in Int
<1> DEFINE a == Totals(ev)
           f == [k \in DOMAIN a |-> k]
<1>1. Numbers(a) /\ DOMAIN a # {}
  BY TotalsAre
<1>2. /\ f \in [DOMAIN a -> DOMAIN a] /\ \A k, l \in DOMAIN a : f[k] = f[l] => k = l
      /\ \A k \in DOMAIN a : a[k] <= a[f[k]]
  BY <1>1 DEF Numbers
<1> HIDE DEF f, a
<1>3. percentile(a, 95) \in Int
  BY <1>1, <1>2, PercentilesDominate
<1>4. P95(ev) = r1(percentile(a, 95), 10)
  BY DEF P95, a
<1> QED
  BY <1>3, <1>4 DEF r1

-----------------------------------------------------------------------------
(* The categories and their mean.                                          *)

IsCat(c) == c.score \in Int /\ c.degraded \in BOOLEAN

LEMMA CatIsCat ==
  ASSUME NEW s \in Int, NEW d \in BOOLEAN, NEW cites, NEW x
  PROVE  IsCat(Cat(s, d, cites, x)) /\ Cat(s, d, cites, x).degraded = d /\ Cat(s, d, cites, x).reason = x
<1>1. Cat(s, d, cites, x).score = s /\ Cat(s, d, cites, x).degraded = d /\ Cat(s, d, cites, x).reason = x
  BY CatIs
<1> QED
  BY <1>1 DEF IsCat

LEMMA KindsAt ==
  ASSUME NEW ev, NEW gs, NEW scheme, GoodMeasures(ev, gs, scheme), NEW kind
  PROVE  /\ KindAt(ev, kind) = {i \in 1 .. Len(ev) : ev[i].kind = kind}
         /\ KindAt(ev, kind) # {} => FirstAt(ev, kind) \in KindAt(ev, kind)
<1>1. DOMAIN ev = 1 .. Len(ev) /\ Len(ev) \in Nat
  BY DEF GoodMeasures
<1>2. KindAt(ev, kind) = {i \in 1 .. Len(ev) : ev[i].kind = kind} /\ KindAt(ev, kind) \in SUBSET Nat
  BY <1>1 DEF KindAt
<1>3. ASSUME KindAt(ev, kind) # {} PROVE FirstAt(ev, kind) \in KindAt(ev, kind)
  <2>1. \E x \in KindAt(ev, kind) : \A y \in KindAt(ev, kind) : x <= y
    BY <1>2, <1>3, LeastNat
  <2> QED
    BY <2>1, Zenon DEF FirstAt
<1> QED
  BY <1>2, <1>3

LEMMA HygieneIsCat ==
  ASSUME NEW answer, NEW redirect, NEW cites, NEW lack \in Int
  PROVE  /\ IsCat(HygieneOf(answer, redirect, cites, lack))
         /\ HygieneOf(answer, redirect, cites, lack).reason = lack
<1> DEFINE applicable == IF redirect = "unseen" THEN "n/a" ELSE redirect
           full == {scoreHygiene(a.zip, a.cache, applicable) : a \in answer}
           s == IF full # {} THEN CHOOSE x \in full : TRUE ELSE IF redirect = "yes" THEN 1000 ELSE 0
<1>1. HygieneOf(answer, redirect, cites, lack) =
        IF answer = {} /\ redirect = "unseen" THEN Cat(0, TRUE, {}, lack) ELSE Cat(s, lack > 0, cites, lack)
  BY Zenon DEF HygieneOf
<1>2. \A zip, cache, x : scoreHygiene(zip, cache, x) \in Int
  <2> SUFFICES ASSUME NEW zip, NEW cache, NEW x PROVE scoreHygiene(zip, cache, x) \in Int
    OBVIOUS
  <2> DEFINE e == (IF zip THEN 40 ELSE 0) + (IF cache THEN 20 ELSE 0) + (IF x = "yes" THEN 40 ELSE 0)
             d == IF x = "n/a" THEN 60 ELSE 100
  <2>1. e \in Nat /\ d \in Nat \ {0}
    OBVIOUS
  <2>2. scoreHygiene(zip, cache, x) = r1(1000 * e, d)
    BY DEF scoreHygiene
  <2> HIDE DEF e, d
  <2>3. r1(1000 * e, d) \in Int
    <3> DEFINE m == 2 * (1000 * e) + d
               k == 2 * d
    <3>1. m \in Int /\ k \in Nat \ {0}
      BY <2>1
    <3>2. r1(1000 * e, d) = m \div k
      BY DEF r1
    <3> HIDE DEF m, k
    <3> QED
      BY <3>1, <3>2
  <2> QED
    BY <2>2, <2>3
<1>3. \A x \in full : x \in Int
  BY <1>2
<1> HIDE DEF full
<1>4. s \in Int
  BY <1>3
<1> HIDE DEF s
<1>5. (lack > 0) \in BOOLEAN /\ TRUE \in BOOLEAN /\ 0 \in Int
  OBVIOUS
<1>6. CASE answer = {} /\ redirect = "unseen"
  <2>1. HygieneOf(answer, redirect, cites, lack) = Cat(0, TRUE, {}, lack)
    BY <1>1, <1>6
  <2> QED
    BY <1>5, <2>1 DEF Cat, IsCat
<1>7. CASE ~(answer = {} /\ redirect = "unseen")
  <2>1. HygieneOf(answer, redirect, cites, lack) = Cat(s, lack > 0, cites, lack)
    BY <1>1, <1>7
  <2> QED
    BY <1>4, <1>5, <2>1 DEF Cat, IsCat
<1> QED
  BY <1>6, <1>7

LEMMA CategoriesAreCats ==
  ASSUME NEW ev, NEW gs, NEW scheme, GoodMeasures(ev, gs, scheme)
  PROVE  /\ IsCat(PerfOf(ev, gs)) /\ IsCat(TlsOf(ev, gs, scheme)) /\ IsCat(HeadersOf(ev)) /\ IsCat(HygieneFor(ev, gs, scheme))
         /\ (PerfOf(ev, gs).degraded <=> KindAt(ev, "timing-sample") = {})
         /\ HygieneFor(ev, gs, scheme).reason = LackOf(ev, gs, scheme)
<1>1. \A i \in 1 .. Len(ev) : GoodMeasure(ev[i])
  BY DEF GoodMeasures
<1>2. IsCat(PerfOf(ev, gs)) /\ (PerfOf(ev, gs).degraded <=> KindAt(ev, "timing-sample") = {})
  <2>1. CASE KindAt(ev, "timing-sample") = {}
    <3>1. PerfOf(ev, gs) = Cat(0, TRUE, {}, gapReason(gs, "timing-sample"))
      BY <2>1 DEF PerfOf
    <3>2. 0 \in Int /\ TRUE \in BOOLEAN
      OBVIOUS
    <3> QED
      BY <2>1, <3>1, <3>2 DEF Cat, IsCat
  <2>2. CASE KindAt(ev, "timing-sample") # {}
    <3>1. P95(ev) \in Int
      BY <2>2, P95IsInt
    <3>2. scorePerformance(P95(ev) * 10) \in Nat
      BY <3>1, SlowerIsNoBetter
    <3> DEFINE v == scorePerformance(P95(ev) * 10)
    <3>3. PerfOf(ev, gs) = Cat(v, FALSE, IdsOf(ev, KindAt(ev, "timing-sample")), GapsOf(gs, "timing-sample"))
      BY <2>2 DEF PerfOf
    <3>4. v \in Int /\ FALSE \in BOOLEAN
      BY <3>2
    <3> HIDE DEF v
    <3> QED
      BY <2>2, <3>3, <3>4 DEF Cat, IsCat
  <2> QED
    BY <2>1, <2>2
<1>3. IsCat(TlsOf(ev, gs, scheme))
  <2>1. CASE scheme = "http" \/ KindAt(ev, "tls") = {}
    <3>1. TlsOf(ev, gs, scheme) = Cat(0, TRUE, {}, IF scheme = "http" THEN 0 ELSE gapReason(gs, "tls"))
      BY <2>1 DEF TlsOf
    <3>2. 0 \in Int /\ TRUE \in BOOLEAN
      OBVIOUS
    <3> QED
      BY <3>1, <3>2 DEF Cat, IsCat
  <2>2. CASE scheme # "http" /\ KindAt(ev, "tls") # {}
    <3> DEFINE f == FirstAt(ev, "tls")
    <3>a. f \in KindAt(ev, "tls") /\ KindAt(ev, "tls") = {i \in 1 .. Len(ev) : ev[i].kind = "tls"}
      BY <2>2, KindsAt
    <3> HIDE DEF f
    <3>b. f \in 1 .. Len(ev) /\ ev[f].kind = "tls"
      BY <3>a
    <3>c. ev[f].val \in CertDays
      BY <1>1, <3>b DEF GoodMeasure
    <3>1. ev[FirstAt(ev, "tls")].val \in CertDays
      BY <3>c DEF f
    <3>2. scoreTls(ev[FirstAt(ev, "tls")].val) \in Nat
      BY <3>1, SiteAssumption, TlsIsNat
    <3> QED
      BY <2>2, <3>2 DEF TlsOf, Cat, IsCat
  <2> QED
    BY <2>1, <2>2
<1>4. IsCat(HeadersOf(ev))
  <2>1. \A x : scoreHeaders(x) \in Int
    BY DEF scoreHeaders, SECURITY_HEADERS
  <2> QED
    BY <2>1 DEF HeadersOf, Cat, IsCat
<1>5. IsCat(HygieneFor(ev, gs, scheme)) /\ HygieneFor(ev, gs, scheme).reason = LackOf(ev, gs, scheme)
  <2>1. LackOf(ev, gs, scheme) \in Int
    BY DEF LackOf, gapReason
  <2> QED
    BY <2>1, HygieneIsCat DEF HygieneFor
<1> QED
  BY <1>2, <1>3, <1>4, <1>5

Four == {"performance", "tls", "headers", "hygiene"}
Weight(cats, c) == IF cats[c].degraded THEN 0 ELSE CATEGORY_WEIGHTS[c]
WeightSum(cats) == Weight(cats, "performance") + Weight(cats, "tls") + Weight(cats, "headers") + Weight(cats, "hygiene")
EarnedSum(cats) ==
  cats["performance"].score * Weight(cats, "performance") + cats["tls"].score * Weight(cats, "tls")
  + cats["headers"].score * Weight(cats, "headers") + cats["hygiene"].score * Weight(cats, "hygiene")

LEMMA OverallIs ==
  ASSUME NEW cats
  PROVE  Overall(cats) = IF WeightSum(cats) = 0 THEN 0 ELSE r1(EarnedSum(cats), WeightSum(cats))
<1> DEFINE w == [c \in DOMAIN CATEGORY_WEIGHTS |-> IF cats[c].degraded THEN 0 ELSE CATEGORY_WEIGHTS[c]]
           e == [c \in DOMAIN CATEGORY_WEIGHTS |-> cats[c].score * w[c]]
<1>1. Overall(cats) = IF AllFour(w) = 0 THEN 0 ELSE r1(AllFour(e), AllFour(w))
  BY Zenon DEF Overall
<1>2. DOMAIN CATEGORY_WEIGHTS = Four
  BY DEF CATEGORY_WEIGHTS, Four
<1>3. \A c \in Four : w[c] = Weight(cats, c) /\ e[c] = cats[c].score * Weight(cats, c)
  BY <1>2 DEF Weight
<1> HIDE DEF w, e
<1>4. "performance" \in Four /\ "tls" \in Four /\ "headers" \in Four /\ "hygiene" \in Four
  BY DEF Four
<1>5. AllFour(w) = WeightSum(cats) /\ AllFour(e) = EarnedSum(cats)
  BY <1>3, <1>4 DEF AllFour, WeightSum, EarnedSum
<1> QED
  BY <1>1, <1>5

LEMMA Rounded ==
  ASSUME NEW num \in Int, NEW den \in Nat \ {0}, NEW v \in Int
  PROVE  /\ r1(num, den) \in Int
         /\ num >= v * den => r1(num, den) >= v
         /\ num <= v * den => r1(num, den) <= v
<1> DEFINE k == 2 * den
           m == 2 * num + den
           q == m \div k
           p == v * den
<1>1. k \in Nat \ {0} /\ m \in Int /\ p \in Int
  OBVIOUS
<1>2. r1(num, den) = q
  BY DEF r1
<1>3. q \in Int /\ k * q <= m /\ m < k * q + k
  <2> HIDE DEF k, m
  <2> QED
    BY <1>1
<1>4. k * q = 2 * (q * den) /\ q * den \in Int
  <2> HIDE DEF q
  <2>1. \A x, y \in Int : (2 * y) * x = 2 * (x * y) /\ x * y \in Int
    OBVIOUS
  <2> QED
    BY <1>3, <2>1
<1>5. \A x, y \in Int, z \in Nat \ {0} : x * z < y * z + z => x <= y
  <2> SUFFICES ASSUME NEW x \in Int, NEW y \in Int, NEW z \in Nat \ {0}, x >= y + 1 PROVE ~(x * z < y * z + z)
    OBVIOUS
  <2>1. x * z >= (y + 1) * z
    <3>1. \A a, b \in Int : a >= b => a * z >= b * z
      OBVIOUS
    <3> QED
      BY <3>1
  <2>2. (y + 1) * z = y * z + z
    OBVIOUS
  <2> QED
    BY <2>1, <2>2
<1> HIDE DEF q, m, k
<1>6. ASSUME num >= p PROVE q >= v
  <2>1. p < q * den + den
    BY <1>1, <1>3, <1>4, <1>6 DEF k, m
  <2> QED
    BY <1>3, <1>5, <2>1
<1>7. ASSUME num <= p PROVE q <= v
  <2>1. q * den < p + den
    BY <1>1, <1>3, <1>4, <1>7 DEF k, m
  <2> QED
    BY <1>3, <1>5, <2>1
<1> QED
  BY <1>2, <1>3, <1>6, <1>7

AreCats(cats) == DOMAIN cats = Four /\ \A c \in Four : IsCat(cats[c])

LEMMA Products ==
  /\ \A p, q \in Int, w \in Nat : p >= q => p * w >= q * w
  /\ \A p, w \in Int : p * w \in Int
  /\ \A v, a, b, c, d \in Int : v * (a + b + c + d) = v * a + v * b + v * c + v * d
  /\ \A p \in Int : p * 0 = 0
<1>1. \A p, q \in Int, w \in Nat : p >= q => p * w >= q * w
  OBVIOUS
<1>2. \A p, w \in Int : p * w \in Int
  OBVIOUS
<1>3. \A v, a, b, c, d \in Int : v * (a + b + c + d) = v * a + v * b + v * c + v * d
  OBVIOUS
<1>4. \A p \in Int : p * 0 = 0
  OBVIOUS
<1> QED
  BY <1>1, <1>2, <1>3, <1>4

LEMMA WeightsAre ==
  ASSUME NEW cats, AreCats(cats)
  PROVE  /\ \A c \in Four : /\ Weight(cats, c) \in Nat /\ cats[c].score \in Int
                            /\ cats[c].degraded => Weight(cats, c) = 0
                            /\ ~cats[c].degraded => Weight(cats, c) = CATEGORY_WEIGHTS[c] /\ Weight(cats, c) > 0
         /\ WeightSum(cats) \in Nat /\ EarnedSum(cats) \in Int
         /\ Live(cats) = {c \in Four : ~cats[c].degraded}
         /\ Live(cats) # {} => WeightSum(cats) > 0
         /\ Live(cats) = {} => WeightSum(cats) = 0
<1>1. \A c \in Four : /\ Weight(cats, c) \in Nat /\ cats[c].score \in Int
                      /\ cats[c].degraded => Weight(cats, c) = 0
                      /\ ~cats[c].degraded => Weight(cats, c) = CATEGORY_WEIGHTS[c] /\ Weight(cats, c) > 0
  BY DEF AreCats, IsCat, Weight, CATEGORY_WEIGHTS, Four
<1>2. "performance" \in Four /\ "tls" \in Four /\ "headers" \in Four /\ "hygiene" \in Four
      /\ \A c \in Four : c = "performance" \/ c = "tls" \/ c = "headers" \/ c = "hygiene"
  BY DEF Four
<1>3. WeightSum(cats) \in Nat
  BY <1>1, <1>2 DEF WeightSum
<1>4. \A c \in Four : cats[c].score * Weight(cats, c) \in Int
  BY <1>1, Products
<1>5. EarnedSum(cats) \in Int
  BY <1>2, <1>4 DEF EarnedSum
<1>6. Live(cats) = {c \in Four : ~cats[c].degraded}
  BY DEF AreCats, Live
<1>7. ASSUME Live(cats) # {} PROVE WeightSum(cats) > 0
  <2>1. PICK c \in Four : ~cats[c].degraded
    BY <1>6, <1>7
  <2>2. Weight(cats, c) > 0
    BY <1>1, <2>1
  <2>3. WeightSum(cats) >= Weight(cats, c)
    BY <1>1, <1>2 DEF WeightSum
  <2> QED
    BY <1>1, <1>3, <2>2, <2>3
<1>8. ASSUME Live(cats) = {} PROVE WeightSum(cats) = 0
  <2>1. \A c \in Four : cats[c].degraded
    BY <1>6, <1>8
  <2>2. \A c \in Four : Weight(cats, c) = 0
    BY <1>1, <2>1
  <2> QED
    BY <1>2, <2>2 DEF WeightSum
<1> QED
  BY <1>1, <1>3, <1>5, <1>6, <1>7, <1>8

LEMMA MeanBetween ==
  ASSUME NEW cats, AreCats(cats), Live(cats) # {}, NEW v \in Int
  PROVE  /\ Overall(cats) \in Int
         /\ (\A c \in Live(cats) : cats[c].score >= v) => Overall(cats) >= v
         /\ (\A c \in Live(cats) : cats[c].score <= v) => Overall(cats) <= v
<1> DEFINE W == WeightSum(cats)
           E == EarnedSum(cats)
           w(c) == Weight(cats, c)
           s(c) == cats[c].score
<1>1. W \in Nat \ {0} /\ E \in Int
  BY WeightsAre
<1>2. Overall(cats) = r1(E, W)
  BY <1>1, OverallIs
<1>3. W = w("performance") + w("tls") + w("headers") + w("hygiene")
  BY DEF WeightSum
<1>4. E = s("performance") * w("performance") + s("tls") * w("tls") + s("headers") * w("headers") + s("hygiene") * w("hygiene")
  BY DEF EarnedSum
<1>5. "performance" \in Four /\ "tls" \in Four /\ "headers" \in Four /\ "hygiene" \in Four
  BY DEF Four
<1>6. \A c \in Four : w(c) \in Nat /\ s(c) \in Int /\ (c \in Live(cats) \/ w(c) = 0)
  BY WeightsAre
<1> HIDE DEF W, E, w, s
<1>7. v * W = v * w("performance") + v * w("tls") + v * w("headers") + v * w("hygiene")
  <2>1. \A c \in Four : w(c) \in Int
    BY <1>6
  <2> QED
    BY <1>3, <1>5, <2>1, Products
<1>8. \A c \in Four : s(c) * w(c) \in Int /\ v * w(c) \in Int
  BY <1>6, Products
<1>9. ASSUME \A c \in Live(cats) : cats[c].score >= v PROVE r1(E, W) >= v
  <2>1. \A c \in Four : s(c) * w(c) >= v * w(c)
    <3> SUFFICES ASSUME NEW c \in Four PROVE s(c) * w(c) >= v * w(c)
      OBVIOUS
    <3>1. CASE c \in Live(cats)
      <4>1. s(c) >= v
        BY <1>9, <3>1 DEF s
      <4> QED
        BY <1>6, <4>1, Products
    <3>2. CASE w(c) = 0
      BY <1>6, <3>2, Products
    <3> QED
      BY <1>6, <3>1, <3>2
  <2>2. E >= v * W
    BY <1>4, <1>5, <1>7, <1>8, <2>1
  <2> QED
    BY <1>1, <2>2, Rounded
<1>10. ASSUME \A c \in Live(cats) : cats[c].score <= v PROVE r1(E, W) <= v
  <2>1. \A c \in Four : s(c) * w(c) <= v * w(c)
    <3> SUFFICES ASSUME NEW c \in Four PROVE s(c) * w(c) <= v * w(c)
      OBVIOUS
    <3>1. CASE c \in Live(cats)
      <4>1. v >= s(c)
        BY <1>6, <1>10, <3>1 DEF s
      <4>2. v * w(c) >= s(c) * w(c)
        BY <1>6, <4>1, Products
      <4> QED
        BY <1>8, <4>2
    <3>2. CASE w(c) = 0
      BY <1>6, <3>2, Products
    <3> QED
      BY <1>6, <3>1, <3>2
  <2>2. E <= v * W
    BY <1>4, <1>5, <1>7, <1>8, <2>1
  <2> QED
    BY <1>1, <2>2, Rounded
<1> QED
  BY <1>1, <1>2, <1>9, <1>10, Rounded

LEMMA ReportsHaveCats ==
  ASSUME NEW r, NEW scheme, ReportOK(r, scheme)
  PROVE  AreCats(r.categories)
<1> DEFINE cats == r.categories
<1>1. GoodMeasures(r.evidence, r.gaps, scheme)
  BY DEF ReportOK
<1>2. cats = CatsOf(r.evidence, r.gaps, scheme)
  BY ReportIsDerived
<1>3. /\ IsCat(PerfOf(r.evidence, r.gaps)) /\ IsCat(TlsOf(r.evidence, r.gaps, scheme))
      /\ IsCat(HeadersOf(r.evidence)) /\ IsCat(HygieneFor(r.evidence, r.gaps, scheme))
  BY <1>1, CategoriesAreCats
<1> HIDE DEF cats
<1>4. /\ DOMAIN cats = Four /\ IsCat(cats["performance"]) /\ IsCat(cats["tls"])
      /\ IsCat(cats["headers"]) /\ IsCat(cats["hygiene"])
  BY <1>2, <1>3, CategoriesAre DEF Four
<1>5. AreCats(cats)
  BY <1>4 DEF AreCats, Four
<1> QED
  BY <1>5 DEF cats

(* The mean lies among what was measured. *)
LEMMA MeanOfTheMeasured ==
  ASSUME SiteInv
  PROVE  OverallIsOfTheMeasured
<1> SUFFICES ASSUME NEW i \in DOMAIN audits, Live(audits[i].categories) # {}
             PROVE  /\ \E c \in Live(audits[i].categories) : audits[i].categories[c].score <= audits[i].overall
                    /\ \E c \in Live(audits[i].categories) : audits[i].categories[c].score >= audits[i].overall
  BY Zenon DEF OverallIsOfTheMeasured
<1>1. ReportOK(audits[i], site.scheme)
  BY DEF SiteInv
<1> DEFINE cats == audits[i].categories
           v == Overall(cats)
<1>2. AreCats(cats)
  BY <1>1, ReportsHaveCats
<1>3. audits[i].overall = v
  BY <1>1, ReportIsDerived
<1> HIDE DEF cats
<1>4. Live(cats) # {}
  BY DEF cats
<1>5. v \in Int
  <2>1. 0 \in Int
    OBVIOUS
  <2> QED
    BY <1>2, <1>4, <2>1, MeanBetween
<1>6. \A c \in Live(cats) : cats[c].score \in Int
  BY <1>2, WeightsAre
<1>7. \E c \in Live(cats) : cats[c].score <= v
  <2> SUFFICES ASSUME \A c \in Live(cats) : ~(cats[c].score <= v) PROVE FALSE
    OBVIOUS
  <2> HIDE DEF v
  <2>1. v + 1 \in Int /\ \A c \in Live(cats) : cats[c].score >= v + 1
    BY <1>5, <1>6
  <2>2. Overall(cats) >= v + 1
    BY <1>2, <1>4, <2>1, MeanBetween
  <2> QED
    BY <1>5, <2>2 DEF v
<1>8. \E c \in Live(cats) : cats[c].score >= v
  <2> SUFFICES ASSUME \A c \in Live(cats) : ~(cats[c].score >= v) PROVE FALSE
    OBVIOUS
  <2> HIDE DEF v
  <2>1. v - 1 \in Int /\ \A c \in Live(cats) : cats[c].score <= v - 1
    BY <1>5, <1>6
  <2>2. Overall(cats) <= v - 1
    BY <1>2, <1>4, <2>1, MeanBetween
  <2> QED
    BY <1>5, <2>2 DEF v
<1> HIDE DEF v
<1> QED
  BY <1>3, <1>7, <1>8 DEF cats

-----------------------------------------------------------------------------
(* Before and after.                                                       *)

LEMMA RoundedGrows ==
  ASSUME NEW x \in Int, NEW y \in Int, x <= y, NEW den \in Nat \ {0}
  PROVE  r1(x, den) \in Int /\ r1(y, den) \in Int /\ r1(x, den) <= r1(y, den)
<1> DEFINE k == 2 * den
           m == 2 * x + den
           n == 2 * y + den
           q == m \div k
           p == n \div k
<1>1. k \in Nat \ {0} /\ m \in Int /\ n \in Int /\ m <= n
  OBVIOUS
<1>2. r1(x, den) = q /\ r1(y, den) = p
  BY DEF r1
<1> HIDE DEF k, m, n
<1>3. q \in Int /\ p \in Int /\ k * q <= m /\ n < k * p + k
  BY <1>1
<1> HIDE DEF q, p
<1>4. \A u, v \in Int, z \in Nat \ {0} : z * u < z * v + z => u <= v
  <2> SUFFICES ASSUME NEW u \in Int, NEW v \in Int, NEW z \in Nat \ {0}, u >= v + 1 PROVE ~(z * u < z * v + z)
    OBVIOUS
  <2>1. z * u >= z * (v + 1)
    <3>1. \A c, d \in Int : c >= d => z * c >= z * d
      OBVIOUS
    <3> QED
      BY <3>1
  <2>2. z * (v + 1) = z * v + z
    OBVIOUS
  <2> QED
    BY <2>1, <2>2
<1>5. k * q \in Int /\ k * p \in Int
  <2>1. \A u, v \in Int : u * v \in Int
    OBVIOUS
  <2> QED
    BY <1>1, <1>3, <2>1
<1>6. k * q < k * p + k
  BY <1>1, <1>3, <1>5
<1>7. q <= p
  BY <1>1, <1>3, <1>4, <1>6
<1> QED
  BY <1>2, <1>3, <1>7

LEMMA TimedPerformance ==
  ASSUME NEW r, NEW scheme, ReportOK(r, scheme), DOMAIN Totals(r.evidence) # {}
  PROVE  /\ P95(r.evidence) \in Int
         /\ r.categories["performance"].score = scorePerformance(P95(r.evidence) * 10)
<1>1. GoodMeasures(r.evidence, r.gaps, scheme)
  BY DEF ReportOK
<1>2. KindAt(r.evidence, "timing-sample") # {}
  BY <1>1, TotalsAre
<1>3. P95(r.evidence) \in Int
  BY <1>1, <1>2, P95IsInt
<1>4. r.categories["performance"] = PerfOf(r.evidence, r.gaps)
  BY ReportIsDerived, CategoriesAre
<1>5. PerfOf(r.evidence, r.gaps).score = scorePerformance(P95(r.evidence) * 10)
  BY <1>2 DEF PerfOf, Cat
<1> QED
  BY <1>3, <1>4, <1>5

LEMMA MeanGrows ==
  ASSUME NEW x, NEW y, AreCats(x), AreCats(y), Live(x) = Live(y), \A c \in Live(x) : y[c].score <= x[c].score
  PROVE  Overall(x) \in Int /\ Overall(y) \in Int /\ Overall(y) <= Overall(x)
<1> DEFINE W == WeightSum(x)
           e1 == EarnedSum(x)
           e2 == EarnedSum(y)
           w(c) == Weight(x, c)
           v(c) == Weight(y, c)
           s(c) == x[c].score
           z(c) == y[c].score
<1>1. W \in Nat /\ e1 \in Int /\ e2 \in Int
  BY WeightsAre
<1>2. \A c \in Four : /\ w(c) \in Nat /\ s(c) \in Int /\ v(c) \in Nat /\ z(c) \in Int
  BY WeightsAre
<1>3. \A c \in Four : w(c) = v(c) /\ (c \in Live(x) \/ w(c) = 0)
  <2> SUFFICES ASSUME NEW c \in Four PROVE w(c) = v(c) /\ (c \in Live(x) \/ w(c) = 0)
    OBVIOUS
  <2>1. Live(x) = {d \in Four : ~x[d].degraded} /\ Live(y) = {d \in Four : ~y[d].degraded}
    BY WeightsAre
  <2>2. CASE x[c].degraded
    <3>1. y[c].degraded
      BY <2>1, <2>2
    <3> QED
      BY <2>2, <3>1 DEF Weight
  <2>3. CASE ~x[c].degraded
    <3>1. ~y[c].degraded /\ c \in Live(x)
      BY <2>1, <2>3
    <3> QED
      BY <2>3, <3>1 DEF Weight
  <2> QED
    BY <2>2, <2>3
<1>4. "performance" \in Four /\ "tls" \in Four /\ "headers" \in Four /\ "hygiene" \in Four
  BY DEF Four
<1>5. WeightSum(y) = W
  BY <1>3, <1>4 DEF WeightSum
<1>6. /\ e1 = s("performance") * w("performance") + s("tls") * w("tls") + s("headers") * w("headers") + s("hygiene") * w("hygiene")
      /\ e2 = z("performance") * v("performance") + z("tls") * v("tls") + z("headers") * v("headers") + z("hygiene") * v("hygiene")
  BY DEF EarnedSum
<1>7. Overall(x) = (IF W = 0 THEN 0 ELSE r1(e1, W)) /\ Overall(y) = (IF W = 0 THEN 0 ELSE r1(e2, W))
  BY <1>5, OverallIs
<1>8. \A c \in Live(x) : z(c) <= s(c)
  OBVIOUS
<1> HIDE DEF W, e1, e2, w, v, s, z
<1>9. \A c \in Four : z(c) * v(c) <= s(c) * w(c) /\ z(c) * v(c) \in Int /\ s(c) * w(c) \in Int
  <2> SUFFICES ASSUME NEW c \in Four
               PROVE  z(c) * v(c) <= s(c) * w(c) /\ z(c) * v(c) \in Int /\ s(c) * w(c) \in Int
    OBVIOUS
  <2>1. z(c) * v(c) \in Int /\ s(c) * w(c) \in Int /\ v(c) = w(c)
    BY <1>2, <1>3, Products
  <2>2. CASE c \in Live(x)
    <3>1. s(c) >= z(c)
      BY <1>2, <1>8, <2>2
    <3>2. s(c) * w(c) >= z(c) * w(c)
      BY <1>2, <3>1, Products
    <3> QED
      BY <2>1, <3>2
  <2>3. CASE w(c) = 0
    <3>1. s(c) * 0 = 0 /\ z(c) * 0 = 0
      BY <1>2, Products
    <3> QED
      BY <2>1, <2>3, <3>1
  <2> QED
    BY <1>3, <2>2, <2>3
<1>10. e2 <= e1
  BY <1>4, <1>6, <1>9
<1>11. CASE W = 0
  BY <1>7, <1>11
<1>12. CASE W # 0
  <2>1. r1(e2, W) \in Int /\ r1(e1, W) \in Int /\ r1(e2, W) <= r1(e1, W)
    BY <1>1, <1>10, <1>12, RoundedGrows
  <2> QED
    BY <1>7, <1>12, <2>1
<1> QED
  BY <1>11, <1>12

(* An audit with slower samples scores no higher for performance. *)
LEMMA SlowerHolds ==
  ASSUME SiteInv
  PROVE  SlowerNeverScoresHigher
<1> DEFINE a == Totals(audits[1].evidence)
           b == Totals(audits[2].evidence)
<1> SUFFICES ASSUME Len(audits) = 2, DOMAIN a # {}, Cardinality(DOMAIN a) = Cardinality(DOMAIN b),
                    NEW f \in [DOMAIN a -> DOMAIN b], \A k, l \in DOMAIN a : f[k] = f[l] => k = l,
                    \A k \in DOMAIN a : a[k] <= b[f[k]]
             PROVE  audits[2].categories["performance"].score <= audits[1].categories["performance"].score
  BY Zenon DEF SlowerNeverScoresHigher
<1>1. ReportOK(audits[1], site.scheme) /\ ReportOK(audits[2], site.scheme)
  BY DEF SiteInv
<1>2. Numbers(a) /\ Numbers(b)
  BY <1>1, TotalsAre DEF ReportOK
<1>3. DOMAIN b # {}
  OBVIOUS
<1>4. /\ percentile(a, 95) \in Int /\ percentile(b, 95) \in Int
      /\ percentile(a, 95) <= percentile(b, 95)
  <2> HIDE DEF a, b
  <2> QED
    BY <1>2, PercentilesDominate
<1>5. /\ P95(audits[1].evidence) = r1(percentile(a, 95), 10)
      /\ P95(audits[2].evidence) = r1(percentile(b, 95), 10)
  BY DEF P95
<1>6. /\ P95(audits[1].evidence) \in Int
      /\ audits[1].categories["performance"].score = scorePerformance(P95(audits[1].evidence) * 10)
  BY <1>1, TimedPerformance
<1>7. /\ P95(audits[2].evidence) \in Int
      /\ audits[2].categories["performance"].score = scorePerformance(P95(audits[2].evidence) * 10)
  BY <1>1, <1>3, TimedPerformance
<1> HIDE DEF a, b
<1>8. P95(audits[1].evidence) <= P95(audits[2].evidence)
  <2>1. r1(percentile(a, 95), 10) <= r1(percentile(b, 95), 10)
    BY <1>4, RoundedGrows
  <2> QED
    BY <1>5, <2>1
<1>9. P95(audits[1].evidence) * 10 <= P95(audits[2].evidence) * 10
  BY <1>6, <1>7, <1>8
<1> QED
  BY <1>6, <1>7, <1>9, SlowerIsNoBetter

LEMMA ComparedIs ==
  ASSUME NEW base, NEW cur
  PROVE  /\ compareAudits(base, cur).lost = Live(base.categories) \ Live(cur.categories)
         /\ compareAudits(base, cur).overall = cur.overall - base.overall
BY DEF compareAudits

LEMMA DeltaIs ==
  ASSUME NEW base, NEW cur, NEW k \in Four
  PROVE  compareAudits(base, cur).delta[k] = cur.categories[k].score - base.categories[k].score
<1>1. DOMAIN CATEGORY_WEIGHTS = Four
  BY DEF CATEGORY_WEIGHTS, Four
<1> QED
  BY <1>1 DEF compareAudits

LEMMA MetricIs ==
  ASSUME NEW base, NEW cur, NEW x \in compareAudits(base, cur).p95
  PROVE  /\ x.base = P95(base.evidence) /\ x.cur = P95(cur.evidence)
         /\ DOMAIN Totals(base.evidence) # {} /\ DOMAIN Totals(cur.evidence) # {}
BY DEF compareAudits

LEMMA PaidIs ==
  ASSUME NEW t, NEW base, NEW cur, verifyPayOnImprovement(TRUE, t, base, cur)
  PROVE  evaluatePayOnImprovement(compareAudits(base, cur), t)
BY Zenon DEF verifyPayOnImprovement

LEMMA PayIs ==
  ASSUME NEW d, NEW t, evaluatePayOnImprovement(d, t)
  PROVE  /\ t.kind = "overall-score-gain" => Creditable(d) /\ d.overall >= t.need
         /\ t.kind = "category-score-gain" => t.category \in d.both /\ d.delta[t.category] >= t.need
         /\ t.kind = "metric-drop-pct" => \E x \in d.p95 : x.base > 0 /\ (x.base - x.cur) * 100 >= t.need * x.base
<1>1. ASSUME t.kind = "overall-score-gain" PROVE Creditable(d) /\ d.overall >= t.need
  BY <1>1 DEF evaluatePayOnImprovement, Creditable
<1>2. ASSUME t.kind = "category-score-gain" PROVE t.category \in d.both /\ d.delta[t.category] >= t.need
  BY <1>2 DEF evaluatePayOnImprovement, Creditable
<1>3. ASSUME t.kind = "metric-drop-pct" PROVE \E x \in d.p95 : x.base > 0 /\ (x.base - x.cur) * 100 >= t.need * x.base
  BY <1>3 DEF evaluatePayOnImprovement, Creditable
<1> QED
  BY <1>1, <1>2, <1>3

(* A target that pays and asks for a gain. *)
LEMMA PaidForGain ==
  ASSUME NEW t, NEW base, NEW cur, NEW scheme, ReportOK(base, scheme), ReportOK(cur, scheme),
         t.need \in Int, t.need > 0, t.kind = "overall-score-gain",
         evaluatePayOnImprovement(compareAudits(base, cur), t)
  PROVE  \/ \E c \in Live(base.categories) \cap Live(cur.categories) : cur.categories[c].score > base.categories[c].score
         \/ Live(cur.categories) \ Live(base.categories) # {}
<1> DEFINE d == compareAudits(base, cur)
           p == base.categories
           q == cur.categories
<1>1. d.lost = Live(p) \ Live(q) /\ d.overall = cur.overall - base.overall
  BY ComparedIs, Zenon
<1>2. Creditable(d) /\ d.overall >= t.need
  BY PayIs
<1>3. AreCats(p) /\ AreCats(q)
  BY ReportsHaveCats
<1>4. base.overall = Overall(p) /\ cur.overall = Overall(q)
  BY ReportIsDerived
<1> SUFFICES ASSUME \A c \in Live(p) \cap Live(q) : ~(q[c].score > p[c].score), Live(q) \ Live(p) = {}
             PROVE  FALSE
  OBVIOUS
<1> HIDE DEF d, p, q
<1>5. Live(p) = Live(q)
  BY <1>1, <1>2 DEF Creditable
<1>6. \A c \in Live(p) : q[c].score <= p[c].score
  <2>1. \A c \in Four : p[c].score \in Int /\ q[c].score \in Int
    BY <1>3, WeightsAre
  <2>2. Live(p) \in SUBSET Four
    BY <1>3, WeightsAre
  <2> QED
    BY <1>5, <2>1, <2>2
<1>7. Overall(p) \in Int /\ Overall(q) \in Int /\ Overall(q) <= Overall(p)
  BY <1>3, <1>5, <1>6, MeanGrows
<1>8. Overall(q) - Overall(p) >= t.need
  BY <1>1, <1>2, <1>4
<1> QED
  BY <1>7, <1>8

LEMMA PaidForCategory ==
  ASSUME NEW t, NEW base, NEW cur, NEW scheme, ReportOK(base, scheme), ReportOK(cur, scheme),
         t.need \in Int, t.need > 0, t.kind = "category-score-gain", t.category \in Four,
         evaluatePayOnImprovement(compareAudits(base, cur), t)
  PROVE  cur.categories[t.category].score > base.categories[t.category].score
<1> DEFINE d == compareAudits(base, cur)
           p == base.categories[t.category].score
           q == cur.categories[t.category].score
<1>2. d.delta[t.category] = q - p
  BY DeltaIs
<1>3. d.delta[t.category] >= t.need
  BY PayIs
<1>4. p \in Int /\ q \in Int
  <2>1. AreCats(base.categories) /\ AreCats(cur.categories)
    BY ReportsHaveCats
  <2> QED
    BY <2>1, WeightsAre
<1> HIDE DEF d, p, q
<1>5. q > p
  BY <1>2, <1>3, <1>4
<1> QED
  BY <1>5 DEF p, q

LEMMA PaidForMetric ==
  ASSUME NEW t, NEW base, NEW cur, NEW scheme, ReportOK(base, scheme), ReportOK(cur, scheme),
         t.need \in Int, t.need > 0, t.kind = "metric-drop-pct",
         evaluatePayOnImprovement(compareAudits(base, cur), t)
  PROVE  cur.categories["performance"].score >= base.categories["performance"].score
<1> DEFINE d == compareAudits(base, cur)
           p == P95(base.evidence)
           q == P95(cur.evidence)
<1>1. \E x \in d.p95 : x.base > 0 /\ (x.base - x.cur) * 100 >= t.need * x.base
  BY PayIs
<1>3. /\ DOMAIN Totals(base.evidence) # {} /\ DOMAIN Totals(cur.evidence) # {}
      /\ p > 0 /\ (p - q) * 100 >= t.need * p
  <2>1. PICK x \in d.p95 : x.base > 0 /\ (x.base - x.cur) * 100 >= t.need * x.base
    BY <1>1
  <2>2. /\ x.base = p /\ x.cur = q
        /\ DOMAIN Totals(base.evidence) # {} /\ DOMAIN Totals(cur.evidence) # {}
    BY MetricIs
  <2> HIDE DEF d, p, q
  <2> QED
    BY <2>1, <2>2
<1>4. p \in Int /\ base.categories["performance"].score = scorePerformance(p * 10)
  BY <1>3, TimedPerformance
<1>5. q \in Int /\ cur.categories["performance"].score = scorePerformance(q * 10)
  BY <1>3, TimedPerformance
<1> HIDE DEF d, p, q
<1>6. q <= p
  <2>1. \A x, y \in Int : x > 0 /\ y > 0 => x * y > 0
    OBVIOUS
  <2>2. t.need * p > 0
    BY <1>3, <1>4, <2>1
  <2>3. t.need * p \in Int
    <3>1. \A x, y \in Int : x * y \in Int
      OBVIOUS
    <3> QED
      BY <1>4, <3>1
  <2>4. (p - q) * 100 > 0
    BY <1>3, <1>4, <1>5, <2>2, <2>3
  <2> QED
    BY <1>4, <1>5, <2>4
<1>7. q * 10 <= p * 10 /\ q * 10 \in Int /\ p * 10 \in Int
  BY <1>4, <1>5, <1>6
<1>8. scorePerformance(p * 10) <= scorePerformance(q * 10)
  BY <1>7, SlowerIsNoBetter
<1>9. scorePerformance(p * 10) \in Nat /\ scorePerformance(q * 10) \in Nat
  BY <1>7, SlowerIsNoBetter
<1> QED
  BY <1>4, <1>5, <1>8, <1>9

(* A contract that asks for a gain pays for a site that got better. *)
LEMMA PaidHolds ==
  ASSUME SiteInv
  PROVE  PaidMeansImproved
<1> DEFINE L(i) == Live(audits[i].categories)
           score(i, c) == audits[i].categories[c].score
<1> SUFFICES ASSUME Len(audits) = 2, NEW t \in Targets, t.need > 0, verifyPayOnImprovement(TRUE, t, audits[1], audits[2])
             PROVE  CASE t.kind = "overall-score-gain" -> (\E c \in L(1) \cap L(2) : score(2, c) > score(1, c)) \/ L(2) \ L(1) # {}
                      [] t.kind = "category-score-gain" -> score(2, t.category) > score(1, t.category)
                      [] t.kind = "metric-drop-pct" -> score(2, "performance") >= score(1, "performance")
  BY Zenon DEF PaidMeansImproved
<1>1. ReportOK(audits[1], site.scheme) /\ ReportOK(audits[2], site.scheme)
  BY DEF SiteInv
<1>2. evaluatePayOnImprovement(compareAudits(audits[1], audits[2]), t)
  BY PaidIs
<1>3. /\ t.kind \in {"overall-score-gain", "category-score-gain", "metric-drop-pct"} /\ t.need \in Int
      /\ t.kind = "category-score-gain" => t.category \in Four
  BY SiteAssumption DEF Four
<1>4. CASE t.kind = "overall-score-gain"
  <2>1. (\E c \in L(1) \cap L(2) : score(2, c) > score(1, c)) \/ L(2) \ L(1) # {}
    BY <1>1, <1>2, <1>3, <1>4, PaidForGain
  <2> HIDE DEF L, score
  <2> QED
    BY <1>4, <2>1
<1>5. CASE t.kind = "category-score-gain"
  <2>1. score(2, t.category) > score(1, t.category)
    BY <1>1, <1>2, <1>3, <1>5, PaidForCategory
  <2> HIDE DEF L, score
  <2> QED
    BY <1>5, <2>1
<1>6. CASE t.kind = "metric-drop-pct"
  <2>1. score(2, "performance") >= score(1, "performance")
    BY <1>1, <1>2, <1>3, <1>6, PaidForMetric
  <2> HIDE DEF L, score
  <2> QED
    BY <1>6, <2>1
<1> QED
  BY <1>3, <1>4, <1>5, <1>6

-----------------------------------------------------------------------------
(* What is taken out is missed.                                            *)

LEMMA OneGapLess ==
  ASSUME NEW gs \in Seq(Measures), NEW i \in 1 .. Len(gs)
  PROVE  /\ GapsOf(RemoveAt(gs, i), gs[i]) \in Nat
         /\ GapsOf(gs, gs[i]) = GapsOf(RemoveAt(gs, i), gs[i]) + 1
<1> DEFINE n == Len(gs)
           rest == RemoveAt(gs, i)
           A == {k \in 1 .. n : gs[k] = gs[i]}
           D == {k \in 1 .. n - 1 : rest[k] = gs[i]}
           m == [k \in D |-> IF k < i THEN k ELSE k + 1]
<1>1. n \in Nat /\ i \in 1 .. n
  OBVIOUS
<1>2. DOMAIN rest = 1 .. n - 1 /\ \A k \in 1 .. n - 1 : rest[k] = IF k < i THEN gs[k] ELSE gs[k + 1]
  <2>1. gs = [k \in 1 .. n |-> gs[k]]
    OBVIOUS
  <2> HIDE DEF n
  <2> QED
    BY <1>1, <2>1, RemovedIs
<1>3. GapsOf(gs, gs[i]) = Cardinality(A) /\ GapsOf(rest, gs[i]) = Cardinality(D)
  <2>1. DOMAIN gs = 1 .. n
    OBVIOUS
  <2> HIDE DEF n, rest
  <2> QED
    BY <1>2, <2>1 DEF GapsOf
<1> HIDE DEF n, rest
<1>4. IsFiniteSet(A) /\ i \in A
  <2>1. IsFiniteSet(1 .. n)
    BY <1>1, FS_Interval
  <2>2. A \in SUBSET (1 .. n)
    OBVIOUS
  <2>3. IsFiniteSet(A)
    BY <2>1, <2>2, FS_Subset
  <2> QED
    BY <1>1, <2>3
<1>5. IsFiniteSet(A \ {i}) /\ Cardinality(A \ {i}) = Cardinality(A) - 1
  BY <1>4, FS_RemoveElement
<1>6. m \in [D -> A \ {i}]
  <2> SUFFICES ASSUME NEW k \in D PROVE (IF k < i THEN k ELSE k + 1) \in A \ {i}
    OBVIOUS
  <2>1. CASE k < i
    <3>1. k \in 1 .. n /\ gs[k] = gs[i]
      BY <1>1, <1>2, <2>1
    <3> QED
      BY <1>1, <2>1, <3>1
  <2>2. CASE ~(k < i)
    <3>1. k + 1 \in 1 .. n /\ gs[k + 1] = gs[i]
      BY <1>1, <1>2, <2>2
    <3> QED
      BY <1>1, <2>2, <3>1
  <2> QED
    BY <2>1, <2>2
<1>7. \A a, b \in D : m[a] = m[b] => a = b
  BY <1>1, <1>2
<1>8. \A x \in A \ {i} : \E k \in D : m[k] = x
  <2> SUFFICES ASSUME NEW x \in A \ {i} PROVE \E k \in D : m[k] = x
    OBVIOUS
  <2>1. CASE x < i
    <3>1. x \in 1 .. n - 1 /\ rest[x] = gs[x]
      BY <1>1, <1>2, <2>1
    <3>2. x \in D /\ m[x] = x
      BY <2>1, <3>1
    <3> QED
      BY <3>2
  <2>2. CASE x > i
    <3>1. x - 1 \in 1 .. n - 1 /\ rest[x - 1] = gs[x]
      BY <1>1, <1>2, <2>2
    <3>2. x - 1 \in D /\ m[x - 1] = x
      BY <1>1, <2>2, <3>1
    <3> QED
      BY <3>2
  <2> QED
    BY <1>1, <2>1, <2>2
<1> HIDE DEF m, D, A
<1>9. m \in Injection(D, A \ {i}) /\ m \in Surjection(D, A \ {i})
  BY <1>6, <1>7, <1>8 DEF Injection, IsInjective, Surjection
<1>10. Cardinality(D) = Cardinality(A \ {i}) /\ IsFiniteSet(D)
  BY <1>5, <1>9, FS_Injection
<1>11. Cardinality(D) \in Nat /\ Cardinality(A) \in Nat
  BY <1>4, <1>10, FS_CardinalityType
<1> QED
  BY <1>3, <1>5, <1>10, <1>11 DEF rest

LEMMA RefusedIsDifferent ==
  ASSUME NEW r, NEW x
  PROVE  /\ /\ verifyAudit([r EXCEPT !.evidence = x])
            /\ ReportOK(r, site.scheme)
            => CatsOf(x, r.gaps, site.scheme) = CatsOf(r.evidence, r.gaps, site.scheme)
         /\ /\ verifyAudit([r EXCEPT !.gaps = x])
            /\ ReportOK(r, site.scheme)
            => CatsOf(r.evidence, x, site.scheme) = CatsOf(r.evidence, r.gaps, site.scheme)
<1> DEFINE cats == r.categories
           over == r.overall
<1>1. ReportOK(r, site.scheme) =>
         /\ r = [evidence |-> r.evidence, gaps |-> r.gaps, categories |-> cats, overall |-> over]
         /\ cats = CatsOf(r.evidence, r.gaps, site.scheme)
  BY ReportIsDerived
<1> HIDE DEF cats, over
<1>2. ASSUME ReportOK(r, site.scheme), verifyAudit([r EXCEPT !.evidence = x])
      PROVE  CatsOf(x, r.gaps, site.scheme) = CatsOf(r.evidence, r.gaps, site.scheme)
  <2> DEFINE r2 == [r EXCEPT !.evidence = x]
  <2>1. r2.evidence = x /\ r2.gaps = r.gaps /\ r2.categories = cats
    BY <1>1, <1>2
  <2>2. r2.categories = deriveAssessment(r2.evidence, r2.gaps, site.scheme).categories
    BY <1>2, Zenon DEF verifyAudit
  <2> HIDE DEF r2
  <2>3. cats = deriveAssessment(x, r.gaps, site.scheme).categories
    BY <2>1, <2>2
  <2>4. deriveAssessment(x, r.gaps, site.scheme).categories = CatsOf(x, r.gaps, site.scheme)
    BY AssessmentIs
  <2> QED
    BY <1>1, <1>2, <2>3, <2>4
<1>3. ASSUME ReportOK(r, site.scheme), verifyAudit([r EXCEPT !.gaps = x])
      PROVE  CatsOf(r.evidence, x, site.scheme) = CatsOf(r.evidence, r.gaps, site.scheme)
  <2> DEFINE r2 == [r EXCEPT !.gaps = x]
  <2>1. r2.evidence = r.evidence /\ r2.gaps = x /\ r2.categories = cats
    BY <1>1, <1>3
  <2>2. r2.categories = deriveAssessment(r2.evidence, r2.gaps, site.scheme).categories
    BY <1>3, Zenon DEF verifyAudit
  <2> HIDE DEF r2
  <2>3. cats = deriveAssessment(r.evidence, x, site.scheme).categories
    BY <2>1, <2>2
  <2>4. deriveAssessment(r.evidence, x, site.scheme).categories = CatsOf(r.evidence, x, site.scheme)
    BY AssessmentIs
  <2> QED
    BY <1>1, <1>3, <2>3, <2>4
<1> QED
  BY <1>2, <1>3

LEMMA SameCategories ==
  ASSUME NEW e1, NEW e2, NEW g1, NEW g2, NEW scheme, CatsOf(e1, g1, scheme) = CatsOf(e2, g2, scheme)
  PROVE  /\ PerfOf(e1, g1) = PerfOf(e2, g2) /\ TlsOf(e1, g1, scheme) = TlsOf(e2, g2, scheme)
         /\ HygieneFor(e1, g1, scheme) = HygieneFor(e2, g2, scheme)
<1> DEFINE c1 == CatsOf(e1, g1, scheme)
           c2 == CatsOf(e2, g2, scheme)
<1>1. c1["performance"] = PerfOf(e1, g1) /\ c1["tls"] = TlsOf(e1, g1, scheme) /\ c1["hygiene"] = HygieneFor(e1, g1, scheme)
  BY DEF CatsOf
<1>2. c2["performance"] = PerfOf(e2, g2) /\ c2["tls"] = TlsOf(e2, g2, scheme) /\ c2["hygiene"] = HygieneFor(e2, g2, scheme)
  BY DEF CatsOf
<1>3. c1 = c2
  OBVIOUS
<1> HIDE DEF c1, c2
<1> QED
  BY <1>1, <1>2, <1>3

LEMMA LackIs ==
  ASSUME NEW ev, NEW gs, NEW scheme
  PROVE  LackOf(ev, gs, scheme) \in Int /\ HygieneFor(ev, gs, scheme).reason = LackOf(ev, gs, scheme)
<1>1. LackOf(ev, gs, scheme) \in Int
  BY DEF LackOf, gapReason
<1> QED
  BY <1>1, HygieneIsCat DEF HygieneFor

LEMMA PerfIs ==
  ASSUME NEW ev, NEW gs
  PROVE  /\ KindAt(ev, "timing-sample") = {} =>
              PerfOf(ev, gs).degraded = TRUE /\ PerfOf(ev, gs).reason = gapReason(gs, "timing-sample")
         /\ KindAt(ev, "timing-sample") # {} =>
              /\ PerfOf(ev, gs).degraded = FALSE /\ PerfOf(ev, gs).cites = IdsOf(ev, KindAt(ev, "timing-sample"))
              /\ PerfOf(ev, gs).reason = GapsOf(gs, "timing-sample")
BY DEF PerfOf, Cat

LEMMA TlsIs ==
  ASSUME NEW ev, NEW gs, NEW scheme, scheme # "http"
  PROVE  /\ KindAt(ev, "tls") = {} =>
              TlsOf(ev, gs, scheme).degraded = TRUE /\ TlsOf(ev, gs, scheme).reason = gapReason(gs, "tls")
         /\ KindAt(ev, "tls") # {} => TlsOf(ev, gs, scheme).degraded = FALSE
BY DEF TlsOf, Cat

LEMMA LackBounds ==
  ASSUME NEW ev, NEW gs, NEW scheme
  PROVE  /\ Redirected(ev) => LackOf(ev, gs, scheme) <= 1
         /\ ~Redirected(ev) /\ scheme = "https" =>
              LackOf(ev, gs, scheme) = (IF GoodAt(ev) = {} THEN 1 ELSE 0) + 2 + gapReason(gs, "http-redirect")
BY DEF LackOf, gapReason

(* A report without one of its measurements is not the one that was        *)
(* derived.                                                                *)
LEMMA MeasurementMissed ==
  ASSUME NEW ev, NEW gs, NEW scheme \in {"https", "http"}, GoodMeasures(ev, gs, scheme), NEW i \in 1 .. Len(ev)
  PROVE  CatsOf(RemoveAt(ev, i), gs, scheme) # CatsOf(ev, gs, scheme)
<1> SUFFICES ASSUME CatsOf(RemoveAt(ev, i), gs, scheme) = CatsOf(ev, gs, scheme) PROVE FALSE
  OBVIOUS
<1> DEFINE n == Len(ev)
           rest == RemoveAt(ev, i)
<1>1. n \in Nat /\ i \in 1 .. n /\ ev = [k \in 1 .. n |-> ev[k]]
  BY DEF GoodMeasures
<1>2. DOMAIN ev = 1 .. n
  BY <1>1
<1>3. DOMAIN rest = 1 .. n - 1 /\ \A k \in 1 .. n - 1 : rest[k] = IF k < i THEN ev[k] ELSE ev[k + 1]
  <2> HIDE DEF n
  <2> QED
    BY <1>1, RemovedIs
<1>4. PerfOf(rest, gs) = PerfOf(ev, gs) /\ TlsOf(rest, gs, scheme) = TlsOf(ev, gs, scheme)
      /\ HygieneFor(rest, gs, scheme) = HygieneFor(ev, gs, scheme)
  BY SameCategories
<1>5. /\ \A k \in 1 .. n : ev[k].kind \in Measures /\ ev[k].id = k
      /\ \A j, k \in 1 .. n : ev[j].kind = ev[k].kind => ev[j].kind = "timing-sample" \/ j = k
      /\ scheme = "http" => \A k \in 1 .. n : ev[k].kind = "timing-sample"
  BY DEF GoodMeasures, GoodMeasure
<1>6. i \in 1 .. n /\ n \in Nat
  BY <1>1
<1> HIDE DEF n, rest
<1>7. \A k \in DOMAIN rest : \E j \in 1 .. n : j # i /\ rest[k] = ev[j]
  <2> SUFFICES ASSUME NEW k \in 1 .. n - 1 PROVE \E j \in 1 .. n : j # i /\ rest[k] = ev[j]
    BY <1>3
  <2>1. CASE k < i
    <3>1. k \in 1 .. n /\ k # i /\ rest[k] = ev[k]
      BY <1>3, <1>6, <2>1
    <3> QED
      BY <3>1
  <2>2. CASE ~(k < i)
    <3>1. k + 1 \in 1 .. n /\ k + 1 # i /\ rest[k] = ev[k + 1]
      BY <1>3, <1>6, <2>2
    <3> QED
      BY <3>1
  <2> QED
    BY <2>1, <2>2
<1>8. KindAt(ev, ev[i].kind) # {}
  BY <1>2, <1>6 DEF KindAt
<1>9. CASE ev[i].kind = "timing-sample"
  <2>1. PerfOf(ev, gs).degraded = FALSE /\ PerfOf(ev, gs).cites = IdsOf(ev, KindAt(ev, "timing-sample"))
    BY <1>8, <1>9, PerfIs
  <2>2. KindAt(rest, "timing-sample") # {}
    BY <1>4, <2>1, PerfIs
  <2>3. PerfOf(rest, gs).cites = IdsOf(rest, KindAt(rest, "timing-sample"))
    BY <2>2, PerfIs
  <2>4. i \in IdsOf(ev, KindAt(ev, "timing-sample"))
    BY <1>2, <1>5, <1>6, <1>9 DEF IdsOf, KindAt
  <2>5. \A k \in DOMAIN rest : rest[k].id # i
    BY <1>5, <1>7
  <2>6. i \notin IdsOf(rest, KindAt(rest, "timing-sample"))
    BY <2>5 DEF IdsOf, KindAt
  <2> QED
    BY <1>4, <2>1, <2>3, <2>4, <2>6
<1>10. ASSUME ev[i].kind # "timing-sample" PROVE KindAt(rest, ev[i].kind) = {} /\ scheme = "https"
  <2>1. \A k \in DOMAIN rest : rest[k].kind # ev[i].kind
    BY <1>5, <1>6, <1>7, <1>10
  <2>2. scheme # "http"
    BY <1>5, <1>6, <1>10
  <2> QED
    BY <2>1, <2>2 DEF KindAt
<1>11. CASE ev[i].kind = "tls"
  <2>1. KindAt(rest, "tls") = {} /\ KindAt(ev, "tls") # {} /\ scheme # "http"
    BY <1>8, <1>10, <1>11
  <2>2. TlsOf(rest, gs, scheme).degraded = TRUE /\ TlsOf(ev, gs, scheme).degraded = FALSE
    BY <2>1, TlsIs
  <2> QED
    BY <1>4, <2>2
<1>12. CASE ev[i].kind = "http-redirect"
  <2>1. KindAt(rest, "http-redirect") = {} /\ KindAt(ev, "http-redirect") # {} /\ scheme = "https"
    BY <1>8, <1>10, <1>12
  <2>2. ~Redirected(rest) /\ Redirected(ev)
    BY <2>1 DEF Redirected
  <2>3. LackOf(ev, gs, scheme) <= 1
    BY <2>2, LackBounds
  <2>4. LackOf(rest, gs, scheme) >= 2
    <3>1. LackOf(rest, gs, scheme) = (IF GoodAt(rest) = {} THEN 1 ELSE 0) + 2 + gapReason(gs, "http-redirect")
      BY <2>1, <2>2, LackBounds
    <3> QED
      BY <3>1 DEF gapReason
  <2>5. LackOf(ev, gs, scheme) = LackOf(rest, gs, scheme) /\ LackOf(ev, gs, scheme) \in Int
    BY <1>4, LackIs
  <2> QED
    BY <2>3, <2>4, <2>5
<1> QED
  BY <1>5, <1>6, <1>9, <1>11, <1>12 DEF Measures

(* Nor is one without the note of a failed measurement, but for the count  *)
(* of the samples where all of them failed.                                *)
LEMMA GapMissed ==
  ASSUME NEW ev, NEW gs, NEW scheme \in {"https", "http"}, GoodMeasures(ev, gs, scheme), NEW i \in 1 .. Len(gs),
         CatsOf(ev, RemoveAt(gs, i), scheme) = CatsOf(ev, gs, scheme)
  PROVE  gs[i] = "timing-sample" /\ PerfOf(ev, gs).degraded = TRUE /\ GapsOf(gs, "timing-sample") > 1
<1> DEFINE rest == RemoveAt(gs, i)
           n == Len(ev)
           m == Len(gs)
<1>1. gs \in Seq(Measures) /\ n \in Nat /\ m \in Nat /\ i \in 1 .. m /\ gs[i] \in Measures
  BY DEF GoodMeasures
<1>2. GapsOf(rest, gs[i]) \in Nat /\ GapsOf(gs, gs[i]) = GapsOf(rest, gs[i]) + 1
  BY <1>1, OneGapLess
<1>3. PerfOf(ev, rest) = PerfOf(ev, gs) /\ TlsOf(ev, rest, scheme) = TlsOf(ev, gs, scheme)
      /\ HygieneFor(ev, rest, scheme) = HygieneFor(ev, gs, scheme)
  BY SameCategories
<1>4. /\ \A j, k \in 1 .. m : gs[j] = gs[k] => gs[j] = "timing-sample" \/ j = k
      /\ \A j \in 1 .. n, k \in 1 .. m : ev[j].kind = gs[k] => gs[k] = "timing-sample"
      /\ scheme = "http" => \A k \in 1 .. m : gs[k] = "timing-sample"
      /\ DOMAIN ev = 1 .. n /\ DOMAIN gs = 1 .. m
  BY DEF GoodMeasures
<1> HIDE DEF rest, n, m
<1>5. CASE gs[i] = "timing-sample"
  <2>1. KindAt(ev, "timing-sample") = {}
    <3> SUFFICES ASSUME KindAt(ev, "timing-sample") # {} PROVE FALSE
      OBVIOUS
    <3>1. PerfOf(ev, rest).reason = GapsOf(rest, "timing-sample") /\ PerfOf(ev, gs).reason = GapsOf(gs, "timing-sample")
      BY PerfIs
    <3> QED
      BY <1>2, <1>3, <1>5, <3>1
  <2>2. /\ PerfOf(ev, rest).reason = gapReason(rest, "timing-sample")
        /\ PerfOf(ev, gs).reason = gapReason(gs, "timing-sample") /\ PerfOf(ev, gs).degraded = TRUE
    BY <2>1, PerfIs
  <2>3. gapReason(rest, "timing-sample") = gapReason(gs, "timing-sample")
    BY <1>3, <2>2
  <2>4. GapsOf(rest, "timing-sample") > 0
    BY <1>2, <1>5, <2>3 DEF gapReason
  <2> QED
    BY <1>2, <1>5, <2>2, <2>4
<1>6. ASSUME gs[i] # "timing-sample"
      PROVE  /\ gapReason(rest, gs[i]) = 0 /\ gapReason(gs, gs[i]) = 1
             /\ KindAt(ev, gs[i]) = {} /\ scheme = "https"
  <2>1. {k \in DOMAIN gs : gs[k] = gs[i]} = {i}
    BY <1>1, <1>4, <1>6
  <2>2. GapsOf(gs, gs[i]) = 1
    BY <2>1, FS_Singleton DEF GapsOf
  <2>3. KindAt(ev, gs[i]) = {}
    BY <1>1, <1>4, <1>6 DEF KindAt
  <2>4. scheme # "http"
    BY <1>1, <1>4, <1>6
  <2> QED
    BY <1>2, <2>2, <2>3, <2>4 DEF gapReason
<1>7. CASE gs[i] = "tls"
  <2>1. KindAt(ev, "tls") = {} /\ scheme # "http" /\ gapReason(rest, "tls") = 0 /\ gapReason(gs, "tls") = 1
    BY <1>6, <1>7
  <2>2. TlsOf(ev, rest, scheme).reason = gapReason(rest, "tls") /\ TlsOf(ev, gs, scheme).reason = gapReason(gs, "tls")
    BY <2>1, TlsIs
  <2> QED
    BY <1>3, <2>1, <2>2
<1>8. CASE gs[i] = "http-redirect"
  <2>1. /\ KindAt(ev, "http-redirect") = {} /\ scheme = "https"
        /\ gapReason(rest, "http-redirect") = 0 /\ gapReason(gs, "http-redirect") = 1
    BY <1>6, <1>8
  <2>2. ~Redirected(ev)
    BY <2>1 DEF Redirected
  <2> DEFINE g == IF GoodAt(ev) = {} THEN 1 ELSE 0
  <2>3. LackOf(ev, rest, scheme) = g + 2 + 0 /\ LackOf(ev, gs, scheme) = g + 2 + 1
    BY <2>1, <2>2, LackBounds
  <2>4. LackOf(ev, rest, scheme) = LackOf(ev, gs, scheme)
    BY <1>3, LackIs
  <2>5. g \in Int
    OBVIOUS
  <2> HIDE DEF g
  <2> QED
    BY <2>3, <2>4, <2>5
<1> QED
  BY <1>1, <1>5, <1>7, <1>8 DEF Measures

(* A report from which something was taken out is refused. *)
LEMMA LossHolds ==
  ASSUME SiteInv
  PROVE  LossIsRefused
<1> SUFFICES ASSUME NEW n \in DOMAIN audits
             PROVE  /\ \A i \in DOMAIN audits[n].evidence :
                          ~verifyAudit([audits[n] EXCEPT !.evidence = RemoveAt(@, i)])
                    /\ \A i \in DOMAIN audits[n].gaps :
                          \/ ~verifyAudit([audits[n] EXCEPT !.gaps = RemoveAt(@, i)])
                          \/ /\ audits[n].gaps[i] = "timing-sample" /\ audits[n].categories["performance"].degraded
                             /\ GapsOf(audits[n].gaps, "timing-sample") > 1
  BY Zenon DEF LossIsRefused
<1> DEFINE r == audits[n]
           ev == r.evidence
           gs == r.gaps
<1>1. ReportOK(r, site.scheme) /\ site.scheme \in {"https", "http"}
  BY DEF SiteInv
<1>2. GoodMeasures(ev, gs, site.scheme)
  BY <1>1 DEF ReportOK
<1>3. DOMAIN ev = 1 .. Len(ev) /\ DOMAIN gs = 1 .. Len(gs)
  BY <1>2 DEF GoodMeasures
<1>4. r.categories["performance"] = PerfOf(ev, gs)
  BY <1>1, ReportIsDerived, CategoriesAre
<1> HIDE DEF r
<1>5. ASSUME NEW i \in DOMAIN ev PROVE ~verifyAudit([r EXCEPT !.evidence = RemoveAt(@, i)])
  <2> SUFFICES ASSUME verifyAudit([r EXCEPT !.evidence = RemoveAt(@, i)]) PROVE FALSE
    OBVIOUS
  <2> DEFINE x == RemoveAt(ev, i)
  <2>1. verifyAudit([r EXCEPT !.evidence = x])
    OBVIOUS
  <2>2. CatsOf(x, gs, site.scheme) # CatsOf(ev, gs, site.scheme)
    BY <1>1, <1>2, <1>3, MeasurementMissed
  <2> HIDE DEF x
  <2> QED
    BY <1>1, <2>1, <2>2, RefusedIsDifferent
<1>6. ASSUME NEW i \in DOMAIN gs, verifyAudit([r EXCEPT !.gaps = RemoveAt(@, i)])
      PROVE  gs[i] = "timing-sample" /\ r.categories["performance"].degraded /\ GapsOf(gs, "timing-sample") > 1
  <2> DEFINE x == RemoveAt(gs, i)
  <2>1. verifyAudit([r EXCEPT !.gaps = x])
    BY <1>6
  <2> HIDE DEF x
  <2>2. CatsOf(ev, x, site.scheme) = CatsOf(ev, gs, site.scheme)
    BY <1>1, <2>1, RefusedIsDifferent
  <2>3. gs[i] = "timing-sample" /\ PerfOf(ev, gs).degraded = TRUE /\ GapsOf(gs, "timing-sample") > 1
    <3>1. i \in 1 .. Len(gs)
      BY <1>3, <1>6
    <3> HIDE DEF ev, gs
    <3> QED
      BY <1>1, <1>2, <2>2, <3>1, GapMissed DEF x
  <2> QED
    BY <1>4, <2>3
<1> QED
  BY <1>5, <1>6 DEF r

(* The probe stays within its redirects and on public hosts. *)
LEMMA ProbeHolds ==
  ASSUME SiteInv
  PROVE  ProbeStaysOut
<1>1. visited \in Seq({"public"}) /\ Len(visited) = site.hops /\ site.hops \in 0 .. MAX_REDIRECTS /\ MAX_REDIRECTS \in Nat
  BY SiteAssumption DEF SiteInv
<1> QED
  BY <1>1 DEF ProbeStaysOut

LEMMA SiteAuditsHold ==
  MCSpec => [](PaidMeansImproved /\ OverallIsOfTheMeasured /\ SlowerNeverScoresHigher /\ LossIsRefused /\ ProbeStaysOut)
<1>1. SiteInv => PaidMeansImproved /\ OverallIsOfTheMeasured /\ SlowerNeverScoresHigher /\ LossIsRefused /\ ProbeStaysOut
  BY PaidHolds, MeanOfTheMeasured, SlowerHolds, LossHolds, ProbeHolds
<1> QED
  BY <1>1, SiteInvHolds, PTL

(* The two desks that score: a screening report verifies as it was         *)
(* written, unless a score was rounded on the way, any one edit of it is   *)
(* caught, and a politically exposed person is never a block by itself; a  *)
(* site audit pays for what got better, its overall is a mean of what was  *)
(* measured, slower samples never earn more, and nothing can be taken out  *)
(* of a report unnoticed.                                                  *)
THEOREM ScoresHold == MCSpec => []ScoresAreSound
<1>1. /\ VerifiesUnlessRounded /\ TruncationKeepsVerdict /\ SingleEditIsCaught /\ PepNeverBlocksAlone /\ JaroWinklerIsAScore
      /\ PaidMeansImproved /\ OverallIsOfTheMeasured /\ SlowerNeverScoresHigher /\ LossIsRefused /\ ProbeStaysOut
      => ScoresAreSound
  BY DEF ScoresAreSound
<1> QED
  BY <1>1, ScreeningHolds, SiteAuditsHold, PTL
=============================================================================
