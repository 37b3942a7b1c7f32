------------------------------- MODULE Semver -------------------------------
(***************************************************************************)
(* Versions and ranges of roster/dep-upgrade/semver.ts.  A version is      *)
(* [n |-> <<major, minor, patch>>, pre |-> prerelease identifiers]; an     *)
(* identifier is <<0, k>> when numeric and <<1, k>> when alphanumeric, k   *)
(* its place in the order.  A range is a sequence of alternatives, each a  *)
(* sequence of tokens [op, p], where p is a version whose components may   *)
(* be X (left out, or written as a wildcard).                             *)
(***************************************************************************)
EXTENDS Integers, Sequences, FiniteSets

X == -1
Unparseable == [n |-> <<>>, pre |-> <<>>]    \* parseSemver returned null
Release(ma, mi, pa) == [n |-> <<ma, mi, pa>>, pre |-> <<>>]
Versions == [n : Nat \X Nat \X Nat, pre : Seq({0, 1} \X Nat)]

\* The first place where two sequences differ, and the order it gives: a
\* proper prefix is the smaller one.
LexLess(a, b, Less(_, _)) ==
    \E i \in 1 .. Len(b) : /\ \A j \in 1 .. i - 1 : j <= Len(a) /\ a[j] = b[j]
                           /\ IF i > Len(a) THEN TRUE ELSE Less(a[i], b[i])

IdLess(x, y) == x[1] < y[1] \/ (x[1] = y[1] /\ x[2] < y[2])

\* A release is above all its prereleases.
comparePrerelease(a, b) == a # <<>> /\ (b = <<>> \/ LexLess(a, b, IdLess))

\* compareSemver(a, b) < 0.
Below(a, b) == \/ LexLess(a.n, b.n, LAMBDA x, y : x < y)
               \/ a.n = b.n /\ comparePrerelease(a.pre, b.pre)

compareSemver(a, b) == IF Below(a, b) THEN -1 ELSE IF Below(b, a) THEN 1 ELSE 0

isStable(v) == v # Unparseable /\ v.pre = <<>>
majorOf(v)  == v.n[1]

padded(p) == [p EXCEPT !.n = [i \in 1 .. 3 |-> IF @[i] = X THEN 0 ELSE @[i]]]

Interval(p, upper) == <<[op |-> ">=", v |-> padded(p)], [op |-> "<", v |-> upper]>>

caretComparators(p) ==
    Interval(p, CASE p.n[2] = X \/ p.n[1] > 0 -> Release(p.n[1] + 1, 0, 0)
                  [] p.n[1] = 0 /\ p.n[2] # X /\ (p.n[2] > 0 \/ p.n[3] = X) -> Release(0, p.n[2] + 1, 0)
                  [] OTHER -> Release(0, p.n[2], p.n[3] + 1))

tildeComparators(p) ==
    Interval(p, IF p.n[2] = X THEN Release(p.n[1] + 1, 0, 0) ELSE Release(p.n[1], p.n[2] + 1, 0))

xRangeComparators(p) == tildeComparators(p)

parseComparatorToken(t) ==
    CASE t.op = "*" -> <<>>
      [] t.op = "^" -> caretComparators(t.p)
      [] t.op = "~" -> tildeComparators(t.p)
      [] t.op = "" /\ t.p.n[2] # X /\ t.p.n[3] # X -> <<[op |-> "=", v |-> padded(t.p)]>>
      [] t.op = "" /\ (t.p.n[2] = X \/ t.p.n[3] = X) -> xRangeComparators(t.p)
      [] OTHER -> <<[op |-> t.op, v |-> padded(t.p)]>>

testComparator(v, c) == compareSemver(v, c.v) \in CASE c.op = ">=" -> {0, 1}
                                                    [] c.op = ">"  -> {1}
                                                    [] c.op = "<=" -> {-1, 0}
                                                    [] c.op = "<"  -> {-1}
                                                    [] c.op = "="  -> {0}

Elements(s) == {s[i] : i \in DOMAIN s}

\* An unparseable range throws wherever it is looked at; the callers guard
\* with Readable.
Readable(range) == \A g \in Elements(range) : \A t \in Elements(g) : t.op # "?"

satisfies(v, range) ==
    /\ v # Unparseable
    /\ \E g \in Elements(range) : \A t \in Elements(g) : \A c \in Elements(parseComparatorToken(t)) : testComparator(v, c)

Admitted(versions, range) == {v \in versions : satisfies(v, range)}

NoVersion == Unparseable
minSatisfying(versions, range) ==
    IF Admitted(versions, range) = {} THEN NoVersion
    ELSE CHOOSE v \in Admitted(versions, range) : \A w \in Admitted(versions, range) : ~Below(w, v)
maxSatisfying(versions, range) ==
    IF Admitted(versions, range) = {} THEN NoVersion
    ELSE CHOOSE v \in Admitted(versions, range) : \A w \in Admitted(versions, range) : ~Below(v, w)

-----------------------------------------------------------------------------
(* What the range operators are meant to admit, stated on the components.   *)

\* ^p keeps the leftmost component of p that is not zero (all that p names
\* when there is none) and lets what is right of it grow.
CaretKept(p) == LET named == {i \in 1 .. 3 : p.n[i] # X}
               nonzero == {i \in named : p.n[i] > 0}
           IN  IF nonzero # {} THEN CHOOSE i \in nonzero : \A j \in nonzero : i <= j ELSE Cardinality(named)
CaretAdmits(v, p) == /\ ~Below(v, padded(p))
                     /\ \A i \in 1 .. CaretKept(p) : v.n[i] = p.n[i]
\* ~p keeps major and minor when p names a minor, else the major.
TildeAdmits(v, p) == /\ ~Below(v, padded(p)) /\ v.n[1] = p.n[1]
                     /\ p.n[2] # X => v.n[2] = p.n[2]
=============================================================================
