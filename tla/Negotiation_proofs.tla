------------------------- MODULE Negotiation_proofs -------------------------
(* Proofs about the ways a deal is bargained: two ends over a relay that may *)
(* lose, repeat and reorder (session.ts), the engine that asks both policies *)
(* in one process (negotiate.ts), and who buys through it or beside it, the  *)
(* general contractor, the butler and the publisher's advertisers.           *)
(*                                                                           *)
(* SessInv is the session's invariant. Each end's transcript is in order:    *)
(* sides alternate, only a proposal is answered, each turn is within its     *)
(* speaker's guard. Where both ends have a turn it is the same turn, since   *)
(* an end hears only the turn it expects next and an envelope carries a turn *)
(* of its sender's transcript. What complicates it is a send that throws     *)
(* after the relay has taken the envelope: the peer may then hear a turn its *)
(* speaker does not know it said, and answer it, so an ended sender may lag  *)
(* behind by two turns (Lag, EnvOK).                                         *)
(*                                                                           *)
(* BargainInv is the engine's: the turns alternate and pass their speakers'  *)
(* guards, and where two scripted sides have room they are on the course that*)
(* ends in a deal (OnCourse). SmoothInv says the same two transcripts over   *)
(* the relay as the engine's rule would give (Played). GcInv and ButlerInv   *)
(* tie a buyer's phase to the deal the engine works on and to what its       *)
(* earlier ones came to; AdInv ties what is quoted and activated to what is  *)
(* reserved. SideBySide is their conjunction, the invariant of MCSpec.       *)
EXTENDS MCNegotiation, FiniteSetTheorems, WellFoundedInduction, TLAPS

Kinds == {"offer", "counter", "accept", "reject"}

\* A sequence, of whatever.
IsSeq(x) == x \in Seq({x[i] : i \in DOMAIN x})

LEMMA AppendIsSeq ==
  ASSUME NEW x, NEW e, IsSeq(x)
  PROVE  /\ IsSeq(Append(x, e))
         /\ Len(x) \in Nat
         /\ Len(Append(x, e)) = Len(x) + 1
         /\ \A i \in 1 .. Len(x) : Append(x, e)[i] = x[i]
         /\ Append(x, e)[Len(x) + 1] = e
<1> DEFINE S == {x[i] : i \in DOMAIN x} \cup {e}
           y == Append(x, e)
<1>1. x \in Seq(S)
  BY DEF IsSeq
<1>2. /\ y \in Seq(S) /\ Len(x) \in Nat /\ Len(y) = Len(x) + 1
      /\ (\A i \in 1 .. Len(x) : y[i] = x[i]) /\ y[Len(x) + 1] = e
  BY <1>1
<1>3. y \in Seq({y[i] : i \in DOMAIN y})
  BY <1>2
<1> QED
  BY <1>2, <1>3 DEF IsSeq

LEMMA EmptyIsSeq == IsSeq(<<>>)
BY DEF IsSeq

LEMMA SeqExtensional ==
  ASSUME NEW x, NEW y, IsSeq(x), IsSeq(y), Len(x) = Len(y), \A i \in 1 .. Len(x) : x[i] = y[i]
  PROVE  x = y
<1> DEFINE S == {x[i] : i \in DOMAIN x}
           T == {y[i] : i \in DOMAIN y}
<1>1. x \in Seq(S) /\ y \in Seq(T)
  BY DEF IsSeq
<1> HIDE DEF S, T
<1>2. x = [i \in 1 .. Len(x) |-> x[i]] /\ y = [i \in 1 .. Len(y) |-> y[i]]
  BY <1>1
<1> QED
  BY <1>2

LEMMA PolicyKinds ==
  ASSUME NEW side, NEW log, NEW d, NEW move \in PolicyMoves(side, log, d)
  PROVE  move.kind \in Kinds
<1>1. deterministicSeller(log, d).kind \in Kinds
  BY DEF deterministicSeller, Says, Reject, Kinds
<1>2. deterministicBuyer(log, d).kind \in Kinds
  BY DEF deterministicBuyer, Says, Reject, Kinds
<1>3. gcBundleSeller(log, d).kind \in Kinds
  BY DEF gcBundleSeller, Says, Reject, Kinds
<1>4. Scripted(side, log, d).kind \in Kinds
  BY <1>1, <1>2, <1>3 DEF Scripted
<1>5. \A m \in ParsedMoves(d) : m.kind \in Kinds
  BY DEF ParsedMoves, Says, Reject, Kinds
<1> QED
  BY <1>4, <1>5 DEF PolicyMoves, llmMoves

-----------------------------------------------------------------------------
(* Transcripts in order.                                                   *)

\* Whose turn it is after n of them: the seller opens.
SpeakerAt(n) == IF n % 2 = 0 THEN "seller" ELSE "buyer"

\* What may be the turn after the first n of a log.
TurnOK(log, n, turn, d) ==
  /\ turn.side = SpeakerAt(n)
  /\ turn.kind \in Kinds
  /\ n < d.maxTurns
  /\ n > 0 => Proposal(log[n])
  /\ Proposal(turn) => MaySettle(turn.side, turn.terms, d)
  /\ turn.kind = "accept" => n > 0 /\ log[n].terms # NoTerms /\ MaySettle(turn.side, log[n].terms, d)

LogOK(log, d) == \A n \in 1 .. Len(log) : TurnOK(log, n - 1, log[n], d)

LEMMA Alternate ==
  ASSUME NEW n \in Nat
  PROVE  /\ SpeakerAt(n) \in Sides /\ SpeakerAt(n + 1) = Other(SpeakerAt(n))
         /\ \A s \in Sides : Other(s) \in Sides /\ Other(s) # s /\ Other(Other(s)) = s
BY DEF SpeakerAt, Sides, Other

\* The terms on the table are those of the last turn, when it is a proposal.
LEMMA OnTable ==
  ASSUME NEW log, IsSeq(log), NEW n \in 1 .. Len(log), Proposal(log[n]),
         \A i \in 1 .. Len(log) : i > n => ~ Proposal(log[i])
  PROVE  onTableFrom(log, log[n].side) = log[n].terms
<1> DEFINE spoken == {i \in 1 .. Len(log) : log[i].side = log[n].side /\ Proposal(log[i])}
<1>0. Len(log) \in Nat
  BY EmptyIsSeq, AppendIsSeq
<1>1. n \in spoken /\ \A j \in spoken : j <= n
  BY <1>0
<1>2. (CHOOSE i \in spoken : \A j \in spoken : j <= i) = n
  <2>1. \A i \in spoken : (\A j \in spoken : j <= i) => i = n
    BY <1>0, <1>1
  <2> QED
    BY <1>1, <2>1
<1> QED
  BY <1>1, <1>2 DEF onTableFrom, Spoken, Latest

LEMMA TableEmpty ==
  ASSUME NEW side
  PROVE  onTableFrom(<<>>, side) = NoTerms
BY DEF onTableFrom, Spoken

\* A turn that may follow a log: the log is in order with it, and an accept
\* binds to the turn before it.
LEMMA Extend ==
  ASSUME NEW log, NEW d, NEW turn, IsSeq(log), LogOK(log, d), TurnOK(log, Len(log), turn, d)
  PROVE  LET now == Append(log, turn)  n == Len(log) IN
         /\ LogOK(now, d)
         /\ turn.kind = "accept" =>
              /\ onTableFrom(now, Other(turn.side)) = log[n].terms
              /\ \A s \in Sides : MaySettle(s, log[n].terms, d)
<1> DEFINE now == Append(log, turn)
           n == Len(log)
<1>1. /\ n \in Nat /\ IsSeq(now) /\ Len(now) = n + 1 /\ now[n + 1] = turn
      /\ \A i \in 1 .. n : now[i] = log[i]
  BY AppendIsSeq
<1>2. LogOK(now, d)
  <2> SUFFICES ASSUME NEW i \in 1 .. n + 1 PROVE TurnOK(now, i - 1, now[i], d)
    BY <1>1 DEF LogOK
  <2>1. CASE i = n + 1
    <3>1. n > 0 => now[n] = log[n]
      BY <1>1
    <3> QED
      BY <1>1, <2>1, <3>1 DEF TurnOK
  <2>2. CASE i # n + 1
    <3>1. i \in 1 .. n /\ now[i] = log[i] /\ (i - 1 > 0 => now[i - 1] = log[i - 1])
      BY <1>1, <2>2
    <3>2. TurnOK(log, i - 1, log[i], d)
      BY <3>1 DEF LogOK
    <3> QED
      BY <3>1, <3>2 DEF TurnOK
  <2> QED
    BY <2>1, <2>2
<1>3. ASSUME turn.kind = "accept"
      PROVE  /\ onTableFrom(now, Other(turn.side)) = log[n].terms
             /\ \A s \in Sides : MaySettle(s, log[n].terms, d)
  <2>1. n > 0 /\ Proposal(log[n]) /\ MaySettle(turn.side, log[n].terms, d) /\ turn.side = SpeakerAt(n)
    BY <1>3 DEF TurnOK
  <2>2. TurnOK(log, n - 1, log[n], d)
    BY <1>1, <2>1 DEF LogOK
  <2>3. log[n].side = SpeakerAt(n - 1) /\ MaySettle(log[n].side, log[n].terms, d)
    BY <2>1, <2>2 DEF TurnOK
  <2>4. log[n].side = Other(turn.side) /\ {turn.side, log[n].side} = Sides
    BY <1>1, <2>1, <2>3 DEF SpeakerAt, Sides, Other
  <2>5. ~ Proposal(now[n + 1])
    BY <1>1, <1>3 DEF Proposal
  <2>6. onTableFrom(now, now[n].side) = now[n].terms
    <3>1. n \in 1 .. Len(now) /\ now[n] = log[n] /\ Proposal(now[n])
      BY <1>1, <2>1
    <3>2. \A i \in 1 .. Len(now) : i > n => ~ Proposal(now[i])
      BY <1>1, <2>5
    <3> HIDE DEF now, n
    <3> QED
      BY <1>1, <1>2, <3>1, <3>2, OnTable
  <2> QED
    BY <1>1, <2>1, <2>3, <2>4, <2>6
<1> QED
  BY <1>2, <1>3

\* What an end makes of the turn.
LEMMA Outcomes ==
  ASSUME NEW log, NEW turn, NEW side \in Sides,
         IsSeq(log), LogOK(log, talk), TurnOK(log, Len(log), turn, talk)
  PROVE  LET now == Append(log, turn)  n == Len(log) IN
         \/ AfterTurn(side, now) = Pending /\ Proposal(turn) /\ ~(n + 1 >= talk.maxTurns)
         \/ AfterTurn(side, now) = Gone /\ turn.kind # "accept"
         \/ /\ AfterTurn(side, now) = Settled(log[n].terms)
            /\ turn.kind = "accept" /\ n > 0 /\ log[n].terms # NoTerms
            /\ \A s \in Sides : MaySettle(s, log[n].terms, talk)
<1> DEFINE now == Append(log, turn)
           n == Len(log)
<1>1. Len(now) = n + 1 /\ now[Len(now)] = turn
  BY AppendIsSeq
<1>2. turn.kind \in Kinds
  BY DEF TurnOK
<1>3. CASE turn.kind = "reject"
  BY <1>1, <1>3 DEF AfterTurn
<1>4. CASE turn.kind = "accept"
  <2>1. n > 0 /\ log[n].terms # NoTerms
    BY <1>4 DEF TurnOK
  <2>2. onTableFrom(now, Other(turn.side)) = log[n].terms /\ \A s \in Sides : MaySettle(s, log[n].terms, talk)
    BY <1>4, Extend
  <2>3. AfterTurn(side, now) = settleFromAccept(side, now, turn.side)
    BY <1>1, <1>4 DEF AfterTurn
  <2> QED
    BY <1>4, <2>1, <2>2, <2>3 DEF settleFromAccept
<1>5. CASE turn.kind \in {"offer", "counter"}
  BY <1>1, <1>5 DEF AfterTurn, Proposal
<1> QED
  BY <1>2, <1>3, <1>4, <1>5 DEF Kinds

-----------------------------------------------------------------------------
(* The session's inductive invariant.                                      *)

Fcn(f) == f = [s \in Sides |-> f[s]]

Shape ==
  /\ talk \in Talks
  /\ Fcn(heard) /\ Fcn(ended) /\ Fcn(inbox) /\ Fcn(flight)
  /\ \A s \in Sides : IsSeq(heard[s]) /\ IsSeq(inbox[s])

\* Each transcript is in order, and where both have a turn it is the same.
Logs == \A s \in Sides : LogOK(heard[s], talk)
Common == \A s \in Sides : \A i \in 1 .. Len(heard[s]) :
            i <= Len(heard[Other(s)]) => heard[s][i] = heard[Other(s)][i]

\* An end falls behind only while it waits, or because its send threw.
Lag(s) ==
  LET o == Other(s) IN
  Len(heard[s]) > Len(heard[o]) =>
    \/ SpeakerAt(Len(heard[o])) = s /\ Len(heard[s]) = Len(heard[o]) + 1
    \/ ended[o] = Thrown /\ SpeakerAt(Len(heard[o])) = o /\ Len(heard[s]) <= Len(heard[o]) + 2

Going(s) ==
  ended[s] = Pending => /\ Len(heard[s]) < talk.maxTurns
                        /\ Len(heard[s]) > 0 => Proposal(heard[s][Len(heard[s])])

\* What an end agreed on is what the accept bound to.
Bargained(s) ==
  LET n == Len(heard[s]) IN
  ended[s].result = "agreed" =>
    /\ n > 1 /\ heard[s][n].kind = "accept"
    /\ ended[s] = Settled(heard[s][n - 1].terms)
    /\ \A g \in Sides : MaySettle(g, heard[s][n - 1].terms, talk)

\* An end that has sent an accept agreed.
Accepted(s) ==
  LET n == Len(heard[s]) IN
  n > 0 /\ heard[s][n].kind = "accept" /\ heard[s][n].side = s => ended[s].result = "agreed"

\* An envelope carries a turn of its sender's transcript, or the one the
\* sender's last send threw on.
TurnOf(env) == [side |-> env.sender, kind |-> env.kind, terms |-> env.terms]
EnvOK(s, env) ==
  LET log == heard[Other(s)] IN
  /\ env.sender = Other(s)
  /\ env.seq \in Nat \ {0}
  /\ \/ env.seq <= Len(log) /\ log[env.seq] = TurnOf(env)
     \/ ended[Other(s)] = Thrown /\ env.seq = Len(log) + 1 /\ TurnOK(log, Len(log), TurnOf(env), talk)
Mail(s) == flight[s] \cup {inbox[s][i] : i \in 1 .. Len(inbox[s])}
Envelopes == \A s \in Sides : \A env \in Mail(s) : EnvOK(s, env)

SessInv ==
  /\ Shape /\ Logs /\ Common /\ Envelopes
  /\ \A s \in Sides : Lag(s) /\ Going(s) /\ Bargained(s) /\ Accepted(s)

LEMMA Counting == ASSUME NEW x, IsSeq(x) PROVE Len(x) \in Nat
BY DEF IsSeq

\* How long the other transcript is when an end hears a turn, its own or its
\* peer's.
Position(s, turn) ==
  LET o == Other(s)  n == Len(heard[s])  m == Len(heard[o]) IN
  \/ m = n /\ SpeakerAt(n) = s
  \/ m < n /\ SpeakerAt(n) = s
  \/ m >= n + 1 /\ heard[o][n + 1] = turn /\ SpeakerAt(n) = o
  \/ m = n /\ ended[o] = Thrown /\ SpeakerAt(n) = o

Hears(s, turn) ==
  LET log == Append(heard[s], turn) IN
  /\ ended[s] = Pending
  /\ TurnOK(heard[s], Len(heard[s]), turn, talk)
  /\ Position(s, turn)
  /\ heard' = [heard EXCEPT ![s] = log]
  /\ ended' = [ended EXCEPT ![s] = AfterTurn(s, log)]
  /\ talk' = talk

LEMMA HearsKeeps ==
  ASSUME SessInv, NEW side \in Sides, NEW turn, Hears(side, turn)
  PROVE  /\ talk' \in Talks /\ Fcn(heard') /\ Fcn(ended') /\ \A s \in Sides : IsSeq(heard'[s])
         /\ Logs' /\ Common'
         /\ \A s \in Sides : Lag(s)' /\ Going(s)' /\ Bargained(s)' /\ Accepted(s)'
<1> DEFINE o == Other(side)
           old == heard[side]
           n == Len(old)
           m == Len(heard[o])
           log == Append(old, turn)
<1>1. /\ o \in Sides /\ o # side /\ Other(o) = side /\ Sides = {side, o}
  BY DEF Other, Sides
<1>2. /\ Fcn(heard') /\ heard'[side] = log /\ heard'[o] = heard[o]
      /\ Fcn(ended') /\ ended'[side] = AfterTurn(side, log) /\ ended'[o] = ended[o]
  <2>1. Fcn(heard) /\ Fcn(ended)
    BY DEF SessInv, Shape
  <2>2. heard' = [heard EXCEPT ![side] = log] /\ ended' = [ended EXCEPT ![side] = AfterTurn(side, log)]
    BY DEF Hears
  <2> DEFINE v == AfterTurn(side, log)
  <2>3. heard' = [heard EXCEPT ![side] = log] /\ ended' = [ended EXCEPT ![side] = v]
    BY <2>2
  <2> HIDE DEF log, v
  <2>4. Fcn(heard') /\ heard'[side] = log /\ heard'[o] = heard[o]
    BY <1>1, <2>1, <2>3 DEF Fcn
  <2>5. Fcn(ended') /\ ended'[side] = v /\ ended'[o] = ended[o]
    BY <1>1, <2>1, <2>3 DEF Fcn
  <2> QED
    BY <2>4, <2>5 DEF v
<1>3. /\ IsSeq(old) /\ IsSeq(heard[o]) /\ n \in Nat /\ m \in Nat
      /\ IsSeq(log) /\ Len(log) = n + 1 /\ log[n + 1] = turn /\ \A i \in 1 .. n : log[i] = old[i]
  BY <1>1, Counting, AppendIsSeq DEF SessInv, Shape
<1>4. /\ LogOK(old, talk) /\ LogOK(heard[o], talk) /\ TurnOK(old, n, turn, talk) /\ talk' = talk
  BY <1>1 DEF SessInv, Logs, Hears
<1>5. talk' \in Talks /\ \A s \in Sides : IsSeq(heard'[s])
  BY <1>1, <1>2, <1>3, <1>4 DEF SessInv, Shape
<1>6. Logs'
  <2>1. LogOK(log, talk)
    BY <1>3, <1>4, Extend
  <2> QED
    BY <1>1, <1>2, <1>4, <2>1 DEF Logs
<1>7. Common'
  <2>1. m >= n + 1 => heard[o][n + 1] = turn
    BY <1>1, <1>3 DEF Hears, Position
  <2>2. \A i \in 1 .. n : i <= m => old[i] = heard[o][i]
    BY <1>1 DEF SessInv, Common
  <2>3. \A i \in 1 .. n + 1 : i <= m => log[i] = heard[o][i]
    BY <1>3, <2>1, <2>2
  <2> SUFFICES ASSUME NEW s \in Sides, NEW i \in 1 .. Len(heard'[s]), i <= Len(heard'[Other(s)])
               PROVE  heard'[s][i] = heard'[Other(s)][i]
    BY DEF Common
  <2>4. CASE s = side
    BY <1>2, <1>3, <2>3, <2>4
  <2>5. CASE s = o
    <3>1. /\ heard'[s] = heard[o] /\ heard'[Other(s)] = log
          /\ i \in 1 .. m /\ i <= n + 1
      BY <1>1, <1>2, <1>3, <2>5
    <3>2. i \in 1 .. n + 1 /\ i <= m
      BY <1>3, <3>1
    <3> QED
      BY <2>3, <3>1, <3>2
  <2> QED
    BY <1>1, <2>4, <2>5
<1>8. Lag(side)' /\ Lag(o)'
  <2>1. SpeakerAt(n + 1) = Other(SpeakerAt(n)) /\ SpeakerAt(m + 1) = Other(SpeakerAt(m))
    BY <1>3, Alternate
  <2>2. Lag(side) /\ Lag(o) /\ Position(side, turn) /\ ended[side] = Pending
    BY <1>1 DEF SessInv, Hears
  <2>3. Pending # Thrown
    BY DEF Pending, Thrown
  <2>a. SpeakerAt(m + 2) = SpeakerAt(m) /\ SpeakerAt(m) \in Sides
    <3> HIDE DEF m
    <3>1. m \in Nat
      BY <1>3
    <3>2. SpeakerAt(m + 1) = Other(SpeakerAt(m)) /\ SpeakerAt(m + 1 + 1) = Other(SpeakerAt(m + 1)) /\ m + 1 + 1 = m + 2
      BY <3>1, Alternate
    <3> QED
      BY <3>1, <3>2, Alternate
  <2>b. Len(heard'[side]) = n + 1 /\ heard'[o] = heard[o] /\ ended'[o] = ended[o]
    BY <1>2, <1>3
  <2>4. Lag(side)'
    <3> SUFFICES n + 1 > m => \/ SpeakerAt(m) = side /\ n + 1 = m + 1
                              \/ ended[o] = Thrown /\ SpeakerAt(m) = o /\ n + 1 <= m + 2
      BY <2>b DEF Lag
    <3>1. CASE m = n
      BY <1>3, <2>2, <3>1 DEF Position
    <3>2. CASE m < n /\ SpeakerAt(n) = side
      <4>1. \/ SpeakerAt(m) = side /\ n = m + 1
            \/ ended[o] = Thrown /\ SpeakerAt(m) = o /\ n <= m + 2
        BY <2>2, <3>2 DEF Lag
      <4> QED
        BY <1>1, <1>3, <2>1, <2>a, <3>2, <4>1
    <3>3. CASE m >= n + 1
      BY <1>3, <3>3
    <3> QED
      BY <1>3, <2>2, <3>1, <3>2, <3>3 DEF Position
  <2>5. Lag(o)'
    BY <1>1, <1>2, <1>3, <2>1, <2>2, <2>3 DEF Lag, Position
  <2> QED
    BY <2>4, <2>5
<1>9. Going(side)' /\ Bargained(side)' /\ Accepted(side)'
  <2>1. \/ AfterTurn(side, log) = Pending /\ Proposal(turn) /\ ~(n + 1 >= talk.maxTurns)
        \/ AfterTurn(side, log) = Gone /\ turn.kind # "accept"
        \/ /\ AfterTurn(side, log) = Settled(old[n].terms)
           /\ turn.kind = "accept" /\ n > 0 /\ old[n].terms # NoTerms
           /\ \A s \in Sides : MaySettle(s, old[n].terms, talk)
    BY <1>3, <1>4, Outcomes
  <2>2. talk.maxTurns \in Nat
    BY TalksAssumption DEF SessInv, Shape
  <2>3. CASE AfterTurn(side, log) = Pending /\ Proposal(turn) /\ ~(n + 1 >= talk.maxTurns)
    BY <1>2, <1>3, <1>4, <2>2, <2>3 DEF Going, Bargained, Accepted, Pending, Proposal
  <2>4. CASE AfterTurn(side, log) = Gone /\ turn.kind # "accept"
    BY <1>2, <1>3, <1>4, <2>4 DEF Going, Bargained, Accepted, Pending, Gone
  <2>5. CASE /\ AfterTurn(side, log) = Settled(old[n].terms)
             /\ turn.kind = "accept" /\ n > 0
             /\ \A s \in Sides : MaySettle(s, old[n].terms, talk)
    <3>1. heard'[side][n + 1] = turn /\ heard'[side][n] = old[n] /\ Len(heard'[side]) = n + 1
      BY <1>2, <1>3, <2>5
    <3>2. ended'[side].result = "agreed" /\ ended'[side] = Settled(old[n].terms) /\ ended'[side] # Pending
      BY <1>2, <2>5 DEF Settled, Pending
    <3> QED
      BY <1>3, <1>4, <2>5, <3>1, <3>2 DEF Going, Bargained, Accepted
  <2> QED
    BY <2>1, <2>3, <2>4, <2>5
<1>10. Going(o)' /\ Bargained(o)' /\ Accepted(o)'
  BY <1>1, <1>2, <1>4 DEF SessInv, Going, Bargained, Accepted
<1> QED
  BY <1>1, <1>2, <1>5, <1>6, <1>7, <1>8, <1>9, <1>10

\* An end stops without a deal: it leaves, or its send throws.
Stops(s) ==
  /\ ended[s] = Pending
  /\ ended' = [ended EXCEPT ![s] = Gone] \/ ended' = [ended EXCEPT ![s] = Thrown]
  /\ heard' = heard /\ talk' = talk

LEMMA StopsKeeps ==
  ASSUME SessInv, NEW side \in Sides, Stops(side)
  PROVE  /\ talk' \in Talks /\ Fcn(heard') /\ Fcn(ended') /\ \A s \in Sides : IsSeq(heard'[s])
         /\ Logs' /\ Common'
         /\ \A s \in Sides : Lag(s)' /\ Going(s)' /\ Bargained(s)' /\ Accepted(s)'
<1> DEFINE o == Other(side)
<1>1. /\ o \in Sides /\ o # side /\ Other(o) = side /\ Sides = {side, o}
  BY DEF Other, Sides
<1>2. heard' = heard /\ talk' = talk /\ ended[side] = Pending
  BY DEF Stops
<1>3. Fcn(ended') /\ ended'[o] = ended[o] /\ ended'[side] \in {Gone, Thrown}
  <2>1. Fcn(ended)
    BY DEF SessInv, Shape
  <2> QED
    BY <1>1, <2>1 DEF Stops, Fcn
<1>4. ended'[side] # Pending /\ ended'[side].result # "agreed" /\ Pending # Thrown /\ Pending.result # "agreed"
  BY <1>3 DEF Gone, Thrown, Pending
<1>5. talk' \in Talks /\ Fcn(heard') /\ (\A s \in Sides : IsSeq(heard'[s])) /\ Logs' /\ Common'
  BY <1>2 DEF SessInv, Shape, Logs, Common
<1>6. Lag(side)' /\ Lag(o)'
  BY <1>1, <1>2, <1>3, <1>4 DEF SessInv, Lag
<1>7. Going(side)' /\ Going(o)' /\ Bargained(side)' /\ Bargained(o)'
  BY <1>1, <1>2, <1>3, <1>4 DEF SessInv, Going, Bargained
<1>8. Accepted(side)' /\ Accepted(o)'
  BY <1>1, <1>2, <1>3, <1>4 DEF SessInv, Accepted
<1> QED
  BY <1>1, <1>3, <1>5, <1>6, <1>7, <1>8

\* An envelope that was good stays good: the transcript it was sent from only
\* grows, and a thrown end's not at all.
Grows(s) ==
  \/ heard'[s] = heard[s] /\ (ended'[s] = ended[s] \/ ended[s] = Pending)
  \/ ended[s] = Pending /\ \E turn : heard'[s] = Append(heard[s], turn)

LEMMA EnvelopeKept ==
  ASSUME SessInv, talk' = talk, NEW s \in Sides, Grows(Other(s)), NEW env, EnvOK(s, env)
  PROVE  EnvOK(s, env)'
<1> DEFINE o == Other(s)
<1>1. o \in Sides /\ IsSeq(heard[o]) /\ Len(heard[o]) \in Nat
  BY Counting DEF Other, Sides, SessInv, Shape
<1>2. CASE heard'[o] = heard[o] /\ ended'[o] = ended[o]
  BY <1>2 DEF EnvOK
<1>3. CASE heard'[o] = heard[o] /\ ended[o] = Pending
  BY <1>3 DEF EnvOK, Pending, Thrown
<1>4. CASE ended[o] = Pending /\ \E turn : heard'[o] = Append(heard[o], turn)
  <2>1. PICK turn : heard'[o] = Append(heard[o], turn)
    BY <1>4
  <2>2. Len(heard'[o]) = Len(heard[o]) + 1 /\ \A i \in 1 .. Len(heard[o]) : heard'[o][i] = heard[o][i]
    BY <1>1, <2>1, AppendIsSeq
  <2>3. env.seq \in 1 .. Len(heard[o]) /\ heard[o][env.seq] = TurnOf(env)
    BY <1>1, <1>4 DEF EnvOK, Pending, Thrown
  <2> QED
    BY <1>1, <2>2, <2>3 DEF EnvOK
<1> QED
  BY <1>2, <1>3, <1>4 DEF Grows

LEMMA EnvelopesKept ==
  ASSUME SessInv, talk' = talk, \A s \in Sides : Grows(s),
         \A s \in Sides : \A env \in Mail(s)' : env \in Mail(s) \/ EnvOK(s, env)'
  PROVE  Envelopes'
<1>1. ASSUME NEW s \in Sides, NEW env, EnvOK(s, env)
      PROVE  EnvOK(s, env)'
  <2>1. Grows(Other(s))
    BY DEF Other, Sides
  <2> QED
    BY <1>1, <2>1, EnvelopeKept
<1>2. ASSUME NEW s \in Sides, NEW env \in Mail(s)'
      PROVE  EnvOK(s, env)'
  <2>1. CASE env \in Mail(s)
    <3>1. EnvOK(s, env)
      BY <2>1 DEF SessInv, Envelopes
    <3> QED
      BY <1>1, <3>1
  <2>2. CASE EnvOK(s, env)'
    BY <2>2
  <2> QED
    BY <2>1, <2>2
<1> QED
  BY <1>2 DEF Envelopes

\* What an end sends may follow its transcript.
LEMMA SaidOK ==
  ASSUME SessInv, NEW side \in Sides, ended[side] = Pending, MyTurn(side),
         NEW move \in PolicyMoves(side, heard[side], talk)
  PROVE  LET said == Netted(side, move) IN
         /\ TurnOK(heard[side], Len(heard[side]), [side |-> side, kind |-> said.kind, terms |-> said.terms], talk)
         /\ SpeakerAt(Len(heard[side])) = side
<1> DEFINE log == heard[side]
           n == Len(log)
           said == Netted(side, move)
           turn == [side |-> side, kind |-> said.kind, terms |-> said.terms]
<1>1. IsSeq(log) /\ n \in Nat /\ LogOK(log, talk)
  BY Counting DEF SessInv, Shape, Logs
<1>2. SpeakerAt(n) = side
  <2>1. n % 2 = Parity(side)
    BY DEF MyTurn
  <2> HIDE DEF n
  <2>2. CASE side = "seller"
    BY <2>1, <2>2 DEF Parity, SpeakerAt
  <2>3. CASE side = "buyer"
    BY <1>1, <2>1, <2>3 DEF Parity, SpeakerAt
  <2> QED
    BY <2>2, <2>3 DEF Sides
<1>3. n < talk.maxTurns /\ (n > 0 => Proposal(log[n]))
  BY DEF SessInv, Going
<1>4. said = Reject \/ said = move
  BY DEF Netted
<1>5. said.kind \in Kinds
  BY <1>4, PolicyKinds DEF Reject, Says, Kinds
<1>6. said.kind \in {"offer", "counter"} => MaySettle(side, said.terms, talk)
  BY DEF Netted, Reject, Says
<1>7. ASSUME said.kind = "accept"
      PROVE  n > 0 /\ log[n].terms # NoTerms /\ MaySettle(side, log[n].terms, talk)
  <2> DEFINE table == onTableFrom(log, Other(side))
  <2>1. table # NoTerms /\ MaySettle(side, table, talk)
    BY <1>7 DEF Netted, Reject, Says
  <2>2. n > 0
    <3> SUFFICES ASSUME n = 0 PROVE FALSE
      BY <1>1
    <3>1. log = <<>>
      BY <1>1, EmptyIsSeq, SeqExtensional
    <3> QED
      BY <2>1, <3>1, TableEmpty
  <2>3. log[n].side = Other(side)
    <3>1. TurnOK(log, n - 1, log[n], talk)
      BY <1>1, <2>2 DEF LogOK
    <3>2. SpeakerAt(n - 1 + 1) = Other(SpeakerAt(n - 1)) /\ SpeakerAt(n - 1) \in Sides /\ n - 1 + 1 = n
      BY <1>1, <2>2, Alternate
    <3> QED
      BY <1>2, <3>1, <3>2 DEF TurnOK, Other, Sides
  <2>4. table = log[n].terms
    <3>1. n \in 1 .. Len(log) /\ \A i \in 1 .. Len(log) : i > n => ~ Proposal(log[i])
      BY <1>1, <2>2
    <3>2. onTableFrom(log, log[n].side) = log[n].terms
      BY <1>1, <1>3, <2>2, <3>1, OnTable
    <3> QED
      BY <2>3, <3>2
  <2> QED
    BY <2>1, <2>2, <2>4
<1>8. turn.side = side /\ turn.kind = said.kind /\ turn.terms = said.terms
  OBVIOUS
<1> HIDE DEF turn, said, n, log
<1>9. TurnOK(log, n, turn, talk)
  BY <1>2, <1>3, <1>5, <1>6, <1>7, <1>8 DEF TurnOK, Proposal
<1> QED
  BY <1>2, <1>9 DEF turn, said, n, log

\* The mailboxes after a step: still mailboxes, with nothing new in them that
\* is not good.
Post ==
  /\ Fcn(inbox') /\ Fcn(flight') /\ \A s \in Sides : IsSeq(inbox'[s])
  /\ \A s \in Sides : \A env \in Mail(s)' : env \in Mail(s) \/ EnvOK(s, env)'

LEMMA Peer ==
  ASSUME NEW side \in Sides
  PROVE  Other(side) \in Sides /\ Other(side) # side /\ Other(Other(side)) = side /\ Sides = {side, Other(side)}
BY DEF Other, Sides

LEMMA TailIsSeq ==
  ASSUME NEW x, IsSeq(x), x # <<>>
  PROVE  /\ IsSeq(Tail(x)) /\ Len(Tail(x)) = Len(x) - 1 /\ Len(x) \in Nat \ {0} /\ Head(x) = x[1]
         /\ \A i \in 1 .. Len(x) - 1 : Tail(x)[i] = x[i + 1]
<1> DEFINE S == {x[i] : i \in DOMAIN x}
<1>1. x \in Seq(S)
  BY DEF IsSeq
<1>2. Len(x) \in Nat /\ Len(x) # 0
  BY <1>1
<1>3. /\ Tail(x) \in Seq(S) /\ Len(Tail(x)) = Len(x) - 1 /\ Head(x) = x[1]
      /\ \A i \in 1 .. Len(x) - 1 : Tail(x)[i] = x[i + 1]
  BY <1>1, <1>2
<1> DEFINE y == Tail(x)
<1>a. y \in Seq(S)
  BY <1>3
<1> HIDE DEF y, S
<1>4. y \in Seq({y[i] : i \in DOMAIN y})
  BY <1>a
<1> QED
  BY <1>2, <1>3, <1>4 DEF IsSeq, y

LEMMA SendStep ==
  ASSUME SessInv, NEW side \in Sides, ended[side] = Pending, MyTurn(side),
         NEW move \in PolicyMoves(side, heard[side], talk), SendMove(side, move)
  PROVE  (\E turn : Hears(side, turn)) /\ Post
<1> DEFINE o == Other(side)
           n == Len(heard[side])
           said == Netted(side, move)
           turn == [side |-> side, kind |-> said.kind, terms |-> said.terms]
           log == Append(heard[side], turn)
<1>0. PICK env : env = sealEnvelope(side, Len(log), said)
  OBVIOUS
<1>1. /\ heard' = [heard EXCEPT ![side] = log] /\ ended' = [ended EXCEPT ![side] = AfterTurn(side, log)]
      /\ flight' = [flight EXCEPT ![o] = @ \cup {env}]
      /\ talk' = talk /\ inbox' = inbox
  BY <1>0 DEF SendMove, Speaks
<1>2. TurnOK(heard[side], n, turn, talk) /\ SpeakerAt(n) = side
  BY SaidOK
<1>3. n \in Nat /\ Len(heard[o]) \in Nat /\ IsSeq(heard[side])
  BY Peer, Counting DEF SessInv, Shape
<1>4. ~(Len(heard[o]) > n)
  <2>1. Lag(o) /\ Other(o) = side /\ o # side
    BY Peer DEF SessInv
  <2> QED
    BY <1>2, <2>1 DEF Lag, Pending, Thrown
<1>5. Position(side, turn)
  BY <1>2, <1>3, <1>4 DEF Position
<1>6. Hears(side, turn)
  BY <1>1, <1>2, <1>5 DEF Hears
<1>7. heard'[side] = log /\ Len(log) = n + 1 /\ log[n + 1] = turn
  <2>1. Fcn(heard)
    BY DEF SessInv, Shape
  <2>2. heard'[side] = log
    BY <1>1, <2>1 DEF Fcn
  <2> QED
    BY <1>3, <2>2, AppendIsSeq
<1>8. env.sender = side /\ env.seq = n + 1 /\ TurnOf(env) = turn
  BY <1>0, <1>7 DEF sealEnvelope, TurnOf
<1>9. EnvOK(o, env)'
  <2>1. Other(o) = side
    BY Peer
  <2>2. env.seq <= Len(heard'[side]) /\ heard'[side][env.seq] = TurnOf(env) /\ env.seq \in Nat \ {0}
    BY <1>3, <1>7, <1>8
  <2> QED
    BY <1>8, <2>1, <2>2 DEF EnvOK
<1>10. Post
  <2>1. Fcn(flight') /\ flight'[o] = flight[o] \cup {env} /\ flight'[side] = flight[side]
    <3>1. Fcn(flight)
      BY DEF SessInv, Shape
    <3> QED
      BY <1>1, <3>1, Peer DEF Fcn
  <2>2. Fcn(inbox') /\ \A s \in Sides : IsSeq(inbox'[s])
    BY <1>1 DEF SessInv, Shape
  <2>3. ASSUME NEW s \in Sides, NEW e \in Mail(s)'
        PROVE  e \in Mail(s) \/ EnvOK(s, e)'
    <3>1. e \in Mail(s) \/ (s = o /\ e = env)
      BY <1>1, <2>1, Peer DEF Mail
    <3> QED
      BY <1>9, <3>1
  <2> QED
    BY <2>1, <2>2, <2>3 DEF Post
<1> QED
  BY <1>6, <1>10

LEMMA ThrowStep ==
  ASSUME SessInv, NEW side \in Sides, ended[side] = Pending, MyTurn(side),
         NEW move \in PolicyMoves(side, heard[side], talk), SendThrows(side, move)
  PROVE  Stops(side) /\ Post
<1> DEFINE o == Other(side)
           n == Len(heard[side])
           said == Netted(side, move)
           turn == [side |-> side, kind |-> said.kind, terms |-> said.terms]
<1>0. PICK env : env = sealEnvelope(side, n + 1, said)
  OBVIOUS
<1>1. /\ ended' = [ended EXCEPT ![side] = Thrown] /\ heard' = heard /\ talk' = talk /\ inbox' = inbox
      /\ flight' = flight \/ flight' = [flight EXCEPT ![o] = @ \cup {env}]
  BY <1>0 DEF SendThrows
<1>2. Stops(side)
  BY <1>1 DEF Stops
<1>3. TurnOK(heard[side], n, turn, talk) /\ n \in Nat
  BY SaidOK, Counting DEF SessInv, Shape
<1>4. env.sender = side /\ env.seq = n + 1 /\ TurnOf(env) = turn
  BY <1>0 DEF sealEnvelope, TurnOf
<1>5. ended'[side] = Thrown
  <2>1. Fcn(ended)
    BY DEF SessInv, Shape
  <2> QED
    BY <1>1, <2>1 DEF Fcn
<1>6. EnvOK(o, env)'
  <2>1. Other(o) = side
    BY Peer
  <2>2. TurnOK(heard[side], n, TurnOf(env), talk)
    BY <1>3, <1>4
  <2> QED
    BY <1>1, <1>3, <1>4, <1>5, <2>1, <2>2 DEF EnvOK
<1>7. Post
  <2>1. /\ Fcn(flight') /\ flight'[side] = flight[side]
        /\ flight'[o] = flight[o] \/ flight'[o] = flight[o] \cup {env}
    <3>1. Fcn(flight)
      BY DEF SessInv, Shape
    <3> QED
      BY <1>1, <3>1, Peer DEF Fcn
  <2>2. Fcn(inbox') /\ \A s \in Sides : IsSeq(inbox'[s])
    BY <1>1 DEF SessInv, Shape
  <2>3. ASSUME NEW s \in Sides, NEW e \in Mail(s)'
        PROVE  e \in Mail(s) \/ EnvOK(s, e)'
    <3>1. e \in Mail(s) \/ (s = o /\ e = env)
      BY <1>1, <2>1, Peer DEF Mail
    <3> QED
      BY <1>6, <3>1
  <2> QED
    BY <2>1, <2>2, <2>3 DEF Post
<1> QED
  BY <1>2, <1>7

\* An envelope that opens carries a turn that may follow the receiver's
\* transcript.
LEMMA OpenedOK ==
  ASSUME SessInv, NEW side \in Sides, ended[side] = Pending, ~ MyTurn(side),
         NEW env, EnvOK(side, env), openEnvelope(side, env)
  PROVE  /\ TurnOK(heard[side], Len(heard[side]), TurnOf(env), talk)
         /\ Position(side, TurnOf(env))
<1> DEFINE o == Other(side)
           log == heard[side]
           n == Len(log)
           m == Len(heard[o])
<1>1. /\ o \in Sides /\ o # side /\ Other(o) = side /\ n \in Nat /\ m \in Nat /\ env.seq = n + 1
      /\ LogOK(log, talk) /\ LogOK(heard[o], talk)
  BY Peer, Counting DEF SessInv, Shape, Logs, openEnvelope
<1>2. \A i \in 1 .. n : i <= m => log[i] = heard[o][i]
  BY DEF SessInv, Common
<1>3. ASSUME m >= n, TurnOK(heard[o], n, TurnOf(env), talk)
      PROVE  TurnOK(log, n, TurnOf(env), talk)
  <2>1. n > 0 => log[n] = heard[o][n]
    BY <1>1, <1>2, <1>3
  <2> QED
    BY <1>3, <2>1 DEF TurnOK
<1>4. SpeakerAt(n) = o
  <2>1. n % 2 # Parity(side)
    BY DEF MyTurn
  <2> HIDE DEF n
  <2>2. n % 2 \in {0, 1}
    BY <1>1
  <2>3. CASE side = "seller"
    BY <1>1, <2>1, <2>2, <2>3 DEF Parity, SpeakerAt, Other
  <2>4. CASE side = "buyer"
    BY <1>1, <2>1, <2>2, <2>4 DEF Parity, SpeakerAt, Other
  <2> QED
    BY <2>3, <2>4 DEF Sides
<1>5. CASE env.seq <= m /\ heard[o][env.seq] = TurnOf(env)
  <2>1. n + 1 \in 1 .. m /\ heard[o][n + 1] = TurnOf(env)
    BY <1>1, <1>5
  <2>2. TurnOK(heard[o], n + 1 - 1, heard[o][n + 1], talk) /\ n + 1 - 1 = n
    BY <1>1, <2>1 DEF LogOK
  <2> QED
    BY <1>1, <1>3, <1>4, <2>1, <2>2 DEF Position
<1>6. CASE ended[o] = Thrown /\ env.seq = m + 1 /\ TurnOK(heard[o], m, TurnOf(env), talk)
  <2>1. m = n
    BY <1>1, <1>6
  <2> QED
    BY <1>1, <1>3, <1>4, <1>6, <2>1 DEF Position
<1> QED
  BY <1>5, <1>6 DEF EnvOK

LEMMA ReceiveStep ==
  ASSUME SessInv, NEW side \in Sides, ReceiveMove(side)
  PROVE  ((\E turn : Hears(side, turn)) \/ Stops(side)) /\ Post
<1> DEFINE queue == inbox[side]
           env == Head(queue)
<1>1. /\ ended[side] = Pending /\ ~ MyTurn(side) /\ queue # <<>>
      /\ inbox' = [inbox EXCEPT ![side] = Tail(queue)]
      /\ talk' = talk /\ flight' = flight
  BY DEF ReceiveMove
<1>2. /\ IsSeq(Tail(queue)) /\ Len(Tail(queue)) = Len(queue) - 1 /\ Len(queue) \in Nat \ {0} /\ env = queue[1]
      /\ \A i \in 1 .. Len(queue) - 1 : Tail(queue)[i] = queue[i + 1]
  <2>1. IsSeq(queue)
    BY DEF SessInv, Shape
  <2> QED
    BY <1>1, <2>1, TailIsSeq
<1>3. EnvOK(side, env)
  <2>1. 1 \in 1 .. Len(inbox[side]) /\ env = inbox[side][1]
    BY <1>2
  <2>2. env \in Mail(side)
    BY <2>1 DEF Mail
  <2> QED
    BY <2>2 DEF SessInv, Envelopes
<1>4. (\E turn : Hears(side, turn)) \/ Stops(side)
  <2>1. CASE openEnvelope(side, env)
    <3>1. TurnOK(heard[side], Len(heard[side]), TurnOf(env), talk) /\ Position(side, TurnOf(env))
      BY <1>1, <1>3, <2>1, OpenedOK
    <3>2. /\ heard' = [heard EXCEPT ![side] = Append(heard[side], TurnOf(env))]
          /\ ended' = [ended EXCEPT ![side] = AfterTurn(side, Append(heard[side], TurnOf(env)))]
      BY <2>1 DEF ReceiveMove, TurnOf
    <3>3. Hears(side, TurnOf(env))
      BY <1>1, <3>1, <3>2 DEF Hears
    <3> QED
      BY <3>3
  <2>2. CASE ~ openEnvelope(side, env)
    BY <1>1, <2>2 DEF ReceiveMove, Stops
  <2> QED
    BY <2>1, <2>2
<1>5. Post
  <2>1. Fcn(inbox') /\ inbox'[side] = Tail(queue) /\ inbox'[Other(side)] = inbox[Other(side)]
    <3>1. Fcn(inbox)
      BY DEF SessInv, Shape
    <3> QED
      BY <1>1, <3>1, Peer DEF Fcn
  <2>2. Fcn(flight') /\ \A s \in Sides : IsSeq(inbox'[s])
    BY <1>1, <1>2, <2>1, Peer DEF SessInv, Shape
  <2>3. ASSUME NEW s \in Sides, NEW e \in Mail(s)'
        PROVE  e \in Mail(s)
    <3>1. CASE s = Other(side)
      BY <1>1, <2>1, <3>1 DEF Mail
    <3>2. CASE s = side
      <4>1. CASE e \in flight'[side]
        BY <1>1, <3>2, <4>1 DEF Mail
      <4>2. CASE \E i \in 1 .. Len(Tail(queue)) : e = Tail(queue)[i]
        <5>1. PICK i \in 1 .. Len(queue) - 1 : e = Tail(queue)[i]
          BY <1>2, <4>2
        <5>2. i + 1 \in 1 .. Len(queue) /\ e = queue[i + 1]
          BY <1>2, <5>1
        <5> QED
          BY <3>2, <5>2 DEF Mail
      <4> QED
        BY <2>1, <3>2, <4>1, <4>2 DEF Mail
    <3> QED
      BY <3>1, <3>2, Peer
  <2> QED
    BY <2>1, <2>2, <2>3 DEF Post
<1> QED
  BY <1>4, <1>5

LEMMA DeliverStep ==
  ASSUME SessInv, NEW side \in Sides, NEW env, Deliver(side, env)
  PROVE  Post
<1>1. /\ env \in flight[side] /\ inbox' = [inbox EXCEPT ![side] = Append(inbox[side], env)]
      /\ flight' = flight \/ flight' = [flight EXCEPT ![side] = @ \ {env}]
  BY DEF Deliver
<1>2. Fcn(inbox) /\ Fcn(flight) /\ IsSeq(inbox[side])
  BY DEF SessInv, Shape
<1>3. Fcn(inbox') /\ inbox'[side] = Append(inbox[side], env) /\ inbox'[Other(side)] = inbox[Other(side)]
  BY <1>1, <1>2, Peer DEF Fcn
<1>4. Fcn(flight') /\ \A s \in Sides : flight'[s] \subseteq flight[s]
  BY <1>1, <1>2, Peer DEF Fcn
<1>5. /\ IsSeq(inbox'[side]) /\ Len(inbox'[side]) = Len(inbox[side]) + 1 /\ Len(inbox[side]) \in Nat
      /\ inbox'[side][Len(inbox[side]) + 1] = env
      /\ \A i \in 1 .. Len(inbox[side]) : inbox'[side][i] = inbox[side][i]
  BY <1>2, <1>3, AppendIsSeq
<1>6. ASSUME NEW s \in Sides, NEW e \in Mail(s)'
      PROVE  e \in Mail(s)
  <2>1. CASE s = Other(side)
    BY <1>3, <1>4, <2>1 DEF Mail
  <2>2. CASE s = side
    <3>1. CASE e \in flight'[side]
      BY <1>4, <2>2, <3>1 DEF Mail
    <3>2. CASE \E i \in 1 .. Len(inbox[side]) + 1 : e = inbox'[side][i]
      <4>1. PICK i \in 1 .. Len(inbox[side]) + 1 : e = inbox'[side][i]
        BY <3>2
      <4>2. CASE i = Len(inbox[side]) + 1
        BY <1>1, <1>5, <2>2, <4>1, <4>2 DEF Mail
      <4>3. CASE i # Len(inbox[side]) + 1
        <5>1. i \in 1 .. Len(inbox[side]) /\ e = inbox[side][i]
          BY <1>5, <4>1, <4>3
        <5> QED
          BY <2>2, <5>1 DEF Mail
      <4> QED
        BY <4>2, <4>3
    <3> QED
      BY <1>5, <2>2, <3>1, <3>2 DEF Mail
  <2> QED
    BY <2>1, <2>2, Peer
<1>7. \A s \in Sides : IsSeq(inbox'[s])
  BY <1>2, <1>3, <1>5, Peer DEF SessInv, Shape
<1> QED
  BY <1>3, <1>4, <1>6, <1>7 DEF Post

\* Every step of the session is one of three kinds for the two ends.
Quiet == talk' = talk /\ heard' = heard /\ ended' = ended
EndsMove == \/ \E s \in Sides : (\E turn : Hears(s, turn)) \/ Stops(s)
            \/ Quiet

LEMMA StepKinds ==
  ASSUME SessInv, [SessNext]_sessVars
  PROVE  EndsMove /\ Post
<1>1. ASSUME inbox' = inbox, Fcn(flight'), \A s \in Sides : flight'[s] \subseteq flight[s]
      PROVE  Post
  BY <1>1 DEF SessInv, Shape, Post, Mail
<1>2. CASE UNCHANGED sessVars
  <2>1. Fcn(flight') /\ \A s \in Sides : flight'[s] \subseteq flight[s]
    BY <1>2 DEF sessVars, SessInv, Shape
  <2> QED
    BY <1>1, <1>2, <2>1 DEF sessVars, EndsMove, Quiet
<1>3. CASE SessNext
  <2>1. PICK side \in Sides : EndStep(side) \/ RelayStep(side)
    BY <1>3 DEF SessNext
  <2>2. CASE /\ ended[side] = Pending /\ MyTurn(side)
             /\ \E move \in PolicyMoves(side, heard[side], talk) : SendMove(side, move) \/ SendThrows(side, move)
    BY <2>2, SendStep, ThrowStep DEF EndsMove
  <2>3. CASE ReceiveMove(side)
    BY <2>3, ReceiveStep DEF EndsMove
  <2>4. CASE ReceiveTimeout(side)
    <3>1. Stops(side) /\ inbox' = inbox /\ flight' = flight
      BY <2>4 DEF ReceiveTimeout, Stops
    <3>2. Fcn(flight') /\ \A s \in Sides : flight'[s] \subseteq flight[s]
      BY <3>1 DEF SessInv, Shape
    <3> QED
      BY <1>1, <3>1, <3>2 DEF EndsMove
  <2>5. CASE RelayStep(side)
    <3>1. PICK env \in flight[side] : Deliver(side, env) \/ Lose(side, env)
      BY <2>5 DEF RelayStep
    <3>2. CASE Deliver(side, env)
      BY <3>2, DeliverStep DEF Deliver, EndsMove, Quiet
    <3>3. CASE Lose(side, env)
      <4>1. /\ Quiet /\ inbox' = inbox /\ flight' = [flight EXCEPT ![side] = @ \ {env}]
        BY <3>3 DEF Lose, Quiet
      <4>2. Fcn(flight') /\ \A s \in Sides : flight'[s] \subseteq flight[s]
        <5>1. Fcn(flight)
          BY DEF SessInv, Shape
        <5> QED
          BY <4>1, <5>1 DEF Fcn
      <4> QED
        BY <1>1, <4>1, <4>2 DEF EndsMove
    <3> QED
      BY <3>1, <3>2, <3>3
  <2> QED
    BY <2>1, <2>2, <2>3, <2>4, <2>5 DEF EndStep
<1> QED
  BY <1>2, <1>3

LEMMA SessStep ==
  ASSUME SessInv, [SessNext]_sessVars
  PROVE  SessInv'
<1>1. EndsMove /\ Post
  BY StepKinds
<1>2. Fcn(inbox') /\ Fcn(flight') /\ \A s \in Sides : IsSeq(inbox'[s])
  BY <1>1 DEF Post
<1>3. CASE \E s \in Sides : \E turn : Hears(s, turn)
  <2>0. PICK side \in Sides : \E turn : Hears(side, turn)
    BY <1>3
  <2>1. PICK turn : Hears(side, turn)
    BY <2>0
  <2>2. /\ talk' \in Talks /\ Fcn(heard') /\ Fcn(ended') /\ \A s \in Sides : IsSeq(heard'[s])
        /\ Logs' /\ Common'
        /\ \A s \in Sides : Lag(s)' /\ Going(s)' /\ Bargained(s)' /\ Accepted(s)'
    BY <2>1, HearsKeeps
  <2>3. \A s \in Sides : Grows(s)
    <3>1. Fcn(heard) /\ Fcn(ended)
      BY DEF SessInv, Shape
    <3> QED
      BY <2>1, <3>1 DEF Hears, Grows, Fcn
  <2>4. Envelopes'
    BY <1>1, <2>1, <2>3, EnvelopesKept DEF Post, Hears
  <2> QED
    BY <1>2, <2>2, <2>4 DEF SessInv, Shape
<1>4. CASE \E s \in Sides : Stops(s)
  <2>1. PICK side \in Sides : Stops(side)
    BY <1>4
  <2>2. /\ talk' \in Talks /\ Fcn(heard') /\ Fcn(ended') /\ \A s \in Sides : IsSeq(heard'[s])
        /\ Logs' /\ Common'
        /\ \A s \in Sides : Lag(s)' /\ Going(s)' /\ Bargained(s)' /\ Accepted(s)'
    BY <2>1, StopsKeeps
  <2>3. \A s \in Sides : Grows(s)
    <3>1. Fcn(ended)
      BY DEF SessInv, Shape
    <3> QED
      BY <2>1, <3>1 DEF Stops, Grows, Fcn
  <2>4. Envelopes'
    BY <1>1, <2>1, <2>3, EnvelopesKept DEF Post, Stops
  <2> QED
    BY <1>2, <2>2, <2>4 DEF SessInv, Shape
<1>5. CASE Quiet
  <2>1. \A s \in Sides : Grows(s)
    BY <1>5 DEF Quiet, Grows
  <2>2. Envelopes'
    BY <1>1, <1>5, <2>1, EnvelopesKept DEF Post, Quiet
  <2> QED
    BY <1>2, <1>5, <2>2 DEF Quiet, SessInv, Shape, Logs, Common, Lag, Going, Bargained, Accepted
<1> QED
  BY <1>1, <1>3, <1>4, <1>5 DEF EndsMove

LEMMA SessStart ==
  ASSUME SessInit
  PROVE  SessInv
<1>1. /\ talk \in Talks /\ Fcn(heard) /\ Fcn(ended) /\ Fcn(inbox) /\ Fcn(flight)
      /\ \A s \in Sides : heard[s] = <<>> /\ ended[s] = Pending /\ inbox[s] = <<>> /\ flight[s] = {}
  BY DEF SessInit, Fcn
<1>2. \A s \in Sides : Len(heard[s]) = 0 /\ Len(inbox[s]) = 0
  BY <1>1
<1>3. Shape /\ Logs /\ Common /\ Envelopes
  BY <1>1, <1>2, EmptyIsSeq DEF Shape, Logs, LogOK, Common, Envelopes, Mail
<1>4. ASSUME NEW s \in Sides
      PROVE  Lag(s) /\ Going(s) /\ Bargained(s) /\ Accepted(s)
  <2>1. talk.maxTurns \in Nat \ {0}
    BY <1>1, TalksAssumption
  <2> QED
    BY <1>1, <1>2, <2>1, Peer DEF Lag, Going, Bargained, Accepted, Pending
<1> QED
  BY <1>3, <1>4 DEF SessInv

\* Whatever the relay loses, repeats or reorders, and whenever a send throws or
\* an end times out, the two transcripts stay in order and agree where both
\* have a turn (session.ts, runSide).
THEOREM SessionInvariant == SessSpec => []SessInv
BY SessStart, SessStep, PTL DEF SessSpec

\* Two transcripts that an accept closed are the same.
LEMMA OneClosing ==
  ASSUME SessInv, NEW s \in Sides,
         Len(heard[s]) > 0, heard[s][Len(heard[s])].kind = "accept"
  PROVE  /\ Len(heard[Other(s)]) <= Len(heard[s])
         /\ Len(heard[Other(s)]) = Len(heard[s]) => heard[Other(s)] = heard[s]
<1> DEFINE o == Other(s)
           n == Len(heard[s])
           m == Len(heard[o])
<1>1. /\ o \in Sides /\ n \in Nat /\ m \in Nat /\ LogOK(heard[o], talk) /\ IsSeq(heard[o]) /\ IsSeq(heard[s])
      /\ \A i \in 1 .. n : i <= m => heard[s][i] = heard[o][i]
  BY Peer, Counting DEF SessInv, Shape, Logs, Common
<1>2. ~(m > n)
  <2> SUFFICES ASSUME m > n PROVE FALSE
    OBVIOUS
  <2>1. n + 1 \in 1 .. m /\ heard[o][n] = heard[s][n] /\ n + 1 - 1 = n
    BY <1>1
  <2>2. TurnOK(heard[o], n + 1 - 1, heard[o][n + 1], talk)
    BY <1>1, <2>1 DEF LogOK
  <2>3. Proposal(heard[o][n])
    BY <2>1, <2>2 DEF TurnOK
  <2> QED
    BY <2>1, <2>3 DEF Proposal
<1>3. m = n => heard[o] = heard[s]
  BY <1>1, SeqExtensional
<1> QED
  BY <1>1, <1>2, <1>3

\* Two ends that settle have settled the same deal, which both guards allow,
\* and the proposer of it does not stand alone.
THEOREM SessionSafety == SessSpec => []SessionAgrees
<1>1. SessInv => SessionAgrees
  <2> SUFFICES ASSUME SessInv PROVE SessionAgrees
    OBVIOUS
  <2>1. ASSUME NEW s \in Sides, ended[s].result = "agreed"
        PROVE  /\ sellerMaySettle(ended[s].terms, talk) /\ buyerMaySettle(ended[s].terms, talk)
               /\ ended[Other(s)].result = "agreed" => ended[Other(s)].terms = ended[s].terms
    <3> DEFINE n == Len(heard[s])
    <3>1. /\ n > 1 /\ heard[s][n].kind = "accept" /\ ended[s] = Settled(heard[s][n - 1].terms)
          /\ \A g \in Sides : MaySettle(g, heard[s][n - 1].terms, talk)
      BY <2>1 DEF SessInv, Bargained
    <3>2. ended[s].terms = heard[s][n - 1].terms
      BY <3>1 DEF Settled
    <3>3. sellerMaySettle(ended[s].terms, talk) /\ buyerMaySettle(ended[s].terms, talk)
      BY <3>1, <3>2 DEF MaySettle, Sides
    <3>4. ASSUME ended[Other(s)].result = "agreed"
          PROVE  ended[Other(s)].terms = ended[s].terms
      <4> DEFINE o == Other(s)
                 m == Len(heard[o])
      <4>1. /\ o \in Sides /\ Other(o) = s /\ n \in Nat /\ m \in Nat
        BY Peer, Counting DEF SessInv, Shape
      <4>2. m > 1 /\ heard[o][m].kind = "accept" /\ ended[o] = Settled(heard[o][m - 1].terms)
        BY <3>4, <4>1 DEF SessInv, Bargained
      <4>3. m <= n /\ (m = n => heard[o] = heard[s])
        BY <3>1, <4>1, OneClosing
      <4>4. n <= m
        BY <4>1, <4>2, OneClosing
      <4> QED
        BY <3>2, <4>1, <4>2, <4>3, <4>4 DEF Settled
    <3> QED
      BY <3>3, <3>4
  <2>2. ASSUME NEW s \in Sides, ended[s].result = "agreed", heard[s][Len(heard[s])].side # s
        PROVE  ended[Other(s)].result \in {"agreed", "thrown"}
    <3> DEFINE o == Other(s)
               n == Len(heard[s])
               m == Len(heard[o])
    <3>1. /\ o \in Sides /\ Other(o) = s /\ n \in Nat /\ m \in Nat /\ Sides = {s, o}
      BY Peer, Counting DEF SessInv, Shape
    <3>2. n > 1 /\ heard[s][n].kind = "accept"
      BY <2>2 DEF SessInv, Bargained
    <3>3. TurnOK(heard[s], n - 1, heard[s][n], talk)
      BY <3>1, <3>2 DEF SessInv, Logs, LogOK
    <3>4. SpeakerAt(n - 1) = o /\ heard[s][n].side = o
      <4>1. heard[s][n].side = SpeakerAt(n - 1) /\ SpeakerAt(n - 1) \in Sides
        BY <3>1, <3>2, <3>3, Alternate DEF TurnOK
      <4> QED
        BY <2>2, <3>1, <4>1
    <3>5. m <= n /\ (m = n => heard[o] = heard[s])
      BY <3>1, <3>2, OneClosing
    <3>6. CASE m = n
      <4>1. m > 0 /\ heard[o][m].kind = "accept" /\ heard[o][m].side = o
        BY <3>1, <3>2, <3>4, <3>5, <3>6
      <4> QED
        BY <3>1, <4>1 DEF SessInv, Accepted
    <3>7. CASE m < n
      <4>1. \/ SpeakerAt(m) = s /\ n = m + 1
            \/ ended[o] = Thrown
        BY <3>1, <3>7 DEF SessInv, Lag
      <4>2. CASE SpeakerAt(m) = s /\ n = m + 1
        <5>1. n - 1 = m
          BY <3>1, <4>2
        <5>2. o # s
          BY Peer
        <5> QED
          BY <3>4, <4>2, <5>1, <5>2
      <4> QED
        BY <4>1, <4>2 DEF Thrown
    <3> QED
      BY <3>1, <3>5, <3>6, <3>7
  <2> QED
    BY <2>1, <2>2 DEF SessionAgrees, ProposerFollowsAccepter, NoCrossedDeal
<1> QED
  BY <1>1, SessionInvariant, PTL

-----------------------------------------------------------------------------
(* The session implements Bargain.                                         *)

Log == Longer(heard["seller"], heard["buyer"])
Verdict == [s \in Sides |-> IF ended[s] = Thrown THEN Gone ELSE ended[s]]

\* Bargain speaks the same language.
LEMMA SameWords ==
  /\ B!Sides = Sides /\ B!NoTerms = NoTerms
  /\ B!Undecided = Pending /\ B!Left = Gone
  /\ \A t : B!AgreedOn(t) = Settled(t)
  /\ \A turn : B!Proposal(turn) <=> Proposal(turn)
  /\ \A s : B!Other(s) = Other(s)
  /\ \A s, t, d : B!MaySettle(s, t, d) <=> MaySettle(s, t, d)
  /\ \A log, s : B!onTableFrom(log, s) = onTableFrom(log, s)
  /\ \A log : B!Speaker(log) = SpeakerAt(Len(log))
<1>1. B!Sides = Sides /\ B!NoTerms = NoTerms /\ B!Undecided = Pending /\ B!Left = Gone
  BY DEF B!Sides, Sides, B!NoTerms, NoTerms, B!Undecided, Pending, B!Left, Gone
<1>2. \A t : B!AgreedOn(t) = Settled(t)
  BY DEF B!AgreedOn, Settled
<1>3. \A turn : B!Proposal(turn) <=> Proposal(turn)
  BY DEF B!Proposal, Proposal
<1>4. \A s : B!Other(s) = Other(s)
  BY DEF B!Other, Other
<1>5. \A s, t, d : B!MaySettle(s, t, d) <=> MaySettle(s, t, d)
  BY DEF B!MaySettle, MaySettle, B!sellerMaySettle, sellerMaySettle, B!buyerMaySettle, buyerMaySettle,
         B!validTermsShape, validTermsShape
<1>6. \A log, s : B!onTableFrom(log, s) = onTableFrom(log, s)
  BY <1>1 DEF B!onTableFrom, onTableFrom, B!Spoken, Spoken, B!Latest, Latest, B!Proposal, Proposal
<1>7. \A log : B!Speaker(log) = SpeakerAt(Len(log))
  BY DEF B!Speaker, SpeakerAt
<1> QED
  BY <1>1, <1>2, <1>3, <1>4, <1>5, <1>6, <1>7

LEMMA LogIs ==
  ASSUME SessInv, NEW s \in Sides, Len(heard[Other(s)]) <= Len(heard[s])
  PROVE  Log = heard[s]
<1>1. /\ \A x \in Sides : IsSeq(heard[x]) /\ Len(heard[x]) \in Nat
      /\ \A i \in 1 .. Len(heard[s]) : i <= Len(heard[Other(s)]) => heard[s][i] = heard[Other(s)][i]
  BY Counting DEF SessInv, Shape, Common
<1>2. Len(heard[Other(s)]) = Len(heard[s]) => heard[Other(s)] = heard[s]
  BY <1>1, Peer, SeqExtensional
<1>3. CASE s = "seller"
  BY <1>1, <1>3 DEF Log, Longer, Other, Sides
<1>4. CASE s = "buyer"
  BY <1>1, <1>2, <1>4 DEF Log, Longer, Other, Sides
<1> QED
  BY <1>3, <1>4 DEF Sides

LEMMA VerdictIs ==
  /\ DOMAIN Verdict = Sides
  /\ \A s \in Sides : Verdict[s] = IF ended[s] = Thrown THEN Gone ELSE ended[s]
  /\ Verdict = [s \in Sides |-> Verdict[s]]
BY DEF Verdict

LEMMA StopRefines ==
  ASSUME SessInv, NEW side \in Sides, Stops(side)
  PROVE  B!BargainNext
<1>1. /\ heard' = heard /\ talk' = talk /\ ended[side] = Pending
      /\ ended'[side] \in {Gone, Thrown} /\ ended'[Other(side)] = ended[Other(side)]
  <2>1. Fcn(ended)
    BY DEF SessInv, Shape
  <2> QED
    BY <2>1, Peer DEF Stops, Fcn
<1>2. Log' = Log
  BY <1>1 DEF Log, Longer
<1>3. /\ Verdict[side] = Pending /\ Verdict'[side] = Gone
      /\ Verdict'[Other(side)] = Verdict[Other(side)]
  BY <1>1, Peer DEF Verdict, Pending, Gone, Thrown
<1>4. \A s \in Sides : B!Conclude(s)
  BY <1>3, SameWords, Peer DEF B!Conclude, Verdict
<1>5. B!Speak
  BY <1>2 DEF B!Speak, Log
<1>6. Verdict' = [s \in B!Sides |-> Verdict'[s]]
  BY SameWords DEF Verdict
<1> QED
  BY <1>1, <1>4, <1>5, <1>6, SameWords DEF B!BargainNext, Verdict

\* The longer of two transcripts that agree where both have a turn.
LEMMA LongerIs ==
  ASSUME NEW h, NEW s \in Sides, \A x \in Sides : IsSeq(h[x]),
         \A i \in 1 .. Len(h[s]) : i <= Len(h[Other(s)]) => h[s][i] = h[Other(s)][i],
         Len(h[Other(s)]) <= Len(h[s])
  PROVE  Longer(h["seller"], h["buyer"]) = h[s]
<1>1. \A x \in Sides : Len(h[x]) \in Nat
  BY Counting
<1>2. Len(h[Other(s)]) = Len(h[s]) => h[Other(s)] = h[s]
  BY <1>1, Peer, SeqExtensional
<1>3. CASE s = "seller"
  BY <1>1, <1>3 DEF Longer, Other, Sides
<1>4. CASE s = "buyer"
  BY <1>1, <1>2, <1>4 DEF Longer, Other, Sides
<1> QED
  BY <1>3, <1>4 DEF Sides

LEMMA HearRefines ==
  ASSUME SessInv, NEW side \in Sides, NEW turn, Hears(side, turn)
  PROVE  B!BargainNext
<1> DEFINE o == Other(side)
           old == heard[side]
           n == Len(old)
           m == Len(heard[o])
           log == Append(old, turn)
<1>1. o \in Sides /\ o # side /\ Other(o) = side /\ Sides = {side, o}
  BY DEF Other, Sides
<1>2. /\ IsSeq(old) /\ IsSeq(heard[o]) /\ n \in Nat /\ m \in Nat
      /\ IsSeq(log) /\ Len(log) = n + 1 /\ log[n + 1] = turn
  BY <1>1, Counting, AppendIsSeq DEF SessInv, Shape
<1>3. /\ heard'[side] = log /\ heard'[o] = heard[o]
      /\ ended'[side] = AfterTurn(side, log) /\ ended'[o] = ended[o]
  <2> DEFINE v == AfterTurn(side, log)
  <2>1. /\ Fcn(heard) /\ Fcn(ended)
        /\ heard' = [heard EXCEPT ![side] = log] /\ ended' = [ended EXCEPT ![side] = v]
    BY DEF SessInv, Shape, Hears
  <2> HIDE DEF log, v
  <2>2. heard'[side] = log /\ heard'[o] = heard[o] /\ ended'[side] = v /\ ended'[o] = ended[o]
    BY <1>1, <2>1 DEF Fcn
  <2> QED
    BY <2>2 DEF v
<1>4. /\ ended[side] = Pending /\ TurnOK(old, n, turn, talk) /\ Position(side, turn) /\ talk' = talk
      /\ LogOK(old, talk) /\ LogOK(heard[o], talk)
  BY <1>1 DEF Hears, SessInv, Logs
<1>5. /\ m <= n => Log = old
      /\ n <= m => Log = heard[o]
  BY <1>1, LogIs
<1>6. /\ m <= n + 1 => Log' = log
      /\ n + 1 <= m => Log' = heard[o]
  <2>1. Common' /\ \A x \in Sides : IsSeq(heard'[x])
    BY HearsKeeps
  <2>2. ASSUME NEW s \in Sides, Len(heard'[Other(s)]) <= Len(heard'[s])
        PROVE  Log' = heard'[s]
    <3>1. \A i \in 1 .. Len(heard'[s]) : i <= Len(heard'[Other(s)]) => heard'[s][i] = heard'[Other(s)][i]
      BY <2>1 DEF Common
    <3>2. Longer(heard'["seller"], heard'["buyer"]) = heard'[s]
      BY <2>1, <2>2, <3>1, LongerIs
    <3> QED
      BY <3>2 DEF Log, Longer
  <2> QED
    BY <1>1, <1>2, <1>3, <2>2
<1>7. B!Speak
  <2>1. CASE m > n
    <3>1. Log' = Log
      BY <1>2, <1>5, <1>6, <2>1
    <3> QED
      BY <3>1 DEF B!Speak, Log
  <2>2. CASE ~(m > n)
    <3>1. Log = old /\ Log' = log
      BY <1>2, <1>5, <1>6, <2>2
    <3>2. Log'[Len(Log')] = turn /\ Log' = Append(Log, turn) /\ Len(Log) = n
      BY <1>2, <3>1
    <3>3. /\ Log # <<>> => Proposal(Log[Len(Log)])
          /\ n < talk.maxTurns /\ turn.side = SpeakerAt(n)
          /\ Proposal(turn) => MaySettle(turn.side, turn.terms, talk)
      <4>1. old # <<>> => n > 0
        BY <1>2, EmptyIsSeq, SeqExtensional
      <4> QED
        BY <1>4, <3>1, <4>1 DEF TurnOK
    <3>4. ~ B!ClosedLog(Log)
      BY <3>3, SameWords DEF B!ClosedLog
    <3> QED
      BY <3>2, <3>3, <3>4, SameWords DEF B!Speak, Log
  <2> QED
    BY <2>1, <2>2
<1>8. Verdict'[o] = Verdict[o] /\ Verdict[side] = Pending
  BY <1>1, <1>3, <1>4 DEF Verdict, Pending, Thrown
<1>9. B!Conclude(side)
  <2> DEFINE v == AfterTurn(side, log)
  <2>1. Verdict'[side] = IF v = Thrown THEN Gone ELSE v
    BY <1>3 DEF Verdict
  <2>2. \/ v = Pending
        \/ v = Gone
        \/ /\ v = Settled(old[n].terms) /\ turn.kind = "accept" /\ n > 0 /\ old[n].terms # NoTerms
           /\ \A s \in Sides : MaySettle(s, old[n].terms, talk)
    BY <1>2, <1>4, Outcomes
  <2>3. CASE v = Pending \/ v = Gone
    <3>1. Verdict'[side] = Verdict[side] \/ Verdict'[side] = Gone
      BY <1>8, <2>1, <2>3 DEF Pending, Gone, Thrown
    <3> QED
      BY <1>8, <3>1, SameWords DEF B!Conclude, Verdict
  <2>4. CASE /\ v = Settled(old[n].terms) /\ turn.kind = "accept" /\ n > 0 /\ old[n].terms # NoTerms
             /\ \A s \in Sides : MaySettle(s, old[n].terms, talk)
    <3>1. m <= n + 1
      <4> SUFFICES ASSUME m > n + 1 PROVE FALSE
        BY <1>2
      <4>1. heard[o][n + 1] = turn
        BY <1>2, <1>4 DEF Position
      <4>2. n + 2 \in 1 .. m /\ (n + 2) - 1 = n + 1 /\ n + 1 > 0
        BY <1>2
      <4>3. TurnOK(heard[o], (n + 2) - 1, heard[o][n + 2], talk)
        BY <1>4, <4>2 DEF LogOK
      <4>4. TurnOK(heard[o], n + 1, heard[o][n + 2], talk)
        BY <4>2, <4>3
      <4>5. Proposal(turn)
        BY <4>1, <4>2, <4>4 DEF TurnOK
      <4> QED
        BY <2>4, <4>5 DEF Proposal
    <3>2. Log' = log
      BY <1>6, <3>1
    <3>3. Log'[Len(Log')] = turn /\ Log' # <<>>
      BY <1>2, <3>2
    <3>4. B!Bound(Log') = old[n].terms
      <4>1. onTableFrom(log, Other(turn.side)) = old[n].terms
        BY <1>2, <1>4, <2>4, Extend
      <4>2. B!Bound(Log') = B!onTableFrom(Log', B!Other(Log'[Len(Log')].side))
        BY DEF B!Bound
      <4> QED
        BY <3>2, <3>3, <4>1, <4>2, SameWords
    <3>5. Verdict'[side] = Settled(old[n].terms)
      BY <2>1, <2>4 DEF Settled, Thrown
    <3> QED
      BY <1>8, <2>4, <3>3, <3>4, <3>5, SameWords DEF B!Conclude, Log, Verdict
  <2> QED
    BY <2>2, <2>3, <2>4
<1>10. B!Conclude(o)
  BY <1>8 DEF B!Conclude, Verdict
<1>11. Verdict' = [s \in B!Sides |-> Verdict'[s]]
  BY SameWords DEF Verdict
<1> QED
  BY <1>1, <1>4, <1>7, <1>9, <1>10, <1>11, SameWords DEF B!BargainNext, Verdict

LEMMA SessionStartRefines ==
  ASSUME SessInit
  PROVE  B!BargainInit
<1>1. talk \in Talks /\ \A s \in Sides : heard[s] = <<>> /\ ended[s] = Pending
  BY DEF SessInit
<1>2. Log = <<>>
  BY <1>1 DEF Log, Longer, Sides
<1>3. Verdict \in [Sides -> {Pending, Gone}]
  BY <1>1 DEF Verdict, Pending, Thrown
<1> QED
  BY <1>1, <1>2, <1>3, SameWords DEF B!BargainInit, Log, Verdict

LEMMA SessionStepRefines ==
  ASSUME SessInv, [SessNext]_sessVars
  PROVE  [B!BargainNext]_<<talk, Log, Verdict>>
<1>1. EndsMove
  BY StepKinds
<1>2. CASE Quiet
  BY <1>2 DEF Quiet, Log, Verdict, Longer
<1> QED
  BY <1>1, <1>2, HearRefines, StopRefines DEF EndsMove

\* Two ends over an unreliable relay implement the abstract negotiation: one
\* public log of alternating turns, each within its speaker's guard, and a
\* result per end that is given once and agrees only on the terms the accept
\* bound to (session.ts:10).
THEOREM SessionImplementsBargain == SessSpec => ImplementsBargain
<1>1. SessInit => B!BargainInit
  BY SessionStartRefines
<1>2. SessInv /\ [SessNext]_sessVars => [B!BargainNext]_<<talk, Log, Verdict>>
  BY SessionStepRefines
<1> QED
  BY <1>1, <1>2, SessionInvariant, PTL DEF SessSpec, ImplementsBargain, B!BargainSpec, Log, Verdict

-----------------------------------------------------------------------------
(* The in-process engine. It checks an accept by what the accepter says,   *)
(* so its transcript need not be in order in the session's sense; what     *)
(* carries the proof is that nothing follows a turn that is no proposal.   *)

EngineInv ==
  /\ IsSeq(transcript)
  /\ \A i \in 1 .. Len(transcript) : transcript[i].side = SpeakerAt(i - 1) /\ transcript[i].kind \in Kinds
  /\ outcome = Open /\ Len(transcript) > 0 => Proposal(transcript[Len(transcript)])
  /\ SoundDeal

LEMMA TurnKeeps ==
  ASSUME EngineInv, NEW side \in Sides, NEW move \in PolicyMoves(side, transcript, deal), TakeTurn(side, move)
  PROVE  EngineInv'
<1> DEFINE n == Len(transcript)
           said == guardEmittedMove(side, move)
           turn == [side |-> side, kind |-> said.kind, terms |-> said.terms]
           table == onTableFrom(transcript', Other(side))
<1>1. /\ outcome = Open /\ side = ToMove /\ deal' = deal
      /\ transcript' = Append(transcript, turn) /\ outcome' = Closing(transcript', side)
  BY DEF TakeTurn
<1>2. said.kind \in Kinds
  BY PolicyKinds DEF guardEmittedMove, Reject, Says, Kinds
<1>3. /\ n \in Nat /\ IsSeq(transcript') /\ Len(transcript') = n + 1 /\ transcript'[n + 1] = turn
      /\ \A i \in 1 .. n : transcript'[i] = transcript[i]
  <2> HIDE DEF turn
  <2> QED
    BY <1>1, AppendIsSeq DEF EngineInv
<1>4. side = SpeakerAt(n) /\ turn.side = side /\ turn.kind = said.kind
  BY <1>1 DEF ToMove, SpeakerAt
<1>5. \A i \in 1 .. n + 1 : transcript'[i].side = SpeakerAt(i - 1) /\ transcript'[i].kind \in Kinds
  <2> SUFFICES ASSUME NEW i \in 1 .. n + 1
               PROVE  transcript'[i].side = SpeakerAt(i - 1) /\ transcript'[i].kind \in Kinds
    OBVIOUS
  <2>1. CASE i = n + 1
    <3>1. transcript'[i] = turn /\ i - 1 = n
      BY <1>3, <2>1
    <3> HIDE DEF turn, said
    <3> QED
      BY <1>2, <1>4, <3>1
  <2>2. CASE i # n + 1
    BY <1>3, <2>2 DEF EngineInv
  <2> QED
    BY <2>1, <2>2
<1>6. /\ said.kind = "reject" => outcome' = Walked
      /\ said.kind = "accept" =>
           outcome' = IF table # NoTerms /\ sellerMaySettle(table, deal) /\ buyerMaySettle(table, deal)
                      THEN Agreed(table) ELSE Walked
      /\ said.kind \notin {"accept", "reject"} => outcome' \in {Walked, Open}
  <2>1. transcript'[Len(transcript')].kind = said.kind
    BY <1>3, <1>4
  <2> HIDE DEF said
  <2> QED
    BY <1>1, <2>1 DEF Closing
<1>7. outcome' = Open => Proposal(transcript'[n + 1])
  <2>1. Open # Walked /\ \A t : Open # Agreed(t)
    BY DEF Open, Walked, Agreed
  <2>2. said.kind \notin {"accept", "reject"} => said.kind \in {"offer", "counter"}
    BY <1>2 DEF Kinds
  <2> HIDE DEF said, table
  <2> QED
    BY <1>3, <1>4, <1>6, <2>1, <2>2 DEF Proposal
<1>8. ASSUME outcome'.result = "agreed"
      PROVE  /\ n + 1 >= 2 /\ transcript'[n + 1].kind = "accept" /\ Proposal(transcript'[n])
             /\ outcome'.terms = transcript'[n].terms
             /\ sellerMaySettle(outcome'.terms, deal) /\ buyerMaySettle(outcome'.terms, deal)
  <2>1. /\ said.kind = "accept" /\ outcome' = Agreed(table) /\ table # NoTerms
        /\ sellerMaySettle(table, deal) /\ buyerMaySettle(table, deal)
    BY <1>6, <1>8 DEF Walked, Open
  <2>2. n > 0
    <3> SUFFICES ASSUME n = 0 PROVE FALSE
      BY <1>3
    <3>1. Len(transcript') = 1 /\ ~ Proposal(transcript'[1])
      BY <1>3, <1>4, <2>1 DEF Proposal
    <3>2. table = NoTerms
      BY <3>1 DEF onTableFrom, Spoken
    <3> QED
      BY <2>1, <3>2
  <2>3. Proposal(transcript[n]) /\ transcript[n].side = SpeakerAt(n - 1) /\ transcript'[n] = transcript[n]
    BY <1>1, <1>3, <2>2 DEF EngineInv
  <2>4. SpeakerAt(n - 1) = Other(side)
    BY <1>3, <1>4, <2>2 DEF SpeakerAt, Other
  <2>5. ~ Proposal(transcript'[n + 1])
    BY <1>3, <1>4, <2>1 DEF Proposal
  <2>6. table = transcript'[n].terms
    <3>1. /\ n \in 1 .. Len(transcript') /\ Proposal(transcript'[n]) /\ transcript'[n].side = Other(side)
          /\ \A i \in 1 .. Len(transcript') : i > n => ~ Proposal(transcript'[i])
      BY <1>3, <2>2, <2>3, <2>4, <2>5
    <3> HIDE DEF n
    <3>2. onTableFrom(transcript', transcript'[n].side) = transcript'[n].terms
      BY <1>3, <3>1, OnTable
    <3> QED
      BY <3>1, <3>2
  <2>7. outcome'.terms = table
    BY <2>1 DEF Agreed
  <2>8. transcript'[n + 1].kind = "accept" /\ n + 1 >= 2
    BY <1>3, <1>4, <2>1, <2>2
  <2> HIDE DEF table, n
  <2> QED
    BY <2>1, <2>3, <2>6, <2>7, <2>8
<1>9. SoundDeal'
  <2>1. ASSUME NEW t, sellerMaySettle(t, deal), buyerMaySettle(t, deal)
        PROVE  t.price >= deal.floor[t.tier][t.deadline] /\ t.price <= deal.budget /\ t.tier \in deal.acceptable
    BY <2>1 DEF sellerMaySettle, buyerMaySettle
  <2>2. Len(transcript') - 1 = n
    BY <1>3
  <2> HIDE DEF n
  <2> QED
    BY <1>1, <1>3, <1>8, <2>1, <2>2 DEF SoundDeal
<1> QED
  BY <1>3, <1>5, <1>7, <1>9 DEF EngineInv

\* Whatever the two policies answer, and however often one throws, a deal of
\* the engine is the proposal its accepter had in front of it, at or above the
\* floor and within the budget and the acceptable tiers (negotiate.ts:103).
THEOREM EngineSafety == NegSpec => []SoundDeal
<1>1. NegInit => EngineInv
  <2> SUFFICES ASSUME NegInit PROVE EngineInv
    OBVIOUS
  <2>1. transcript = <<>> /\ Len(transcript) = 0 /\ outcome = Open
    BY DEF NegInit
  <2> QED
    BY <2>1, EmptyIsSeq DEF EngineInv, SoundDeal, Open
<1>2. EngineInv /\ [NegNext]_negVars => EngineInv'
  <2> SUFFICES ASSUME EngineInv, [NegNext]_negVars PROVE EngineInv'
    OBVIOUS
  <2>1. CASE UNCHANGED negVars
    BY <2>1 DEF negVars, EngineInv, SoundDeal
  <2>2. ASSUME NEW side \in Sides, NEW move \in PolicyMoves(side, transcript, deal), TakeTurn(side, move)
        PROVE  EngineInv'
    BY <2>2, TurnKeeps
  <2>3. ASSUME NEW side \in Sides, PolicyThrows(side)
        PROVE  EngineInv'
    BY <2>3 DEF PolicyThrows, EngineInv, SoundDeal, Walked, Open
  <2> QED
    BY <2>1, <2>2, <2>3 DEF NegNext
<1> QED
  BY <1>1, <1>2, PTL DEF NegSpec, EngineInv

-----------------------------------------------------------------------------
(* What the scripted policies say. A log here is one the engine keeps while *)
(* a bargain is open: every turn a proposal within its speaker's guard, and *)
(* a scripted buyer's at the tier and deadline it prefers.                  *)

LEMMA RoundCent ==
  ASSUME NEW n \in Int
  PROVE  RoundDiv(n, 100) \in Int /\ 100 * RoundDiv(n, 100) >= n - 50 /\ 100 * RoundDiv(n, 100) <= n + 50
BY DEF RoundDiv

LEMMA RoundHalf ==
  ASSUME NEW n \in Int
  PROVE  RoundDiv(n, 2) \in Int /\ 2 * RoundDiv(n, 2) >= n /\ 2 * RoundDiv(n, 2) <= n + 1
BY DEF RoundDiv

\* A bundle's floor may be zero, when there is nothing in it.
DealOK(d) ==
  /\ d \in Bargains
  /\ d.seller # "bundle" => Priced(d)
  /\ d.seller = "bundle" =>
       /\ d.tiers = {"deep"} /\ d.deadlines = {d.deadline}
       /\ d.floor["deep"][d.deadline] >= 0

Turns(log, d) ==
  /\ IsSeq(log)
  /\ \A i \in 1 .. Len(log) :
       /\ log[i].side = SpeakerAt(i - 1) /\ Proposal(log[i])
       /\ log[i].terms.price \in Int /\ MaySettle(log[i].side, log[i].terms, d)
       /\ d.buyer = "scripted" /\ log[i].side = "buyer" =>
            log[i].terms.tier = d.tier /\ log[i].terms.deadline = d.deadline

LEMMA Sorts ==
  ASSUME NEW d, DealOK(d)
  PROVE  /\ d.tiers \subseteq Tiers /\ d.deadlines \subseteq Deadlines /\ d.tier \in Tiers /\ d.deadline \in Deadlines
         /\ d.budget \in Int /\ d.maxTurns \in Nat /\ d.maxTurns > 1
         /\ \A t \in Tiers, dl \in Deadlines : d.floor[t][dl] \in Int /\ d.ask[t][dl] \in Int
         /\ "quick" \in Tiers /\ "deep" \in Tiers /\ "standard" \in Deadlines
BY DEF DealOK, Bargains, Tiers, Deadlines

LEMMA Tabled ==
  ASSUME NEW t, NEW d, NEW side \in Sides, DealOK(d), MaySettle(side, t, d), t.price \in Int
  PROVE  /\ t.tier \in d.tiers /\ t.deadline \in d.deadlines /\ t.price > 0
         /\ t.tier \in Tiers /\ t.deadline \in Deadlines
         /\ side = "seller" => t.price >= d.floor[t.tier][t.deadline]
         /\ side = "buyer" => t.tier \in d.acceptable /\ t.price <= d.budget
BY Sorts DEF MaySettle, sellerMaySettle, buyerMaySettle, validTermsShape, Sides

LEMMA LatestIs ==
  ASSUME NEW S, NEW n \in S, S \subseteq Int, \A j \in S : j <= n
  PROVE  Latest(S) = n
<1>1. \A i \in S : (\A j \in S : j <= i) => i = n
  OBVIOUS
<1> QED
  BY <1>1 DEF Latest

\* The other side's last move is the last turn.
LEMMA LastMove ==
  ASSUME NEW log, NEW me, IsSeq(log), Len(log) > 0, log[Len(log)].side # me
  PROVE  lastCounterpartyMove(log, me) = Says(log[Len(log)].kind, log[Len(log)].terms)
<1> DEFINE theirs == {i \in 1 .. Len(log) : log[i].side # me}
<1>1. Len(log) \in theirs /\ theirs \subseteq Int /\ \A j \in theirs : j <= Len(log)
  BY Counting
<1>2. Latest(theirs) = Len(log)
  <2> HIDE DEF theirs
  <2> QED
    BY <1>1, LatestIs
<1> QED
  BY <1>1, <1>2 DEF lastCounterpartyMove

\* A side's own last proposal is the turn before that.
LEMMA OwnLast ==
  ASSUME NEW log, NEW d, Turns(log, d), NEW side \in Sides, side = SpeakerAt(Len(log))
  PROVE  LET n == Len(log) IN
         /\ n < 2 => Spoken(log, side) = {}
         /\ n >= 2 => Spoken(log, side) # {} /\ Latest(Spoken(log, side)) = n - 1 /\ log[n - 1].side = side
<1> DEFINE n == Len(log)
           S == Spoken(log, side)
<1>1. n \in Nat /\ \A i \in 1 .. n : i \in S <=> SpeakerAt(i - 1) = side
  BY Counting DEF Turns, Spoken
<1>2. S \subseteq 1 .. n
  BY DEF Spoken
<1>3. \A i \in 1 .. n : i = n => i \notin S
  BY <1>1 DEF SpeakerAt
<1>4. CASE n < 2
  BY <1>1, <1>2, <1>3, <1>4
<1>5. CASE n >= 2
  <2>1. n - 1 \in S
    BY <1>1, <1>5 DEF SpeakerAt
  <2>2. \A j \in S : j <= n - 1
    BY <1>1, <1>2, <1>3
  <2>3. Latest(S) = n - 1
    <3>1. S \subseteq Int
      BY <1>2
    <3> HIDE DEF S, n
    <3> QED
      BY <3>1, <2>1, <2>2, LatestIs
  <2>4. log[n - 1].side = side
    BY <2>1 DEF Spoken
  <2> QED
    BY <1>5, <2>1, <2>3, <2>4
<1> QED
  BY <1>1, <1>4, <1>5

LEMMA ConcededIs ==
  ASSUME NEW log, NEW d, IsSeq(log), NEW ask \in Int, NEW floor \in Int
  PROVE  /\ Conceded(log, d, ask, floor) \in Int /\ Conceded(log, d, ask, floor) >= floor
         /\ IsFinal(log, d) => Conceded(log, d, ask, floor) = floor
<1>1. RoundOf(log) \in Int
  BY Counting DEF RoundOf
<1> DEFINE n == 100 * ask - (ask - floor) * 34 * RoundOf(log)
<1>2. n \in Int
  BY <1>1
<1>3. RoundDiv(n, 100) \in Int
  <2> HIDE DEF n
  <2> QED
    BY <1>2, RoundCent
<1> HIDE DEF n
<1>4. Conceded(log, d, ask, floor) = IF IsFinal(log, d) THEN floor ELSE Max2(floor, RoundDiv(n, 100))
  BY DEF Conceded, n
<1> QED
  BY <1>3, <1>4 DEF Max2

LEMMA BuyerScript ==
  ASSUME NEW log, NEW d, DealOK(d), Turns(log, d), SpeakerAt(Len(log)) = "buyer"
  PROVE  LET move == deterministicBuyer(log, d) IN
         /\ move.terms.price \in Int
         /\ Proposal(move) => move.terms.tier = d.tier /\ move.terms.deadline = d.deadline
         /\ d.buyer = "scripted" => move.kind = "reject" \/ buyerMaySettle(move.terms, d)
<1> DEFINE n == Len(log)
           asked == log[n].terms
           mine == Spoken(log, "buyer")
           opening == Deal(d.tier, d.deadline, RoundDiv(Min2(100 * d.budget, 65 * asked.price), 100))
           lastBid == log[Latest(mine)].terms.price
           next == IF IsFinal(log, d) THEN d.budget ELSE lastBid + RoundDiv(d.budget - lastBid, 2)
           settles == buyerMaySettle(asked, d)
           move == deterministicBuyer(log, d)
<1>1. n \in Nat /\ n > 0 /\ log[n].side = "seller" /\ Proposal(log[n]) /\ asked.price \in Int
  <2>1. n \in Nat
    BY Counting DEF Turns
  <2>2. n > 0 /\ SpeakerAt(n - 1) = "seller"
    BY <2>1 DEF SpeakerAt
  <2> QED
    BY <2>1, <2>2 DEF Turns
<1>2. lastCounterpartyMove(log, "buyer") = Says(log[n].kind, asked)
  BY <1>1, LastMove DEF Turns
<1>3. Says(log[n].kind, asked).kind # "reject" /\ Says(log[n].kind, asked).terms = asked
  BY <1>1 DEF Says, Proposal
<1>4. d.budget \in Int
  BY Sorts
<1>5. opening.price \in Int
  <2> DEFINE m == Min2(100 * d.budget, 65 * asked.price)
  <2>1. m \in Int
    BY <1>1, <1>4 DEF Min2
  <2>2. opening.price = RoundDiv(m, 100)
    BY DEF Deal
  <2> HIDE DEF m, opening
  <2> QED
    BY <2>1, <2>2, RoundCent
<1>6. ASSUME mine # {}
      PROVE  /\ lastBid \in Int /\ lastBid > 0 /\ lastBid <= d.budget
             /\ d.buyer = "scripted" =>
                  d.tier \in d.tiers /\ d.tier \in d.acceptable /\ d.deadline \in d.deadlines
  <2>1. n >= 2 /\ Latest(mine) = n - 1 /\ log[n - 1].side = "buyer"
    <3>1. "buyer" \in Sides
      BY DEF Sides
    <3> QED
      BY <1>1, <1>6, <3>1, OwnLast
  <2>2. /\ log[n - 1].terms.price \in Int /\ MaySettle("buyer", log[n - 1].terms, d)
        /\ d.buyer = "scripted" => log[n - 1].terms.tier = d.tier /\ log[n - 1].terms.deadline = d.deadline
    BY <1>1, <2>1 DEF Turns
  <2> QED
    BY <2>1, <2>2 DEF MaySettle, buyerMaySettle, validTermsShape
<1>7. ASSUME mine # {}
      PROVE  next \in Int /\ next > 0 /\ next <= d.budget
  <2>1. /\ RoundDiv(d.budget - lastBid, 2) \in Int /\ 2 * RoundDiv(d.budget - lastBid, 2) >= d.budget - lastBid
        /\ 2 * RoundDiv(d.budget - lastBid, 2) <= d.budget - lastBid + 1
    <3>1. d.budget - lastBid \in Int
      BY <1>4, <1>6, <1>7
    <3> QED
      BY <3>1, RoundHalf
  <2>2. lastBid \in Int /\ lastBid > 0 /\ lastBid <= d.budget
    BY <1>6, <1>7
  <2> HIDE DEF lastBid, mine
  <2> QED
    BY <1>4, <2>1, <2>2
<1>8. move = IF mine = {} THEN IF buyerMaySettle(opening, d) THEN Says("offer", opening) ELSE Reject
             ELSE IF settles /\ (asked.price <= next \/ asked.tier # d.tier \/ IsFinal(log, d)) THEN Says("accept", asked)
             ELSE IF IsFinal(log, d) THEN Reject
             ELSE Says("counter", Deal(d.tier, d.deadline, next))
  BY <1>2, <1>3 DEF deterministicBuyer
<1> HIDE DEF opening, mine, next, settles, move
<1>9. \/ move = Reject
      \/ move = Says("offer", opening) /\ buyerMaySettle(opening, d)
      \/ move = Says("accept", asked) /\ settles
      \/ mine # {} /\ move = Says("counter", Deal(d.tier, d.deadline, next))
  BY <1>8
<1>10. CASE move = Reject
  BY <1>10 DEF Reject, Says, NoTerms, Proposal, move
<1>11. CASE move = Says("offer", opening) /\ buyerMaySettle(opening, d)
  <2>1. opening.tier = d.tier /\ opening.deadline = d.deadline
    BY DEF opening, Deal
  <2> QED
    BY <1>5, <1>11, <2>1 DEF Says, Proposal, move
<1>12. CASE move = Says("accept", asked) /\ settles
  BY <1>1, <1>12 DEF Says, Proposal, settles, move
<1>13. CASE mine # {} /\ move = Says("counter", Deal(d.tier, d.deadline, next))
  <2> DEFINE t == Deal(d.tier, d.deadline, next)
  <2>1. t.tier = d.tier /\ t.deadline = d.deadline /\ t.price = next
    BY DEF Deal
  <2>2. move.terms = t /\ move.kind = "counter"
    BY <1>13 DEF Says
  <2> HIDE DEF t
  <2>3. d.buyer = "scripted" => buyerMaySettle(t, d)
    BY <1>6, <1>7, <1>13, <2>1 DEF buyerMaySettle, validTermsShape
  <2> QED
    BY <1>7, <1>13, <2>1, <2>2, <2>3 DEF move
<1> QED
  BY <1>9, <1>10, <1>11, <1>12, <1>13

LEMMA SellerScript ==
  ASSUME NEW log, NEW d, DealOK(d), Turns(log, d), SpeakerAt(Len(log)) = "seller", d.seller # "bundle"
  PROVE  LET move == deterministicSeller(log, d) IN
         /\ move.terms.price \in Int
         /\ "standard" \in d.deadlines /\ "deep" \in d.tiers => move.kind = "reject" \/ sellerMaySettle(move.terms, d)
         /\ log # <<>> => move.kind = "reject" \/ sellerMaySettle(move.terms, d)
<1> DEFINE n == Len(log)
           want == log[n].terms
           floor == d.floor[want.tier][want.deadline]
           quick == d.floor["quick"][want.deadline]
           counter == Says("counter", Deal(want.tier, want.deadline,
                           Conceded(log, d, d.ask[want.tier][want.deadline], floor)))
           stalled == projectedReach(log, "buyer") < floor
           offer == Says("offer", Deal("deep", "standard", d.ask["deep"]["standard"]))
           move == deterministicSeller(log, d)
           fine(m) == m.terms.price \in Int /\ sellerMaySettle(m.terms, d)
<1>0. n \in Nat /\ (log = <<>> => n = 0) /\ (n = 0 => log = <<>>) /\ Priced(d)
  <2>1. n \in Nat /\ Len(<<>>) = 0
    BY Counting DEF Turns
  <2>2. n = 0 => log = <<>>
    BY SeqExtensional, EmptyIsSeq, <2>1 DEF Turns
  <2> QED
    BY <2>1, <2>2 DEF DealOK
<1>1. CASE log = <<>>
  <2>1. move = offer
    BY <1>1 DEF deterministicSeller
  <2>2. offer.terms.tier = "deep" /\ offer.terms.deadline = "standard" /\ offer.terms.price = d.ask["deep"]["standard"]
    BY DEF Says, Deal
  <2>3. d.ask["deep"]["standard"] \in Int /\ d.floor["deep"]["standard"] \in Int
    BY Sorts
  <2>4. d.floor["deep"]["standard"] > 0 /\ d.ask["deep"]["standard"] >= d.floor["deep"]["standard"]
    BY <1>0, Sorts DEF Priced
  <2> HIDE DEF offer
  <2> QED
    BY <1>1, <2>1, <2>2, <2>3, <2>4 DEF sellerMaySettle, validTermsShape
<1>2. CASE log # <<>>
  <2>1. n > 0 /\ log[n].side = "buyer" /\ Proposal(log[n])
    <3>1. n > 0 /\ SpeakerAt(n - 1) = "buyer"
      BY <1>0, <1>2 DEF SpeakerAt
    <3> QED
      BY <1>0, <3>1 DEF Turns
  <2>2. want.price \in Int /\ MaySettle("buyer", want, d)
    BY <1>0, <2>1 DEF Turns
  <2>3. /\ want.tier \in d.tiers /\ want.deadline \in d.deadlines /\ want.price > 0
        /\ want.tier \in Tiers /\ want.deadline \in Deadlines
    <3>1. "buyer" \in Sides
      BY DEF Sides
    <3> HIDE DEF want
    <3> QED
      BY <2>2, <3>1, Tabled
  <2>4. /\ floor \in Int /\ floor > 0 /\ quick \in Int /\ quick > 0 /\ d.ask[want.tier][want.deadline] \in Int
    <3> HIDE DEF want
    <3> QED
      BY <1>0, <2>3, Sorts DEF Priced
  <2>5. Conceded(log, d, d.ask[want.tier][want.deadline], floor) \in Int /\ Conceded(log, d, d.ask[want.tier][want.deadline], floor) >= floor
    <3> HIDE DEF want, floor
    <3> QED
      BY <2>4, ConcededIs DEF Turns
  <2>6. lastCounterpartyMove(log, "seller") = Says(log[n].kind, want)
    BY <2>1, LastMove DEF Turns
  <2>7. Says(log[n].kind, want).kind \notin {"reject", "accept"} /\ Says(log[n].kind, want).terms = want
    BY <2>1 DEF Says, Proposal
  <2>8. move = IF want.price >= floor THEN Says("accept", want)
               ELSE IF IsFinal(log, d) /\ stalled /\ want.tier = "deep" /\ "quick" \in d.tiers /\ want.price >= quick
               THEN Says("counter", Deal("quick", want.deadline, quick))
               ELSE counter
    BY <1>2, <2>6, <2>7 DEF deterministicSeller
  <2> HIDE DEF move, stalled, counter
  <2>9. \/ move = Says("accept", want) /\ want.price >= floor
        \/ move = Says("counter", Deal("quick", want.deadline, quick)) /\ "quick" \in d.tiers
        \/ move = counter
    BY <2>8
  <2>10. CASE move = Says("accept", want) /\ want.price >= floor
    <3>1. move.terms = want
      BY <2>10 DEF Says
    <3> QED
      BY <2>2, <2>3, <2>10, <3>1 DEF sellerMaySettle, validTermsShape, move
  <2>11. CASE move = Says("counter", Deal("quick", want.deadline, quick)) /\ "quick" \in d.tiers
    <3>1. move.terms.tier = "quick" /\ move.terms.deadline = want.deadline /\ move.terms.price = quick
      BY <2>11 DEF Says, Deal
    <3> HIDE DEF want
    <3>2. sellerMaySettle(move.terms, d)
      <4> HIDE DEF quick
      <4>1. d.floor["quick"][want.deadline] = quick
        BY DEF quick
      <4> QED
        BY <2>3, <2>4, <2>11, <3>1, <4>1 DEF sellerMaySettle, validTermsShape
    <3> QED
      BY <2>4, <3>1, <3>2 DEF move
  <2>12. CASE move = counter
    <3> DEFINE price == Conceded(log, d, d.ask[want.tier][want.deadline], floor)
    <3>1. move.terms.tier = want.tier /\ move.terms.deadline = want.deadline /\ move.terms.price = price
      BY <2>12 DEF Says, Deal, counter
    <3>2. price \in Int /\ price >= floor
      BY <2>5
    <3> HIDE DEF want, price
    <3>3. sellerMaySettle(move.terms, d)
      BY <2>3, <2>4, <3>1, <3>2 DEF sellerMaySettle, validTermsShape
    <3> QED
      BY <3>1, <3>2, <3>3 DEF move
  <2> QED
    BY <1>2, <2>9, <2>10, <2>11, <2>12 DEF move
<1> QED
  BY <1>1, <1>2

LEMMA BundleScript ==
  ASSUME NEW log, NEW d, DealOK(d), Turns(log, d), SpeakerAt(Len(log)) = "seller", d.seller = "bundle"
  PROVE  LET move == gcBundleSeller(log, d) IN
         /\ move.terms.price \in Int
         /\ d.floor["deep"][d.deadline] > 0 => move.kind = "reject" \/ sellerMaySettle(move.terms, d)
<1> DEFINE theirs == onTableFrom(log, "buyer")
           floor == d.floor["deep"][d.deadline]
           ask == RoundDiv(floor * 140, 100)
           bundle(price) == Deal("deep", d.deadline, price)
           n == Len(log)
           move == gcBundleSeller(log, d)
<1>1. n \in Nat /\ floor \in Int /\ floor >= 0 /\ d.tiers = {"deep"} /\ d.deadlines = {d.deadline}
  BY Counting, Sorts DEF Turns, DealOK
<1>2. ask \in Int /\ 100 * ask >= floor * 140 - 50
  <2> DEFINE m == floor * 140
  <2>1. m \in Int /\ ask = RoundDiv(m, 100) /\ m = floor * 140
    BY <1>1
  <2> HIDE DEF m, ask, floor
  <2> QED
    BY <2>1, RoundCent
<1>3. Conceded(log, d, ask, floor) \in Int /\ Conceded(log, d, ask, floor) >= floor
  <2> HIDE DEF ask, floor
  <2> QED
    BY <1>1, <1>2, ConcededIs DEF Turns
<1>4. theirs = NoTerms \/ theirs.price \in Int
  <2>1. CASE n < 2
    <3>1. Spoken(log, "buyer") \subseteq 1 .. n
      BY DEF Spoken
    <3>2. n = 0
      <4>1. n \in Nat /\ n % 2 = 0
        BY <1>1 DEF SpeakerAt
      <4> HIDE DEF n
      <4> QED
        BY <2>1, <4>1
    <3> QED
      BY <3>1, <3>2 DEF onTableFrom
  <2>2. CASE n >= 2
    <3>1. log[n].side = "buyer" /\ Proposal(log[n]) /\ log[n].terms.price \in Int
      <4>1. n \in 1 .. Len(log) /\ SpeakerAt(n - 1) = "buyer"
        BY <1>1, <2>2 DEF SpeakerAt
      <4> QED
        BY <4>1 DEF Turns
    <3>2. IsSeq(log) /\ n \in 1 .. Len(log) /\ \A i \in 1 .. Len(log) : i > n => ~ Proposal(log[i])
      BY <1>1, <2>2 DEF Turns
    <3>3. onTableFrom(log, log[n].side) = log[n].terms
      BY <3>1, <3>2, OnTable
    <3> QED
      BY <3>1, <3>3
  <2> QED
    BY <1>1, <2>1, <2>2
<1>5. \/ move = Reject
      \/ move = Says("offer", bundle(ask))
      \/ theirs # NoTerms /\ theirs.price >= floor /\ move = Says("accept", bundle(theirs.price))
      \/ move = Says("counter", bundle(Conceded(log, d, ask, floor)))
  BY DEF gcBundleSeller
<1> HIDE DEF move, theirs, ask, n, floor
<1>6. ASSUME NEW price \in Int, NEW kind, move = Says(kind, bundle(price)), price >= floor
      PROVE  move.terms.price \in Int /\ (floor > 0 => sellerMaySettle(move.terms, d))
  <2>1. move.terms.tier = "deep" /\ move.terms.deadline = d.deadline /\ move.terms.price = price
    BY <1>6 DEF Says, Deal
  <2> QED
    BY <1>1, <1>6, <2>1 DEF sellerMaySettle, validTermsShape, floor
<1>7. CASE move = Reject
  BY <1>7 DEF Reject, Says, NoTerms, move, floor
<1>8. ask >= floor
  BY <1>1, <1>2
<1>9. move = Reject \/ (move.terms.price \in Int /\ (floor > 0 => sellerMaySettle(move.terms, d)))
  BY <1>1, <1>2, <1>3, <1>4, <1>5, <1>6, <1>8
<1> QED
  BY <1>7, <1>9 DEF move, floor

LEMMA ScriptPasses ==
  ASSUME NEW log, NEW d, NEW side \in Sides, DealOK(d), Turns(log, d), side = SpeakerAt(Len(log)),
         (IF side = "seller" THEN d.seller ELSE d.buyer) \in {"scripted", "bundle"},
         "standard" \in d.deadlines, "deep" \in d.tiers, d.floor["deep"]["standard"] > 0
  PROVE  Scripted(side, log, d).kind = "reject" \/ MaySettle(side, Scripted(side, log, d).terms, d)
<1>1. d.buyer \in {"scripted", "llm", "any"}
  BY DEF DealOK, Bargains
<1>2. CASE side = "buyer"
  <2>1. Scripted(side, log, d) = deterministicBuyer(log, d)
    BY <1>2 DEF Scripted
  <2> QED
    BY <1>1, <1>2, <2>1, BuyerScript DEF MaySettle
<1>3. CASE side = "seller" /\ d.seller = "bundle"
  <2>1. Scripted(side, log, d) = gcBundleSeller(log, d)
    BY <1>3 DEF Scripted
  <2>2. d.floor["deep"][d.deadline] > 0
    BY <1>3 DEF DealOK
  <2> QED
    BY <1>3, <2>1, <2>2, BundleScript DEF MaySettle
<1>4. CASE side = "seller" /\ d.seller # "bundle"
  <2>1. Scripted(side, log, d) = deterministicSeller(log, d)
    BY <1>4 DEF Scripted
  <2> QED
    BY <1>4, <2>1, SellerScript DEF MaySettle
<1> QED
  BY <1>2, <1>3, <1>4 DEF Sides

\* A model's answers are priced where a guard decides.
LEMMA MoveInts ==
  ASSUME NEW log, NEW d, NEW side \in Sides, DealOK(d), Turns(log, d), side = SpeakerAt(Len(log)),
         NEW move \in PolicyMoves(side, log, d)
  PROVE  /\ move.terms.price \in Int
         /\ side = "buyer" /\ d.buyer = "scripted" /\ Proposal(move) =>
              move.terms.tier = d.tier /\ move.terms.deadline = d.deadline
<1>1. \A p \in EdgePrices(d) : p \in Int
  <2>1. d.budget \in Int /\ \A t \in d.tiers : d.floor[t]["standard"] \in Int
    BY Sorts
  <2> QED
    BY <2>1 DEF EdgePrices
<1>2. \A m \in ParsedMoves(d) : m.terms.price \in Int
  BY <1>1 DEF ParsedMoves, Says, Deal, Reject, NoTerms
<1>3. side = "buyer" /\ d.buyer # "scripted" => move \in ParsedMoves(d) \/ (d.buyer = "llm" /\ move = Scripted(side, log, d))
  BY DEF PolicyMoves, llmMoves, DealOK, Bargains
<1>4. side = "buyer" /\ d.buyer = "scripted" => move = deterministicBuyer(log, d)
  BY DEF PolicyMoves, Scripted
<1>5. side = "seller" => move \in ParsedMoves(d) \/ move = Scripted(side, log, d)
  BY DEF PolicyMoves, llmMoves
<1>6. Scripted("seller", log, d).terms.price \in Int \/ side # "seller"
  <2>1. CASE d.seller = "bundle"
    BY <2>1, BundleScript DEF Scripted
  <2>2. CASE d.seller # "bundle"
    BY <2>2, SellerScript DEF Scripted
  <2> QED
    BY <2>1, <2>2
<1>7. CASE side = "seller"
  BY <1>2, <1>5, <1>6, <1>7
<1>8. CASE side = "buyer" /\ d.buyer = "scripted"
  <2>1. move = deterministicBuyer(log, d) /\ SpeakerAt(Len(log)) = "buyer"
    BY <1>4, <1>8
  <2> QED
    BY <2>1, BuyerScript
<1>9. CASE side = "buyer" /\ d.buyer # "scripted"
  <2>1. Scripted(side, log, d) = deterministicBuyer(log, d)
    BY <1>9 DEF Scripted
  <2> QED
    BY <1>2, <1>3, <1>9, <2>1, BuyerScript
<1> QED
  BY <1>7, <1>8, <1>9 DEF Sides

-----------------------------------------------------------------------------
(* The engine again, for every bargain the repository begins on it.        *)

\* The bargains of DealWhenPossible and their like for either tier: there is
\* one tier the buyer takes, room in the budget and six turns.
Room(d) ==
  /\ d.seller = "scripted" /\ d.buyer = "scripted" /\ d.maxTurns = 6
  /\ d.acceptable = {d.tier} /\ {"standard", d.deadline} \subseteq d.deadlines /\ d.tiers = Tiers
  /\ d.floor[d.tier][d.deadline] <= d.budget

\* Their course, by what the buyer bids: o, then half way to the budget, which
\* the seller's projection carries over the floor, so that it holds out for
\* the floor and the buyer's last turn takes that.
OnCourse(log, d) ==
  LET n == Len(log) o == log[2].terms.price IN
  /\ n <= 5
  /\ n >= 4 => log[4].terms.price = o + RoundDiv(d.budget - o, 2)
  /\ n = 5 => log[5].terms = Deal(d.tier, d.deadline, d.floor[d.tier][d.deadline])

BargainInv ==
  /\ DealOK(deal)
  /\ EngineInv
  /\ outcome \in {Open, Walked} \/ outcome.result = "agreed"
  /\ outcome = Open => Turns(transcript, deal) /\ Len(transcript) < deal.maxTurns
  /\ outcome.result = "agreed" => /\ sellerMaySettle(outcome.terms, deal) /\ buyerMaySettle(outcome.terms, deal)
                                  /\ outcome.terms.price \in Int
  /\ Room(deal) => /\ outcome.result # "walked"
                   /\ outcome = Open => OnCourse(transcript, deal)

LEMMA RoomRounds ==
  ASSUME NEW log, NEW d, IsSeq(log), d.maxTurns = 6
  PROVE  IsFinal(log, d) <=> Len(log) >= 4
<1>1. Len(log) \in Nat
  BY Counting
<1>2. CeilDiv(d.maxTurns, 2) = 3
  BY DEF CeilDiv
<1> DEFINE n == Len(log)
<1>3. n \in Nat /\ RoundOf(log) = n \div 2 + 1
  BY <1>1 DEF RoundOf
<1> HIDE DEF n
<1>4. n \div 2 + 1 >= 3 <=> n >= 4
  BY <1>3
<1> QED
  BY <1>2, <1>3, <1>4 DEF IsFinal, n

\* How far the buyer could still go, at the seller's last turn.
LEMMA RoomReach ==
  ASSUME NEW log, NEW d, DealOK(d), Turns(log, d), Room(d), OnCourse(log, d), Len(log) = 4
  PROVE  projectedReach(log, "buyer") \in Int /\ projectedReach(log, "buyer") >= d.floor[d.tier][d.deadline]
<1> DEFINE S == Spoken(log, "buyer")
<1>1. \A i \in 1 .. 4 : i \in S <=> SpeakerAt(i - 1) = "buyer"
  BY DEF Turns, Spoken
<1>2. SpeakerAt(0) = "seller" /\ SpeakerAt(1) = "buyer" /\ SpeakerAt(2) = "seller" /\ SpeakerAt(3) = "buyer"
  BY DEF SpeakerAt
<1>3. S = {2, 4}
  <2>1. S \subseteq 1 .. 4
    BY DEF Spoken
  <2>2. 1 \notin S /\ 2 \in S /\ 3 \notin S /\ 4 \in S
    BY <1>1, <1>2
  <2>3. \A i \in 1 .. 4 : i = 1 \/ i = 2 \/ i = 3 \/ i = 4
    OBVIOUS
  <2> HIDE DEF S
  <2> QED
    BY <2>1, <2>2, <2>3
<1>4. Latest(S) = 4 /\ S \ {4} = {2} /\ Latest({2}) = 2
  <2>1. Latest({2, 4}) = 4
    BY LatestIs
  <2>2. Latest({2}) = 2
    BY LatestIs
  <2> HIDE DEF S
  <2> QED
    BY <1>3, <2>1, <2>2
<1> DEFINE o == log[2].terms.price
           p == log[4].terms.price
<1>5. projectedReach(log, "buyer") = p + Max2(0, p - o)
  BY <1>3, <1>4 DEF projectedReach
<1>6. o \in Int /\ p = o + RoundDiv(d.budget - o, 2) /\ o <= d.budget
  <2>1. log[2].side = "buyer" /\ o \in Int /\ MaySettle(log[2].side, log[2].terms, d)
    BY <1>2 DEF Turns
  <2>2. p = o + RoundDiv(d.budget - o, 2)
    BY DEF OnCourse
  <2>3. o <= d.budget
    BY <2>1 DEF MaySettle, buyerMaySettle
  <2> QED
    BY <2>1, <2>2, <2>3
<1>7. d.budget \in Int /\ d.floor[d.tier][d.deadline] \in Int /\ d.floor[d.tier][d.deadline] <= d.budget
  BY Sorts DEF Room
<1>8. RoundDiv(d.budget - o, 2) \in Int /\ 2 * RoundDiv(d.budget - o, 2) >= d.budget - o
  <2>1. d.budget - o \in Int
    BY <1>6, <1>7
  <2> HIDE DEF o
  <2> QED
    BY <2>1, RoundHalf
<1> HIDE DEF o, p, S
<1> QED
  BY <1>5, <1>6, <1>7, <1>8 DEF Max2

\* The seller's scripted move on course: it closes, or holds out for at least
\* the floor; on its last turn for the floor, the buyer's reach being above it.
LEMMA RoomSeller ==
  ASSUME NEW log, NEW d, DealOK(d), Turns(log, d), Room(d), OnCourse(log, d), SpeakerAt(Len(log)) = "seller"
  PROVE  LET move == deterministicSeller(log, d) n == Len(log) IN
         /\ sellerMaySettle(move.terms, d)
         /\ \/ move.kind = "accept" /\ n > 0 /\ move.terms = log[n].terms
            \/ /\ Proposal(move) /\ n < 5 /\ n # 3
               /\ n = 4 => move.terms = Deal(d.tier, d.deadline, d.floor[d.tier][d.deadline])
<1> DEFINE n == Len(log)
           want == log[n].terms
           floor == d.floor[want.tier][want.deadline]
           quick == d.floor["quick"][want.deadline]
           price == Conceded(log, d, d.ask[want.tier][want.deadline], floor)
           stalled == projectedReach(log, "buyer") < floor
           move == deterministicSeller(log, d)
<1>1. n \in Nat /\ n <= 4 /\ n # 3 /\ (log = <<>> => n = 0) /\ (n = 0 => log = <<>>)
  <2>1. n \in Nat /\ (log = <<>> => n = 0)
    BY Counting DEF Turns
  <2>2. n = 0 => log = <<>>
    BY SeqExtensional, EmptyIsSeq DEF Turns
  <2>3. n <= 5 /\ n % 2 = 0
    BY DEF OnCourse, SpeakerAt
  <2> HIDE DEF n
  <2> QED
    BY <2>1, <2>2, <2>3
<1>2. d.seller # "bundle" /\ "standard" \in d.deadlines /\ "deep" \in d.tiers
  BY DEF Room, Tiers
<1>3. move.kind # "reject" => sellerMaySettle(move.terms, d)
  BY <1>2, SellerScript
<1>4. CASE n = 0
  <2>1. move = Says("offer", Deal("deep", "standard", d.ask["deep"]["standard"]))
    BY <1>1, <1>4 DEF deterministicSeller
  <2>2. move.kind = "offer"
    BY <2>1 DEF Says
  <2> QED
    BY <1>3, <1>4, <2>2 DEF Proposal
<1>5. CASE n > 0
  <2>1. n > 0 /\ log[n].side = "buyer" /\ Proposal(log[n]) /\ log # <<>>
    <3>1. n > 0 /\ SpeakerAt(n - 1) = "buyer"
      BY <1>1, <1>5 DEF SpeakerAt
    <3> QED
      BY <1>1, <3>1 DEF Turns
  <2>2. want.tier = d.tier /\ want.deadline = d.deadline
    BY <1>1, <2>1 DEF Turns, Room
  <2>3. lastCounterpartyMove(log, "seller") = Says(log[n].kind, want)
    BY <2>1, LastMove DEF Turns
  <2>4. Says(log[n].kind, want).kind \notin {"reject", "accept"} /\ Says(log[n].kind, want).terms = want
    BY <2>1 DEF Says, Proposal
  <2>5. move = IF want.price >= floor THEN Says("accept", want)
               ELSE IF IsFinal(log, d) /\ stalled /\ want.tier = "deep" /\ "quick" \in d.tiers /\ want.price >= quick
               THEN Says("counter", Deal("quick", want.deadline, quick))
               ELSE Says("counter", Deal(want.tier, want.deadline, price))
    BY <2>1, <2>3, <2>4 DEF deterministicSeller
  <2>6. ~ (IsFinal(log, d) /\ stalled)
    <3> SUFFICES ASSUME IsFinal(log, d) PROVE ~ stalled
      OBVIOUS
    <3>1. d.maxTurns = 6 /\ IsSeq(log)
      BY DEF Room, Turns
    <3>2. n = 4
      <4>1. n >= 4
        BY <3>1, RoomRounds
      <4> HIDE DEF n
      <4> QED
        BY <1>1, <4>1
    <3>3. projectedReach(log, "buyer") >= d.floor[d.tier][d.deadline]
      BY <3>2, RoomReach
    <3>4. projectedReach(log, "buyer") \in Int /\ d.floor[d.tier][d.deadline] \in Int
      BY <3>2, RoomReach, Sorts
    <3> QED
      BY <2>2, <3>3, <3>4
  <2> HIDE DEF stalled, move
  <2>7. CASE want.price >= floor
    <3>1. move = Says("accept", want)
      BY <2>5, <2>7
    <3>2. move.kind = "accept" /\ move.terms = want
      BY <3>1 DEF Says
    <3> QED
      BY <1>3, <1>5, <3>2 DEF move
  <2>8. CASE ~(want.price >= floor)
    <3>1. move = Says("counter", Deal(want.tier, want.deadline, price))
      BY <2>5, <2>6, <2>8
    <3>2. move.kind = "counter" /\ move.terms = Deal(want.tier, want.deadline, price)
      BY <3>1 DEF Says
    <3>3. ASSUME n = 4 PROVE price = d.floor[d.tier][d.deadline]
      <4>1. IsFinal(log, d)
        BY <1>1, <3>3, RoomRounds DEF Room, Turns
      <4>2. floor = d.floor[d.tier][d.deadline]
        BY <2>2
      <4> QED
        BY <4>1, <4>2 DEF Conceded
    <3> HIDE DEF price, want
    <3>4. n = 4 => move.terms = Deal(d.tier, d.deadline, d.floor[d.tier][d.deadline])
      BY <2>2, <3>2, <3>3
    <3>5. Proposal(move) /\ n < 5 /\ n # 3 /\ sellerMaySettle(move.terms, d)
      BY <1>1, <1>3, <3>2 DEF Proposal
    <3> QED
      BY <3>4, <3>5 DEF move
  <2> QED
    BY <2>7, <2>8
<1> QED
  BY <1>1, <1>4, <1>5

LEMMA FirstBid ==
  ASSUME NEW budget \in Int, NEW ask \in Int, budget > 0, ask > 0
  PROVE  LET bid == RoundDiv(Min2(100 * budget, 65 * ask), 100) IN bid \in Int /\ bid > 0 /\ bid <= budget
<1> DEFINE m == Min2(100 * budget, 65 * ask)
<1>1. m \in Int /\ m >= 65 /\ m <= 100 * budget
  BY DEF Min2
<1> HIDE DEF m
<1>2. RoundDiv(m, 100) \in Int /\ RoundDiv(m, 100) > 0 /\ RoundDiv(m, 100) <= budget
  BY <1>1 DEF RoundDiv
<1> QED
  BY <1>2 DEF m

\* The buyer's: it bids, meets the seller half way, and takes the floor.
LEMMA RoomBuyer ==
  ASSUME NEW log, NEW d, DealOK(d), Turns(log, d), Room(d), OnCourse(log, d), SpeakerAt(Len(log)) = "buyer"
  PROVE  LET move == deterministicBuyer(log, d) n == Len(log) IN
         /\ buyerMaySettle(move.terms, d)
         /\ \/ move.kind = "accept" /\ n > 0 /\ move.terms = log[n].terms
            \/ /\ Proposal(move) /\ n < 5 /\ n # 4
               /\ n = 3 => move.terms.price = log[2].terms.price + RoundDiv(d.budget - log[2].terms.price, 2)
<1> DEFINE n == Len(log)
           asked == log[n].terms
           mine == Spoken(log, "buyer")
           bid == RoundDiv(Min2(100 * d.budget, 65 * asked.price), 100)
           opening == Deal(d.tier, d.deadline, bid)
           lastBid == log[Latest(mine)].terms.price
           next == IF IsFinal(log, d) THEN d.budget ELSE lastBid + RoundDiv(d.budget - lastBid, 2)
           settles == buyerMaySettle(asked, d)
           move == deterministicBuyer(log, d)
           last == Deal(d.tier, d.deadline, d.floor[d.tier][d.deadline])
<1>1. n \in {1, 3, 5}
  <2>1. n <= 5 /\ n % 2 = 1 /\ n \in Nat
    BY Counting DEF OnCourse, SpeakerAt, Turns
  <2> HIDE DEF n
  <2> QED
    BY <2>1
<1>2. log[n].side = "seller" /\ Proposal(log[n]) /\ asked.price \in Int /\ asked.price > 0
  <2>1. n \in 1 .. Len(log) /\ SpeakerAt(n - 1) = "seller"
    BY <1>1 DEF SpeakerAt
  <2>2. log[n].side = "seller" /\ Proposal(log[n]) /\ asked.price \in Int /\ MaySettle("seller", asked, d)
    BY <2>1 DEF Turns
  <2> QED
    BY <2>2 DEF MaySettle, sellerMaySettle, validTermsShape
<1>3. lastCounterpartyMove(log, "buyer") = Says(log[n].kind, asked)
  BY <1>1, <1>2, LastMove DEF Turns
<1>4. Says(log[n].kind, asked).kind # "reject" /\ Says(log[n].kind, asked).terms = asked
  BY <1>2 DEF Says, Proposal
<1>5. move = IF mine = {} THEN IF buyerMaySettle(opening, d) THEN Says("offer", opening) ELSE Reject
             ELSE IF settles /\ (asked.price <= next \/ asked.tier # d.tier \/ IsFinal(log, d)) THEN Says("accept", asked)
             ELSE IF IsFinal(log, d) THEN Reject
             ELSE Says("counter", Deal(d.tier, d.deadline, next))
  BY <1>3, <1>4 DEF deterministicBuyer
<1>6. move.kind # "reject" => buyerMaySettle(move.terms, d)
  BY BuyerScript DEF Room
<1>7. /\ d.budget \in Int /\ d.floor[d.tier][d.deadline] \in Int /\ d.floor[d.tier][d.deadline] <= d.budget
      /\ d.floor[d.tier][d.deadline] > 0
      /\ d.tier \in d.tiers /\ d.tier \in d.acceptable /\ d.deadline \in d.deadlines
  <2>1. d.tier \in Tiers /\ d.deadline \in Deadlines /\ d.budget \in Int /\ d.floor[d.tier][d.deadline] \in Int
    BY Sorts
  <2>2. Priced(d)
    BY DEF DealOK, Room
  <2> QED
    BY <2>1, <2>2 DEF Priced, Room
<1>8. IsFinal(log, d) <=> n >= 4
  BY RoomRounds DEF Room, Turns
<1>9. mine = {} <=> n = 1
  <2>1. "buyer" \in Sides
    BY DEF Sides
  <2>2. (n < 2 => mine = {}) /\ (n >= 2 => mine # {})
    BY <2>1, OwnLast
  <2> HIDE DEF n, mine
  <2> QED
    BY <1>1, <2>2
<1> HIDE DEF move
<1>10. CASE n = 1
  <2>1. bid \in Int /\ bid > 0 /\ bid <= d.budget
    <3>1. d.budget \in Int /\ d.budget > 0
      BY <1>7
    <3> HIDE DEF asked
    <3> QED
      BY <1>2, <3>1, FirstBid
  <2>2. buyerMaySettle(opening, d)
    <3>1. opening.tier = d.tier /\ opening.deadline = d.deadline /\ opening.price = bid
      BY DEF Deal
    <3> HIDE DEF bid, opening
    <3> QED
      BY <1>7, <2>1, <3>1 DEF buyerMaySettle, validTermsShape
  <2>3. move = Says("offer", opening)
    BY <1>5, <1>9, <1>10, <2>2
  <2>4. move.kind = "offer"
    BY <2>3 DEF Says
  <2> HIDE DEF opening
  <2> QED
    BY <1>6, <1>10, <2>4 DEF Proposal, move
<1>11. CASE n = 3
  <2>1. mine # {} /\ ~ IsFinal(log, d)
    BY <1>8, <1>9, <1>11
  <2>2. lastBid = log[2].terms.price
    <3>1. "buyer" \in Sides
      BY DEF Sides
    <3>2. n >= 2 => Latest(mine) = n - 1
      BY <3>1, OwnLast
    <3> QED
      BY <1>11, <3>2
  <2>3. next = log[2].terms.price + RoundDiv(d.budget - log[2].terms.price, 2)
    BY <2>1, <2>2
  <2> HIDE DEF mine, next, settles
  <2>4. move = Says("accept", asked) \/ move = Says("counter", Deal(d.tier, d.deadline, next))
    BY <1>5, <2>1
  <2>5. CASE move = Says("accept", asked)
    <3>1. move.kind = "accept" /\ move.terms = asked
      BY <2>5 DEF Says
    <3> QED
      BY <1>6, <1>11, <3>1 DEF move
  <2>6. CASE move = Says("counter", Deal(d.tier, d.deadline, next))
    <3>1. move.kind = "counter" /\ move.terms.price = next
      BY <2>6 DEF Says, Deal
    <3> QED
      BY <1>6, <1>11, <2>3, <3>1 DEF move, Proposal
  <2> QED
    BY <2>4, <2>5, <2>6
<1>12. CASE n = 5
  <2>1. mine # {} /\ IsFinal(log, d) /\ asked = last
    BY <1>8, <1>9, <1>12 DEF OnCourse
  <2>2. settles
    <3>1. last.tier = d.tier /\ last.deadline = d.deadline /\ last.price = d.floor[d.tier][d.deadline]
      BY DEF Deal
    <3> HIDE DEF last, asked
    <3> QED
      BY <1>7, <2>1, <3>1 DEF buyerMaySettle, validTermsShape
  <2>3. move = Says("accept", asked)
    BY <1>5, <2>1, <2>2
  <2>4. move.kind = "accept" /\ move.terms = asked
    BY <2>3 DEF Says
  <2> QED
    BY <1>6, <1>12, <2>4 DEF move
<1> QED
  BY <1>1, <1>10, <1>11, <1>12

\* What a turn does to the transcript and the result, while all before it are
\* proposals: an accept binds to the terms of the turn before.
EngineTurns(turn) ==
  LET n == Len(transcript) t == transcript[n].terms IN
  /\ outcome = Open /\ n \in Nat /\ deal' = deal
  /\ IsSeq(transcript') /\ Len(transcript') = n + 1 /\ transcript'[n + 1] = turn
  /\ \A i \in 1 .. n : transcript'[i] = transcript[i]
  /\ turn.kind = "reject" => outcome' = Walked
  /\ turn.kind = "accept" => outcome' = IF n > 0 /\ sellerMaySettle(t, deal) /\ buyerMaySettle(t, deal)
                                        THEN Agreed(t) ELSE Walked
  /\ Proposal(turn) => outcome' = IF n + 1 >= deal.maxTurns THEN Walked ELSE Open

LEMMA EngineTurnIs ==
  ASSUME BargainInv, NEW side \in Sides, NEW move \in PolicyMoves(side, transcript, deal), TakeTurn(side, move)
  PROVE  LET said == guardEmittedMove(side, move) IN
         /\ side = SpeakerAt(Len(transcript))
         /\ said.kind \in Kinds
         /\ EngineTurns([side |-> side, kind |-> said.kind, terms |-> said.terms])
<1> DEFINE n == Len(transcript)
           said == guardEmittedMove(side, move)
           turn == [side |-> side, kind |-> said.kind, terms |-> said.terms]
           table == onTableFrom(transcript', Other(side))
           t == transcript[n].terms
<1>1. /\ outcome = Open /\ side = ToMove /\ deal' = deal
      /\ transcript' = Append(transcript, turn) /\ outcome' = Closing(transcript', side)
  BY DEF TakeTurn
<1>2. said.kind \in Kinds
  BY PolicyKinds DEF guardEmittedMove, Reject, Says, Kinds
<1>3. /\ n \in Nat /\ IsSeq(transcript') /\ Len(transcript') = n + 1 /\ transcript'[n + 1] = turn
      /\ \A i \in 1 .. n : transcript'[i] = transcript[i]
  <2> HIDE DEF turn
  <2> QED
    BY <1>1, AppendIsSeq DEF BargainInv, EngineInv
<1>4. side = SpeakerAt(n) /\ turn.side = side /\ turn.kind = said.kind
  BY <1>1 DEF ToMove, SpeakerAt
<1>5. Turns(transcript, deal)
  BY <1>1 DEF BargainInv
<1>6. transcript'[Len(transcript')].kind = turn.kind
  BY <1>3
<1>7. ASSUME turn.kind = "accept"
      PROVE  outcome' = IF n > 0 /\ sellerMaySettle(t, deal) /\ buyerMaySettle(t, deal)
                        THEN Agreed(t) ELSE Walked
  <2>1. outcome' = IF table # NoTerms /\ sellerMaySettle(table, deal) /\ buyerMaySettle(table, deal)
                   THEN Agreed(table) ELSE Walked
    <3> HIDE DEF turn, table
    <3> QED
      BY <1>1, <1>6, <1>7 DEF Closing, table
  <2>2. ~ Proposal(transcript'[n + 1])
    BY <1>3, <1>7 DEF Proposal
  <2>3. CASE n = 0
    <3>1. Len(transcript') = 1 /\ ~ Proposal(transcript'[1])
      BY <1>3, <2>2, <2>3
    <3>2. table = NoTerms
      BY <3>1 DEF onTableFrom, Spoken
    <3> QED
      BY <2>1, <2>3, <3>2
  <2>4. CASE n > 0
    <3>1. Proposal(transcript[n]) /\ transcript[n].side = SpeakerAt(n - 1) /\ MaySettle(transcript[n].side, t, deal)
      BY <1>3, <1>5, <2>4 DEF Turns
    <3>2. SpeakerAt(n - 1) = Other(side)
      BY <1>3, <1>4, <2>4 DEF SpeakerAt, Other
    <3>3. transcript'[n] = transcript[n]
      BY <1>3, <2>4
    <3>4. /\ n \in 1 .. Len(transcript') /\ Proposal(transcript'[n]) /\ transcript'[n].side = Other(side)
          /\ \A i \in 1 .. Len(transcript') : i > n => ~ Proposal(transcript'[i])
      BY <1>3, <2>2, <2>4, <3>1, <3>2, <3>3
    <3>5. table = t
      <4> HIDE DEF n
      <4>1. onTableFrom(transcript', transcript'[n].side) = transcript'[n].terms
        BY <1>3, <3>4, OnTable
      <4> QED
        BY <3>3, <3>4, <4>1
    <3>6. t # NoTerms
      BY <3>1 DEF MaySettle, sellerMaySettle, buyerMaySettle, validTermsShape, NoTerms
    <3> HIDE DEF table, t
    <3> QED
      BY <2>1, <2>4, <3>5, <3>6
  <2> QED
    BY <1>3, <2>3, <2>4
<1>8. turn.kind = "reject" => outcome' = Walked
  <2> HIDE DEF turn
  <2> QED
    BY <1>1, <1>6 DEF Closing
<1>9. Proposal(turn) => outcome' = IF n + 1 >= deal.maxTurns THEN Walked ELSE Open
  <2> HIDE DEF turn
  <2> QED
    BY <1>1, <1>3, <1>6 DEF Closing, Proposal
<1> HIDE DEF turn
<1> QED
  BY <1>1, <1>2, <1>3, <1>4, <1>7, <1>8, <1>9 DEF EngineTurns, turn

LEMMA EngineTurnKeeps ==
  ASSUME BargainInv, NEW side \in Sides, NEW move \in PolicyMoves(side, transcript, deal), TakeTurn(side, move)
  PROVE  BargainInv'
<1> DEFINE n == Len(transcript)
           said == guardEmittedMove(side, move)
           turn == [side |-> side, kind |-> said.kind, terms |-> said.terms]
           t == transcript[n].terms
<1>1. side = SpeakerAt(n) /\ said.kind \in Kinds /\ EngineTurns(turn)
  BY EngineTurnIs
<1>2. turn.side = side /\ turn.kind = said.kind /\ turn.terms = said.terms
  OBVIOUS
<1>3. DealOK(deal) /\ Turns(transcript, deal) /\ deal' = deal /\ n \in Nat /\ deal.maxTurns \in Nat
  BY <1>1, Sorts DEF BargainInv, EngineTurns
<1>4. EngineInv'
  BY TurnKeeps DEF BargainInv
<1>5. said.terms.price \in Int
  BY <1>1, <1>3, MoveInts DEF guardEmittedMove, Reject, Says, NoTerms
<1>6. said.kind = "reject" \/ (said = move /\ MaySettle(side, said.terms, deal))
  BY DEF guardEmittedMove, Reject, Says
<1>7. side = "buyer" /\ deal.buyer = "scripted" /\ Proposal(turn) =>
        turn.terms.tier = deal.tier /\ turn.terms.deadline = deal.deadline
  <2>1. Proposal(turn) => Proposal(said) /\ said = move
    BY <1>6 DEF Proposal
  <2>2. side = "buyer" /\ deal.buyer = "scripted" /\ Proposal(move) =>
          move.terms.tier = deal.tier /\ move.terms.deadline = deal.deadline
    <3>1. side = "buyer" /\ deal.buyer = "scripted" => move = deterministicBuyer(transcript, deal)
      BY DEF PolicyMoves, Scripted
    <3>2. DealOK(deal) /\ Turns(transcript, deal)
      BY <1>3
    <3>3. side = "buyer" => SpeakerAt(Len(transcript)) = "buyer"
      BY <1>1
    <3> HIDE DEF n, said, turn, t
    <3>4. ASSUME side = "buyer", deal.buyer = "scripted", Proposal(move)
          PROVE  move.terms.tier = deal.tier /\ move.terms.deadline = deal.deadline
      <4> DEFINE m == deterministicBuyer(transcript, deal)
      <4>1. Proposal(m) => m.terms.tier = deal.tier /\ m.terms.deadline = deal.deadline
        BY <3>2, <3>3, <3>4, BuyerScript
      <4>2. move = m
        BY <3>1, <3>4
      <4> HIDE DEF m
      <4> QED
        BY <3>4, <4>1, <4>2
    <3> QED
      BY <3>4
  <2> HIDE DEF turn, said
  <2> QED
    BY <1>2, <2>1, <2>2
<1>8. DealOK(deal')
  BY <1>3
<1> HIDE DEF turn, said
<1>9. outcome' = Open => Proposal(turn) /\ ~(n + 1 >= deal.maxTurns)
  BY <1>1, <1>2 DEF EngineTurns, Kinds, Proposal, Open, Walked, Agreed
<1>10. ASSUME outcome' = Open PROVE Turns(transcript', deal) /\ Len(transcript') < deal.maxTurns
  <2>1. /\ IsSeq(transcript') /\ Len(transcript') = n + 1 /\ transcript'[n + 1] = turn
        /\ \A i \in 1 .. n : transcript'[i] = transcript[i]
    BY <1>1 DEF EngineTurns
  <2>2. Proposal(turn) /\ said.kind # "reject"
    BY <1>2, <1>9, <1>10 DEF Proposal
  <2> DEFINE OK(x, i) == /\ x.side = SpeakerAt(i - 1) /\ Proposal(x)
                         /\ x.terms.price \in Int /\ MaySettle(x.side, x.terms, deal)
                         /\ deal.buyer = "scripted" /\ x.side = "buyer" =>
                              x.terms.tier = deal.tier /\ x.terms.deadline = deal.deadline
  <2>3. OK(turn, n + 1)
    BY <1>1, <1>2, <1>3, <1>5, <1>6, <1>7, <2>2
  <2>4. \A i \in 1 .. n : OK(transcript[i], i)
    BY <1>3 DEF Turns
  <2> HIDE DEF OK
  <2>5. \A i \in 1 .. n + 1 : OK(transcript'[i], i)
    <3> SUFFICES ASSUME NEW i \in 1 .. n + 1 PROVE OK(transcript'[i], i)
      OBVIOUS
    <3>1. CASE i = n + 1
      BY <2>1, <2>3, <3>1
    <3>2. CASE i # n + 1
      <4>1. i \in 1 .. n
        BY <1>3, <3>2
      <4> QED
        BY <2>1, <2>4, <4>1
    <3> QED
      BY <3>1, <3>2
  <2>6. Turns(transcript', deal)
    BY <2>1, <2>5 DEF Turns, OK
  <2> HIDE DEF n
  <2> QED
    BY <1>3, <1>9, <1>10, <2>1, <2>6
<1>11. ASSUME outcome'.result = "agreed"
       PROVE  sellerMaySettle(outcome'.terms, deal) /\ buyerMaySettle(outcome'.terms, deal) /\ outcome'.terms.price \in Int
  <2>1. n > 0 /\ sellerMaySettle(t, deal) /\ buyerMaySettle(t, deal) /\ outcome' = Agreed(t)
    BY <1>1, <1>2, <1>11 DEF EngineTurns, Kinds, Proposal, Open, Walked
  <2>2. t.price \in Int
    BY <1>3, <2>1 DEF Turns
  <2>3. outcome'.terms = t
    BY <2>1 DEF Agreed
  <2> HIDE DEF t
  <2> QED
    BY <2>1, <2>2, <2>3
<1>12. ASSUME Room(deal) PROVE outcome'.result # "walked" /\ (outcome' = Open => OnCourse(transcript', deal))
  <2>1. OnCourse(transcript, deal) /\ deal.maxTurns = 6 /\ n <= 5
    <3>1. outcome = Open
      BY <1>1 DEF EngineTurns
    <3>2. OnCourse(transcript, deal)
      BY <1>12, <3>1 DEF BargainInv
    <3> QED
      BY <1>12, <3>2 DEF OnCourse, Room
  <2>2. move = Scripted(side, transcript, deal)
    BY <1>12 DEF PolicyMoves, Room
  <2> DEFINE last == Deal(deal.tier, deal.deadline, deal.floor[deal.tier][deal.deadline])
             half == transcript[2].terms.price + RoundDiv(deal.budget - transcript[2].terms.price, 2)
  <2>3. /\ MaySettle(side, move.terms, deal)
        /\ \/ move.kind = "accept" /\ n > 0 /\ move.terms = t
           \/ /\ Proposal(move) /\ n < 5
              /\ n = 3 => move.terms.price = half
              /\ n = 4 => move.terms = last
    <3>1. CASE side = "seller"
      <4>1. move = deterministicSeller(transcript, deal)
        BY <1>12, <2>2, <3>1 DEF Scripted, Room
      <4> QED
        BY <1>1, <1>3, <1>12, <2>1, <3>1, <4>1, RoomSeller DEF MaySettle
    <3>2. CASE side = "buyer"
      <4>1. move = deterministicBuyer(transcript, deal)
        BY <2>2, <3>2 DEF Scripted
      <4> QED
        BY <1>1, <1>3, <1>12, <2>1, <3>2, <4>1, RoomBuyer DEF MaySettle
    <3> QED
      BY <3>1, <3>2 DEF Sides
  <2>4. said = move
    BY <2>3 DEF said, guardEmittedMove
  <2> HIDE DEF last, half
  <2>5. CASE move.kind = "accept" /\ n > 0 /\ move.terms = t
    <3>1. sellerMaySettle(t, deal) /\ buyerMaySettle(t, deal)
      <4>1. n \in 1 .. Len(transcript) /\ SpeakerAt(n - 1) \in Sides /\ SpeakerAt(n - 1) # side
        <5>1. n - 1 \in Nat /\ n \in 1 .. Len(transcript) /\ n - 1 + 1 = n
          BY <1>3, <2>5
        <5>2. SpeakerAt(n - 1) \in Sides /\ SpeakerAt(n - 1 + 1) = Other(SpeakerAt(n - 1))
          BY <5>1, Alternate
        <5> HIDE DEF n
        <5>3. SpeakerAt(n) = Other(SpeakerAt(n - 1))
          BY <5>1, <5>2
        <5> QED
          BY <1>1, <5>1, <5>2, <5>3, Alternate
      <4>2. MaySettle(SpeakerAt(n - 1), t, deal) /\ MaySettle(side, t, deal)
        BY <1>3, <2>3, <2>5, <4>1 DEF Turns
      <4> HIDE DEF n, t
      <4> QED
        BY <4>1, <4>2 DEF MaySettle, Sides
    <3>2. turn.kind = "accept"
      BY <1>2, <2>4, <2>5
    <3>3. outcome' = Agreed(t)
      BY <1>1, <2>5, <3>1, <3>2 DEF EngineTurns
    <3> QED
      BY <3>3 DEF Agreed, Open
  <2>6. CASE Proposal(move) /\ n < 5 /\ (n = 3 => move.terms.price = half) /\ (n = 4 => move.terms = last)
    <3>1. Proposal(turn) /\ turn.terms = move.terms
      BY <1>2, <2>4, <2>6 DEF Proposal
    <3>2. outcome' = Open
      <4>1. ~(n + 1 >= deal.maxTurns)
        BY <1>3, <2>1, <2>6
      <4> QED
        BY <1>1, <3>1, <4>1 DEF EngineTurns
    <3>3. /\ Len(transcript') = n + 1 /\ transcript'[n + 1] = turn
          /\ \A i \in 1 .. n : transcript'[i] = transcript[i]
      BY <1>1 DEF EngineTurns
    <3>4. n + 1 >= 4 => transcript'[4].terms.price = transcript'[2].terms.price + RoundDiv(deal.budget - transcript'[2].terms.price, 2)
      <4>1. n >= 3 => transcript'[2] = transcript[2]
        BY <1>3, <3>3
      <4>2. n = 3 => transcript'[4].terms.price = half
        BY <2>6, <3>1, <3>3
      <4>3. n = 4 => transcript'[4] = transcript[4] /\ transcript[4].terms.price = half
        BY <2>1, <3>3 DEF OnCourse, half
      <4>4. n + 1 >= 4 => n = 3 \/ n = 4
        <5> HIDE DEF n
        <5> QED
          BY <1>3, <2>6
      <4> HIDE DEF n
      <4> QED
        BY <1>3, <4>1, <4>2, <4>3, <4>4 DEF half
    <3>5. n + 1 = 5 => transcript'[5].terms = last
      <4>1. n = 4 => transcript'[5].terms = last
        BY <2>6, <3>1, <3>3
      <4> HIDE DEF n
      <4> QED
        BY <1>3, <4>1
    <3>6. n + 1 <= 5
      <4> HIDE DEF n
      <4> QED
        BY <1>3, <2>6
    <3>7. OnCourse(transcript', deal)
      BY <3>3, <3>4, <3>5, <3>6 DEF OnCourse, last
    <3> QED
      BY <3>2, <3>7 DEF Open
  <2> QED
    BY <2>3, <2>5, <2>6
<1>13. outcome' \in {Open, Walked} \/ outcome'.result = "agreed"
  BY <1>1, <1>2 DEF EngineTurns, Kinds, Proposal, Agreed
<1> QED
  BY <1>3, <1>4, <1>8, <1>10, <1>11, <1>12, <1>13 DEF BargainInv

LEMMA EngineThrowKeeps ==
  ASSUME BargainInv, NEW side \in Sides, PolicyThrows(side)
  PROVE  BargainInv'
<1>1. outcome' = Walked /\ deal' = deal /\ transcript' = transcript /\ (deal.seller = "any" \/ deal.buyer = "any")
  BY DEF PolicyThrows
<1>2. ~ Room(deal)
  BY <1>1 DEF Room
<1>3. EngineInv'
  BY <1>1 DEF BargainInv, EngineInv, SoundDeal, Walked, Open
<1> QED
  BY <1>1, <1>2, <1>3 DEF BargainInv, Walked, Open

LEMMA EngineStep ==
  ASSUME BargainInv, NegNext
  PROVE  BargainInv'
BY EngineTurnKeeps, EngineThrowKeeps DEF NegNext

\* A bargain may be begun on any deal, whatever became of the one before.
LEMMA BargainBegun ==
  ASSUME NEW d, DealOK(d), Begin(d)
  PROVE  BargainInv' /\ deal' = d
<1>1. deal' = d /\ transcript' = <<>> /\ outcome' = Open /\ Len(transcript') = 0
  BY DEF Begin
<1>2. Turns(transcript', deal')
  BY <1>1, EmptyIsSeq DEF Turns
<1>3. EngineInv'
  BY <1>1, EmptyIsSeq DEF EngineInv, SoundDeal, Open
<1>4. OnCourse(transcript', deal')
  BY <1>1 DEF OnCourse
<1>5. Len(transcript') < d.maxTurns
  BY <1>1, Sorts
<1>6. outcome'.result = "open"
  BY <1>1 DEF Open
<1> QED
  BY <1>1, <1>2, <1>3, <1>4, <1>5, <1>6 DEF BargainInv

LEMMA BargainStill ==
  ASSUME BargainInv, UNCHANGED negVars
  PROVE  BargainInv'
<1>1. deal' = deal /\ transcript' = transcript /\ outcome' = outcome
  BY DEF negVars
<1>2. EngineInv'
  BY <1>1 DEF BargainInv, EngineInv, SoundDeal
<1> QED
  BY <1>1, <1>2 DEF BargainInv

LEMMA BargainStart ==
  ASSUME DealOK(deal), transcript = <<>>, outcome = Open \/ (outcome = Walked /\ ~ Room(deal))
  PROVE  BargainInv
<1>1. Len(transcript) = 0
  OBVIOUS
<1>2. Turns(transcript, deal)
  BY <1>1, EmptyIsSeq DEF Turns
<1>3. EngineInv
  BY <1>1, EmptyIsSeq DEF EngineInv, SoundDeal, Open, Walked
<1>4. OnCourse(transcript, deal)
  BY <1>1 DEF OnCourse
<1>5. Len(transcript) < deal.maxTurns
  BY <1>1, Sorts
<1> QED
  BY <1>1, <1>2, <1>3, <1>4, <1>5 DEF BargainInv, Open, Walked

\* What follows from the invariant about any bargain of the engine.
LEMMA BargainHolds ==
  ASSUME BargainInv
  PROVE  SoundDeal /\ DealWhenPossible /\ ScriptMindsItsGuard
<1>1. SoundDeal
  BY DEF BargainInv, EngineInv
<1>2. DealWhenPossible
  <2> SUFFICES ASSUME outcome.result = "walked", deal.seller = "scripted", deal.buyer = "scripted", deal.maxTurns = 6,
                      deal.acceptable = {"deep"}, deal.tier = "deep",
                      {"standard", deal.deadline} \subseteq deal.deadlines, deal.tiers = Tiers
               PROVE  deal.budget < deal.floor["deep"][deal.deadline]
    BY DEF DealWhenPossible
  <2>1. ~ Room(deal)
    BY DEF BargainInv
  <2>2. deal.budget \in Int /\ deal.floor["deep"][deal.deadline] \in Int
    BY Sorts DEF BargainInv
  <2> QED
    BY <2>1, <2>2 DEF Room
<1>3. ScriptMindsItsGuard
  <2> SUFFICES ASSUME outcome = Open, (IF ToMove = "seller" THEN deal.seller ELSE deal.buyer) \in {"scripted", "bundle"},
                      "standard" \in deal.deadlines, "deep" \in deal.tiers, deal.floor["deep"]["standard"] > 0
               PROVE  LET move == Scripted(ToMove, transcript, deal) IN move.kind = "reject" \/ MaySettle(ToMove, move.terms, deal)
    BY DEF ScriptMindsItsGuard
  <2>1. DealOK(deal) /\ Turns(transcript, deal)
    BY DEF BargainInv
  <2>2. ToMove \in Sides /\ ToMove = SpeakerAt(Len(transcript))
    BY DEF ToMove, SpeakerAt, Sides
  <2> QED
    BY <2>1, <2>2, ScriptPasses
<1> QED
  BY <1>1, <1>2, <1>3

-----------------------------------------------------------------------------
(* The session over a relay that has done nothing wrong so far. Then there *)
(* is at most one envelope on its way to an end, the one with the turn the *)
(* end is waiting for, so every result is what a turn has led to, and with *)
(* two scripted policies the turns are the engine's.                       *)

Played(log, d) == \A n \in 1 .. Len(log) : log[n] = EngineTurn([i \in 1 .. n - 1 |-> log[i]], d)

OneLetter(s) ==
  /\ Len(inbox[s]) <= 1
  /\ Len(inbox[s]) = 1 => flight[s] = {}
  /\ \A e \in flight[s] : flight[s] = {e}

SmoothTalk ==
  /\ SessInv
  /\ \A s \in Sides :
       /\ ended[s] # Thrown
       /\ ended[s] # Pending => Len(heard[s]) > 0 /\ AfterTurn(s, heard[s]) = ended[s]
       /\ OneLetter(s)
       /\ \A env \in Mail(s) : env.seq = Len(heard[s]) + 1 /\ env.seq = Len(heard[Other(s)])
       /\ talk.seller = "scripted" /\ talk.buyer = "scripted" => Played(heard[s], talk)

SmoothInv == smooth => SmoothTalk

LEMMA WholeIs ==
  ASSUME NEW x, IsSeq(x)
  PROVE  x = [i \in 1 .. Len(x) |-> x[i]]
<1> DEFINE S == {x[i] : i \in DOMAIN x}
<1>1. x \in Seq(S)
  BY DEF IsSeq
<1> HIDE DEF S
<1> QED
  BY <1>1

\* A scripted policy accepts exactly what is in front of it.
LEMMA ScriptAccepts ==
  ASSUME NEW log, NEW d, NEW side \in Sides, IsSeq(log), d.seller = "scripted",
         Len(log) > 0 => Proposal(log[Len(log)]) /\ log[Len(log)].side # side,
         side = "buyer" => Len(log) > 0,
         Scripted(side, log, d).kind = "accept"
  PROVE  Len(log) > 0 /\ Scripted(side, log, d).terms = log[Len(log)].terms
<1> DEFINE t == log[Len(log)].terms
           k == log[Len(log)].kind
<1>1. Len(log) \in Nat /\ (Len(log) = 0 => log = <<>>)
  <2>1. Len(log) \in Nat /\ Len(<<>>) = 0
    BY Counting
  <2> QED
    BY SeqExtensional, EmptyIsSeq, <2>1
<1>2. Len(log) > 0 => lastCounterpartyMove(log, side) = Says(k, t) /\ k # "reject" /\ k # "accept"
  BY LastMove DEF Proposal
<1>3. Says(k, t).kind = k /\ Says(k, t).terms = t
  BY DEF Says
<1>4. CASE side = "buyer"
  <2>1. Scripted(side, log, d) = deterministicBuyer(log, d)
    BY <1>4 DEF Scripted
  <2> DEFINE last == lastCounterpartyMove(log, "buyer")
             mine == Spoken(log, "buyer")
             opening == Deal(d.tier, d.deadline, RoundDiv(Min2(100 * d.budget, 65 * last.terms.price), 100))
             lastBid == log[Latest(mine)].terms.price
             next == IF IsFinal(log, d) THEN d.budget ELSE lastBid + RoundDiv(d.budget - lastBid, 2)
             good == buyerMaySettle(opening, d)
             takes == buyerMaySettle(last.terms, d) /\ (last.terms.price <= next \/ last.terms.tier # d.tier \/ IsFinal(log, d))
             bid == Deal(d.tier, d.deadline, next)
  <2>2. Scripted(side, log, d) = IF last.kind = "reject" THEN Reject
                                 ELSE IF mine = {} THEN IF good THEN Says("offer", opening) ELSE Reject
                                 ELSE IF takes THEN Says("accept", last.terms)
                                 ELSE IF IsFinal(log, d) THEN Reject
                                 ELSE Says("counter", bid)
    BY <2>1 DEF deterministicBuyer
  <2> HIDE DEF t, k, last, opening, takes, good, bid, mine
  <2>3. Scripted(side, log, d).terms = last.terms
    BY <2>2 DEF Says, Reject
  <2> QED
    BY <1>1, <1>2, <1>3, <1>4, <2>3 DEF last, t
<1>5. CASE side = "seller"
  <2>1. Scripted(side, log, d) = deterministicSeller(log, d)
    BY <1>5 DEF Scripted
  <2>2. log # <<>>
    BY <2>1 DEF deterministicSeller, Says
  <2> HIDE DEF t, k
  <2> QED
    BY <1>1, <1>2, <1>3, <1>5, <2>1, <2>2 DEF deterministicSeller, Says, Reject, t
<1> QED
  BY <1>4, <1>5 DEF Sides

\* So checking the table instead of the words makes no difference to it.
LEMMA NettedIsEngine ==
  ASSUME SessInv, NEW side \in Sides, ended[side] = Pending, MyTurn(side),
         talk.seller = "scripted", talk.buyer = "scripted",
         NEW move \in PolicyMoves(side, heard[side], talk)
  PROVE  LET said == Netted(side, move) IN
         [side |-> side, kind |-> said.kind, terms |-> said.terms] = EngineTurn(heard[side], talk)
<1> DEFINE log == heard[side]
           n == Len(log)
           table == onTableFrom(log, Other(side))
<1>1. move = Scripted(side, log, talk)
  BY DEF PolicyMoves
<1>2. IsSeq(log) /\ n \in Nat /\ LogOK(log, talk) /\ Going(side)
  BY Counting DEF SessInv, Shape, Logs
<1>3. SpeakerAt(n) = side
  BY SaidOK
<1>4. n > 0 => Proposal(log[n])
  BY <1>2 DEF Going
<1>5. n > 0 => log[n].side = Other(side)
  <2>1. n > 0 => TurnOK(log, n - 1, log[n], talk)
    BY <1>2 DEF LogOK
  <2>2. n > 0 => SpeakerAt(n) = Other(SpeakerAt(n - 1)) /\ SpeakerAt(n - 1) \in Sides
    <3>1. n > 0 => n - 1 \in Nat /\ (n - 1) + 1 = n
      BY <1>2
    <3>2. n > 0 => SpeakerAt(n - 1 + 1) = Other(SpeakerAt(n - 1)) /\ SpeakerAt(n - 1) \in Sides
      BY <3>1, Alternate
    <3> QED
      BY <3>1, <3>2
  <2> QED
    BY <1>3, <2>1, <2>2, Peer DEF TurnOK
<1>6. move.kind = "accept" => n > 0 /\ move.terms = log[n].terms
  <2>1. side = "buyer" => n > 0
    <3>1. SpeakerAt(0) = "seller"
      BY DEF SpeakerAt
    <3> HIDE DEF n
    <3> QED
      BY <1>2, <1>3, <3>1
  <2>2. n > 0 => log[n].side # side
    BY <1>5, Peer
  <2> QED
    BY <1>1, <1>2, <1>4, <2>1, <2>2, ScriptAccepts
<1>7. n > 0 => table = log[n].terms
  <2>1. ASSUME n > 0 PROVE n \in 1 .. Len(log) /\ \A i \in 1 .. Len(log) : i > n => ~ Proposal(log[i])
    BY <1>2, <2>1
  <2>2. ASSUME n > 0 PROVE onTableFrom(log, log[n].side) = log[n].terms
    BY <1>2, <1>4, <2>1, <2>2, OnTable
  <2> QED
    BY <1>5, <2>2
<1>8. \A t : MaySettle(side, t, talk) => t # NoTerms
  BY DEF MaySettle, sellerMaySettle, buyerMaySettle, validTermsShape, NoTerms
<1>9. Netted(side, move) = IF move.kind = "reject" \/ MaySettle(side, move.terms, talk) THEN move ELSE Reject
  <2> HIDE DEF n, table
  <2>1. move.kind = "accept" => table = move.terms
    BY <1>6, <1>7
  <2> QED
    BY <1>8, <2>1 DEF Netted, table
<1>10. side = IF n % 2 = 0 THEN "seller" ELSE "buyer"
  BY <1>3 DEF SpeakerAt
<1> QED
  BY <1>1, <1>9, <1>10 DEF EngineTurn

LEMMA PlayedMore ==
  ASSUME NEW log, NEW d, NEW turn, IsSeq(log), Played(log, d), turn = EngineTurn(log, d)
  PROVE  Played(Append(log, turn), d)
<1> DEFINE now == Append(log, turn)
           n == Len(log)
<1>1. n \in Nat /\ Len(now) = n + 1 /\ now[n + 1] = turn /\ \A i \in 1 .. n : now[i] = log[i]
  BY AppendIsSeq
<1> SUFFICES ASSUME NEW k \in 1 .. n + 1 PROVE now[k] = EngineTurn([i \in 1 .. k - 1 |-> now[i]], d)
  BY <1>1 DEF Played
<1>2. [i \in 1 .. k - 1 |-> now[i]] = [i \in 1 .. k - 1 |-> log[i]]
  BY <1>1
<1>3. CASE k = n + 1
  <2>1. [i \in 1 .. k - 1 |-> log[i]] = log
    <3>1. k - 1 = n
      BY <1>1, <1>3
    <3>2. [i \in 1 .. n |-> log[i]] = log
      BY WholeIs
    <3> HIDE DEF n
    <3> QED
      BY <3>1, <3>2
  <2> HIDE DEF now
  <2> QED
    BY <1>1, <1>2, <1>3, <2>1
<1>4. CASE k # n + 1
  <2>1. k \in 1 .. n
    BY <1>1, <1>4
  <2> HIDE DEF now
  <2> QED
    BY <1>1, <1>2, <2>1 DEF Played
<1> QED
  BY <1>3, <1>4

\* An end whose turn it is to speak has no envelope before it, and its last
\* one has been opened.
LEMMA NoMail ==
  ASSUME SmoothTalk, NEW s \in Sides, SpeakerAt(Len(heard[s])) = s
  PROVE  Mail(s) = {} /\ Mail(Other(s)) = {}
<1> DEFINE o == Other(s)
           n == Len(heard[s])
           m == Len(heard[o])
<1>1. n \in Nat /\ m \in Nat /\ o \in Sides /\ o # s /\ Other(o) = s /\ LogOK(heard[s], talk) /\ LogOK(heard[o], talk)
  BY Peer, Counting DEF SmoothTalk, SessInv, Shape, Logs
<1>2. ASSUME NEW e \in Mail(s) PROVE FALSE
  <2>1. e.seq = n + 1 /\ e.seq = m
    BY DEF SmoothTalk
  <2>2. heard[o][m] = TurnOf(e) /\ e.sender = o
    <3>1. EnvOK(s, e) /\ ended[o] # Thrown
      BY <1>1 DEF SmoothTalk, SessInv, Envelopes
    <3> QED
      BY <1>1, <2>1, <3>1 DEF EnvOK
  <2>3. heard[o][m].side = SpeakerAt(m - 1)
    BY <1>1, <2>1 DEF LogOK, TurnOK
  <2>4. m - 1 = n
    BY <1>1, <2>1
  <2> QED
    BY <1>1, <2>2, <2>3, <2>4 DEF TurnOf
<1>3. ASSUME NEW e \in Mail(o) PROVE FALSE
  <2>1. e.seq = m + 1 /\ e.seq = n
    BY <1>1 DEF SmoothTalk
  <2>2. heard[s][n] = TurnOf(e) /\ e.sender = s
    <3>1. EnvOK(o, e) /\ ended[s] # Thrown
      BY <1>1 DEF SmoothTalk, SessInv, Envelopes
    <3> QED
      BY <1>1, <2>1, <3>1 DEF EnvOK
  <2>3. heard[s][n].side = SpeakerAt(n - 1)
    BY <1>1, <2>1 DEF LogOK, TurnOK
  <2>4. SpeakerAt(n - 1) = s /\ SpeakerAt(n - 1 + 1) = Other(SpeakerAt(n - 1)) /\ n - 1 + 1 = n
    <3>1. n - 1 \in Nat /\ n - 1 + 1 = n
      BY <1>1, <2>1
    <3> QED
      BY <2>2, <2>3, <3>1, Alternate DEF TurnOf
  <2> QED
    BY <1>1, <2>4
<1> QED
  BY <1>2, <1>3

LEMMA NeverThrown ==
  ASSUME NEW side, NEW log
  PROVE  AfterTurn(side, log) # Thrown
BY DEF AfterTurn, settleFromAccept, Gone, Settled, Pending, Thrown

\* Both transcripts are as long when an end is to speak.
LEMMA InStep ==
  ASSUME SmoothTalk, NEW side \in Sides, SpeakerAt(Len(heard[side])) = side
  PROVE  Len(heard[Other(side)]) = Len(heard[side])
<1> DEFINE o == Other(side)
           n == Len(heard[side])
           m == Len(heard[o])
<1>1. n \in Nat /\ m \in Nat /\ o \in Sides /\ o # side /\ Other(o) = side /\ Lag(side) /\ Lag(o)
      /\ ended[o] # Thrown /\ ended[side] # Thrown
  BY Peer, Counting DEF SmoothTalk, SessInv, Shape
<1>2. ~(m > n)
  BY <1>1 DEF Lag
<1>3. ~(n > m)
  <2> SUFFICES ASSUME n > m PROVE FALSE
    OBVIOUS
  <2>1. SpeakerAt(m) = side /\ n = m + 1
    BY <1>1 DEF Lag
  <2>2. SpeakerAt(m + 1) = Other(SpeakerAt(m))
    BY <1>1, Alternate
  <2> QED
    BY <1>1, <2>1, <2>2
<1> QED
  BY <1>1, <1>2, <1>3

LEMMA EmptyMail ==
  ASSUME NEW s, Mail(s) = {}, IsSeq(inbox[s])
  PROVE  flight[s] = {} /\ Len(inbox[s]) = 0
<1>1. Len(inbox[s]) \in Nat
  BY Counting
<1>2. 1 \notin 1 .. Len(inbox[s])
  BY DEF Mail
<1>3. Len(inbox[s]) = 0
  BY <1>1, <1>2
<1> QED
  BY <1>3 DEF Mail

LEMMA SmoothSend ==
  ASSUME SmoothTalk, SessInv', NEW side \in Sides, ended[side] = Pending, MyTurn(side),
         NEW move \in PolicyMoves(side, heard[side], talk), SendMove(side, move)
  PROVE  SmoothTalk'
<1> DEFINE o == Other(side)
           n == Len(heard[side])
           said == Netted(side, move)
           turn == [side |-> side, kind |-> said.kind, terms |-> said.terms]
           log == Append(heard[side], turn)
<1>0. PICK env : env = sealEnvelope(side, Len(log), said)
  OBVIOUS
<1>1. /\ heard' = [heard EXCEPT ![side] = log] /\ ended' = [ended EXCEPT ![side] = AfterTurn(side, log)]
      /\ flight' = [flight EXCEPT ![o] = @ \cup {env}]
      /\ talk' = talk /\ inbox' = inbox
  BY <1>0 DEF SendMove, Speaks
<1>2. SessInv /\ SpeakerAt(n) = side /\ IsSeq(heard[side])
  BY SaidOK DEF SmoothTalk, SessInv, Shape
<1>3. Mail(side) = {} /\ Mail(o) = {} /\ Len(heard[o]) = n
  BY <1>2, NoMail, InStep
<1>4. o \in Sides /\ o # side /\ Other(o) = side /\ Sides = {side, o}
  BY Peer
<1>5. /\ heard'[side] = log /\ heard'[o] = heard[o] /\ ended'[side] = AfterTurn(side, log) /\ ended'[o] = ended[o]
      /\ flight'[side] = flight[side] /\ flight'[o] = flight[o] \cup {env}
  <2>1. Fcn(heard) /\ Fcn(ended) /\ Fcn(flight)
    BY <1>2 DEF SessInv, Shape
  <2> HIDE DEF log
  <2> QED
    BY <1>1, <1>4, <2>1 DEF Fcn
<1>6. n \in Nat /\ Len(log) = n + 1 /\ env.seq = n + 1
  <2>1. n \in Nat /\ Len(log) = n + 1
    BY <1>2, AppendIsSeq
  <2> QED
    BY <1>0, <2>1 DEF sealEnvelope
<1>7. /\ flight[side] = {} /\ flight[o] = {} /\ Len(inbox[side]) = 0 /\ Len(inbox[o]) = 0
  <2>1. IsSeq(inbox[side]) /\ IsSeq(inbox[o])
    BY <1>2, <1>4 DEF SessInv, Shape
  <2> QED
    BY <1>3, <2>1, EmptyMail
<1>8. \A s \in Sides : OneLetter(s)'
  BY <1>1, <1>4, <1>5, <1>7 DEF OneLetter
<1>9. Mail(side)' = {} /\ Mail(o)' = {env}
  <2> HIDE DEF log, n, o
  <2> QED
    BY <1>1, <1>5, <1>7 DEF Mail
<1>10. \A s \in Sides : \A e \in Mail(s)' : e.seq = Len(heard'[s]) + 1 /\ e.seq = Len(heard'[Other(s)])
  <2> HIDE DEF log
  <2> QED
    BY <1>3, <1>4, <1>5, <1>6, <1>9
<1>11. \A s \in Sides : ended'[s] # Thrown
  <2> HIDE DEF log
  <2> QED
    BY <1>4, <1>5, NeverThrown DEF SmoothTalk
<1>12. \A s \in Sides : ended'[s] # Pending => Len(heard'[s]) > 0 /\ AfterTurn(s, heard[s])' = ended'[s]
  <2> HIDE DEF log
  <2>1. ended'[side] # Pending => Len(heard'[side]) > 0 /\ AfterTurn(side, heard[side])' = ended'[side]
    BY <1>1, <1>5, <1>6 DEF AfterTurn, settleFromAccept
  <2>2. ended'[o] # Pending => Len(heard'[o]) > 0 /\ AfterTurn(o, heard[o])' = ended'[o]
    <3>1. ended[o] # Pending => Len(heard[o]) > 0 /\ AfterTurn(o, heard[o]) = ended[o]
      BY <1>4 DEF SmoothTalk
    <3> QED
      BY <1>1, <1>5, <3>1 DEF AfterTurn, settleFromAccept
  <2> QED
    BY <1>4, <2>1, <2>2
<1>13. ASSUME talk.seller = "scripted", talk.buyer = "scripted"
       PROVE  \A s \in Sides : Played(heard'[s], talk)
  <2>1. Played(heard[side], talk) /\ Played(heard[o], talk)
    BY <1>4, <1>13 DEF SmoothTalk
  <2>2. turn = EngineTurn(heard[side], talk)
    BY <1>2, <1>13, NettedIsEngine
  <2>3. Played(log, talk)
    BY <1>2, <2>1, <2>2, PlayedMore
  <2> QED
    BY <1>4, <1>5, <2>1, <2>3
<1> QED
  BY <1>1, <1>8, <1>10, <1>11, <1>12, <1>13 DEF SmoothTalk

LEMMA SmoothReceive ==
  ASSUME SmoothTalk, SessInv', NEW side \in Sides, ReceiveMove(side)
  PROVE  SmoothTalk'
<1> DEFINE o == Other(side)
           n == Len(heard[side])
           queue == inbox[side]
           env == Head(queue)
           turn == TurnOf(env)
           log == Append(heard[side], turn)
<1>1. /\ ended[side] = Pending /\ ~ MyTurn(side) /\ queue # <<>> /\ inbox' = [inbox EXCEPT ![side] = Tail(queue)]
      /\ talk' = talk /\ flight' = flight
  BY DEF ReceiveMove
<1>2. SessInv /\ o \in Sides /\ o # side /\ Other(o) = side /\ Sides = {side, o}
  BY Peer DEF SmoothTalk
<1>3. /\ IsSeq(Tail(queue)) /\ Len(Tail(queue)) = Len(queue) - 1 /\ Len(queue) \in Nat \ {0} /\ env = queue[1]
      /\ IsSeq(heard[side]) /\ IsSeq(heard[o])
  <2>1. IsSeq(queue) /\ IsSeq(heard[side]) /\ IsSeq(heard[o])
    BY <1>2 DEF SessInv, Shape
  <2> QED
    BY <1>1, <2>1, TailIsSeq
<1>4. env \in Mail(side)
  <2>1. 1 \in 1 .. Len(inbox[side]) /\ env = inbox[side][1]
    BY <1>3
  <2> QED
    BY <2>1 DEF Mail
<1>5. env.seq = n + 1 /\ env.seq = Len(heard[o]) /\ env.sender = o /\ n \in Nat /\ heard[o][n + 1] = turn
  <2>1. env.seq = n + 1 /\ env.seq = Len(heard[o]) /\ ended[o] # Thrown
    BY <1>2, <1>4 DEF SmoothTalk
  <2>2. EnvOK(side, env)
    BY <1>2, <1>4 DEF SessInv, Envelopes
  <2>3. n \in Nat
    BY <1>3, Counting
  <2> HIDE DEF env, turn
  <2> QED
    BY <1>2, <2>1, <2>2, <2>3 DEF EnvOK, turn
<1>6. heard' = [heard EXCEPT ![side] = log] /\ ended' = [ended EXCEPT ![side] = AfterTurn(side, log)]
  <2>1. openEnvelope(side, env)
    BY <1>5 DEF openEnvelope
  <2> QED
    BY <2>1 DEF ReceiveMove, TurnOf
<1>7. /\ heard'[side] = log /\ heard'[o] = heard[o] /\ ended'[side] = AfterTurn(side, log) /\ ended'[o] = ended[o]
      /\ inbox'[side] = Tail(queue) /\ inbox'[o] = inbox[o]
  <2>1. Fcn(heard) /\ Fcn(ended) /\ Fcn(inbox)
    BY <1>2 DEF SessInv, Shape
  <2> HIDE DEF log
  <2> QED
    BY <1>1, <1>2, <1>6, <2>1 DEF Fcn
<1>8. Len(log) = n + 1
  BY <1>3, AppendIsSeq
<1>9. Len(inbox[side]) = 1 /\ flight[side] = {}
  <2>1. OneLetter(side)
    BY DEF SmoothTalk
  <2> DEFINE k == Len(inbox[side])
  <2>2. k \in Nat \ {0} /\ k <= 1 /\ (k = 1 => flight[side] = {})
    BY <1>3, <2>1 DEF OneLetter
  <2> HIDE DEF k
  <2>3. k = 1 /\ flight[side] = {}
    BY <2>2
  <2> QED
    BY <2>3 DEF k
<1>10. Mail(o) = {}
  <2> SUFFICES ASSUME NEW e \in Mail(o) PROVE FALSE
    OBVIOUS
  <2>1. e.seq = Len(heard[o]) + 1 /\ e.seq = n
    BY <1>2 DEF SmoothTalk
  <2> QED
    BY <1>5, <2>1
<1>11. Mail(side)' = {} /\ Mail(o)' = {} /\ Len(inbox'[side]) = 0 /\ flight'[side] = {}
  <2>1. Len(Tail(queue)) = 0
    BY <1>3, <1>9
  <2> HIDE DEF log, n, o, queue
  <2>2. Len(inbox'[side]) = 0 /\ flight'[side] = {}
    BY <1>1, <1>7, <1>9, <2>1
  <2>3. Mail(side)' = {}
    BY <2>2 DEF Mail
  <2>4. Mail(o)' = Mail(o)
    BY <1>1, <1>7 DEF Mail, o
  <2> QED
    BY <1>10, <2>2, <2>3, <2>4
<1>12. \A s \in Sides : OneLetter(s)'
  <2>1. OneLetter(o)
    BY <1>2 DEF SmoothTalk
  <2>2. OneLetter(side)'
    BY <1>11 DEF OneLetter
  <2>3. OneLetter(o)'
    <3>1. inbox'[o] = inbox[o] /\ flight'[o] = flight[o]
      BY <1>1, <1>7
    <3> HIDE DEF o
    <3> QED
      BY <2>1, <3>1 DEF OneLetter
  <2> HIDE DEF o
  <2> QED
    BY <1>2, <2>2, <2>3
<1>13. \A s \in Sides : \A e \in Mail(s)' : e.seq = Len(heard'[s]) + 1 /\ e.seq = Len(heard'[Other(s)])
  <2> HIDE DEF log, n, o
  <2> QED
    BY <1>2, <1>11
<1>14. \A s \in Sides : ended'[s] # Thrown
  <2> HIDE DEF log
  <2> QED
    BY <1>2, <1>7, NeverThrown DEF SmoothTalk
<1>15. \A s \in Sides : ended'[s] # Pending => Len(heard'[s]) > 0 /\ AfterTurn(s, heard[s])' = ended'[s]
  <2> HIDE DEF log
  <2>1. ended'[side] # Pending => Len(heard'[side]) > 0 /\ AfterTurn(side, heard[side])' = ended'[side]
    BY <1>1, <1>5, <1>7, <1>8 DEF AfterTurn, settleFromAccept
  <2>2. ended'[o] # Pending => Len(heard'[o]) > 0 /\ AfterTurn(o, heard[o])' = ended'[o]
    <3>1. ended[o] # Pending => Len(heard[o]) > 0 /\ AfterTurn(o, heard[o]) = ended[o]
      BY <1>2 DEF SmoothTalk
    <3> QED
      BY <1>1, <1>7, <3>1 DEF AfterTurn, settleFromAccept
  <2> QED
    BY <1>2, <2>1, <2>2
<1>16. ASSUME talk.seller = "scripted", talk.buyer = "scripted"
       PROVE  \A s \in Sides : Played(heard'[s], talk)
  <2>1. Played(heard[side], talk) /\ Played(heard[o], talk)
    BY <1>2, <1>16 DEF SmoothTalk
  <2>2. heard[o][n + 1] = EngineTurn([i \in 1 .. n |-> heard[o][i]], talk)
    <3>1. n + 1 \in 1 .. Len(heard[o]) /\ n + 1 - 1 = n
      BY <1>5
    <3>2. heard[o][n + 1] = EngineTurn([i \in 1 .. (n + 1) - 1 |-> heard[o][i]], talk)
      BY <2>1, <3>1 DEF Played
    <3> DEFINE k == n + 1
    <3>3. heard[o][k] = EngineTurn([i \in 1 .. k - 1 |-> heard[o][i]], talk) /\ k - 1 = n
      BY <3>1, <3>2
    <3> HIDE DEF k
    <3>4. heard[o][k] = EngineTurn([i \in 1 .. n |-> heard[o][i]], talk)
      BY <3>3
    <3> QED
      BY <3>4 DEF k
  <2>3. [i \in 1 .. n |-> heard[o][i]] = heard[side]
    <3>1. \A i \in 1 .. n : heard[o][i] = heard[side][i]
      <4>1. \A i \in 1 .. n : i <= Len(heard[o]) => heard[side][i] = heard[o][i]
        BY <1>2 DEF SessInv, Common
      <4> HIDE DEF n
      <4> QED
        BY <1>5, <4>1
    <3>2. heard[side] = [i \in 1 .. n |-> heard[side][i]]
      BY <1>3, WholeIs
    <3> HIDE DEF n
    <3> QED
      BY <3>1, <3>2
  <2>4. turn = EngineTurn(heard[side], talk)
    BY <1>5, <2>2, <2>3
  <2>5. Played(log, talk)
    <3> HIDE DEF turn
    <3> QED
      BY <1>3, <2>1, <2>4, PlayedMore
  <2> HIDE DEF log
  <2> QED
    BY <1>2, <1>7, <2>1, <2>5
<1> QED
  BY <1>1, <1>12, <1>13, <1>14, <1>15, <1>16 DEF SmoothTalk

LEMMA SmoothDeliver ==
  ASSUME SmoothTalk, SessInv', NEW side \in Sides, NEW env, Deliver(side, env), smooth'
  PROVE  SmoothTalk'
<1> DEFINE o == Other(side)
           queue == inbox[side]
<1>1. /\ env \in flight[side] /\ inbox' = [inbox EXCEPT ![side] = Append(queue, env)]
      /\ talk' = talk /\ heard' = heard /\ ended' = ended
      /\ flight' = [flight EXCEPT ![side] = @ \ {env}]
  BY DEF Deliver
<1>2. SessInv /\ o \in Sides /\ o # side /\ Other(o) = side /\ Sides = {side, o} /\ IsSeq(queue)
  BY Peer DEF SmoothTalk, SessInv, Shape
<1>3. flight[side] = {env} /\ Len(queue) = 0
  <2>1. OneLetter(side)
    BY DEF SmoothTalk
  <2> DEFINE k == Len(queue)
  <2>2. k \in Nat /\ k <= 1 /\ (k = 1 => flight[side] = {}) /\ flight[side] = {env}
    BY <1>1, <1>2, <2>1, Counting DEF OneLetter
  <2> HIDE DEF k
  <2>3. k = 0
    BY <2>2
  <2> QED
    BY <2>2, <2>3 DEF k
<1>4. /\ inbox'[side] = Append(queue, env) /\ inbox'[o] = inbox[o]
      /\ flight'[side] = {} /\ flight'[o] = flight[o]
  <2>1. Fcn(inbox) /\ Fcn(flight)
    BY <1>2 DEF SessInv, Shape
  <2> HIDE DEF queue
  <2> QED
    BY <1>1, <1>2, <1>3, <2>1 DEF Fcn
<1>5. Len(inbox'[side]) = 1 /\ inbox'[side][1] = env
  <2>1. Len(Append(queue, env)) = Len(queue) + 1 /\ Append(queue, env)[Len(queue) + 1] = env
    BY <1>2, AppendIsSeq
  <2> HIDE DEF queue
  <2> QED
    BY <1>3, <1>4, <2>1
<1>6. Mail(side)' \subseteq Mail(side) /\ Mail(o)' = Mail(o)
  <2> HIDE DEF queue, o
  <2> QED
    BY <1>1, <1>4, <1>5 DEF Mail
<1>7. \A s \in Sides : OneLetter(s)'
  <2>1. OneLetter(o)
    BY <1>2 DEF SmoothTalk
  <2> HIDE DEF queue, o
  <2> QED
    BY <1>2, <1>4, <1>5, <2>1 DEF OneLetter
<1>8. \A s \in Sides : \A e \in Mail(s)' : e.seq = Len(heard'[s]) + 1 /\ e.seq = Len(heard'[Other(s)])
  <2> HIDE DEF queue, o
  <2> QED
    BY <1>1, <1>2, <1>6 DEF SmoothTalk
<1>9. \A s \in Sides : ended'[s] # Pending => Len(heard'[s]) > 0 /\ AfterTurn(s, heard[s])' = ended'[s]
  <2>1. \A s \in Sides : ended[s] # Pending => Len(heard[s]) > 0 /\ AfterTurn(s, heard[s]) = ended[s]
    BY DEF SmoothTalk
  <2> QED
    BY <1>1, <2>1 DEF AfterTurn, settleFromAccept
<1> QED
  BY <1>1, <1>7, <1>8, <1>9 DEF SmoothTalk

LEMMA SmoothStep ==
  ASSUME SmoothInv, [SessNext]_sessVars
  PROVE  SmoothInv'
<1> SUFFICES ASSUME smooth' PROVE SmoothTalk'
  BY DEF SmoothInv
<1>1. CASE UNCHANGED sessVars
  <2>1. /\ talk' = talk /\ heard' = heard /\ ended' = ended /\ inbox' = inbox /\ flight' = flight /\ smooth
    BY <1>1 DEF sessVars
  <2>2. SmoothTalk
    BY <2>1 DEF SmoothInv
  <2>3. SessInv'
    BY <1>1, <2>2, SessStep DEF SmoothTalk
  <2>4. \A s \in Sides : Mail(s)' = Mail(s) /\ (OneLetter(s) => OneLetter(s)')
    BY <2>1 DEF Mail, OneLetter
  <2>5. \A s \in Sides : ended'[s] # Pending => Len(heard'[s]) > 0 /\ AfterTurn(s, heard[s])' = ended'[s]
    <3>1. \A s \in Sides : ended[s] # Pending => Len(heard[s]) > 0 /\ AfterTurn(s, heard[s]) = ended[s]
      BY <2>2 DEF SmoothTalk
    <3> QED
      BY <2>1, <3>1 DEF AfterTurn, settleFromAccept
  <2> QED
    BY <2>1, <2>2, <2>3, <2>4, <2>5 DEF SmoothTalk
<1>2. CASE SessNext
  <2>1. PICK side \in Sides : EndStep(side) \/ RelayStep(side)
    BY <1>2 DEF SessNext
  <2>2. CASE /\ ended[side] = Pending /\ MyTurn(side)
             /\ \E move \in PolicyMoves(side, heard[side], talk) : SendMove(side, move) \/ SendThrows(side, move)
    <3>1. PICK move \in PolicyMoves(side, heard[side], talk) : SendMove(side, move) \/ SendThrows(side, move)
      BY <2>2
    <3>2. SendMove(side, move) /\ smooth
      BY <3>1 DEF SendMove, SendThrows
    <3>3. SmoothTalk
      BY <3>2 DEF SmoothInv
    <3>4. SessInv'
      BY <1>2, <3>3, SessStep DEF SmoothTalk
    <3> QED
      BY <2>2, <3>2, <3>3, <3>4, SmoothSend
  <2>3. CASE ReceiveMove(side)
    <3>1. SmoothTalk
      BY <2>3 DEF SmoothInv, ReceiveMove
    <3>2. SessInv'
      BY <1>2, <3>1, SessStep DEF SmoothTalk
    <3> QED
      BY <2>3, <3>1, <3>2, SmoothReceive
  <2>4. CASE ReceiveTimeout(side)
    BY <2>4 DEF ReceiveTimeout
  <2>5. CASE RelayStep(side)
    <3>1. PICK env \in flight[side] : Deliver(side, env) \/ Lose(side, env)
      BY <2>5 DEF RelayStep
    <3>2. Deliver(side, env) /\ smooth
      BY <3>1 DEF Deliver, Lose
    <3>3. SmoothTalk
      BY <3>2 DEF SmoothInv
    <3>4. SessInv'
      BY <1>2, <3>3, SessStep DEF SmoothTalk
    <3> QED
      BY <3>2, <3>3, <3>4, SmoothDeliver
  <2> QED
    BY <2>1, <2>2, <2>3, <2>4, <2>5 DEF EndStep
<1> QED
  BY <1>1, <1>2

LEMMA SmoothStart ==
  ASSUME SessInit
  PROVE  SmoothInv
<1>1. \A s \in Sides : heard[s] = <<>> /\ ended[s] = Pending /\ inbox[s] = <<>> /\ flight[s] = {}
  BY DEF SessInit
<1>2. \A s \in Sides : Len(heard[s]) = 0 /\ Len(inbox[s]) = 0
  BY <1>1
<1>3. \A s \in Sides : Mail(s) = {} /\ OneLetter(s) /\ Played(heard[s], talk)
  BY <1>1, <1>2 DEF Mail, OneLetter, Played
<1>4. SessInv
  BY SessStart
<1> QED
  BY <1>1, <1>3, <1>4 DEF SmoothInv, SmoothTalk, Pending, Thrown

\* The accept that closes a transcript binds to the proposal before it.
LEMMA AcceptBinds ==
  ASSUME NEW log, NEW d, IsSeq(log), LogOK(log, d), Len(log) > 0, log[Len(log)].kind = "accept"
  PROVE  LET bound == onTableFrom(log, Other(log[Len(log)].side)) IN
         bound # NoTerms /\ sellerMaySettle(bound, d) /\ buyerMaySettle(bound, d)
<1> DEFINE n == Len(log)
           bound == onTableFrom(log, Other(log[n].side))
<1>1. n \in Nat /\ n > 0 /\ TurnOK(log, n - 1, log[n], d)
  BY Counting DEF LogOK
<1>2. n - 1 > 0 /\ Proposal(log[n - 1]) /\ log[n - 1].terms # NoTerms /\ MaySettle(log[n].side, log[n - 1].terms, d)
      /\ log[n].side = SpeakerAt(n - 1)
  BY <1>1 DEF TurnOK
<1>3. TurnOK(log, n - 2, log[n - 1], d)
  <2>1. n - 1 \in 1 .. Len(log) /\ (n - 1) - 1 = n - 2
    BY <1>1, <1>2
  <2>2. TurnOK(log, (n - 1) - 1, log[n - 1], d)
    BY <2>1 DEF LogOK
  <2> HIDE DEF n
  <2> QED
    BY <2>1, <2>2
<1>4. MaySettle(log[n - 1].side, log[n - 1].terms, d) /\ log[n - 1].side = SpeakerAt(n - 2)
  BY <1>2, <1>3 DEF TurnOK
<1>5. log[n].side = Other(log[n - 1].side) /\ log[n - 1].side \in Sides
  <2>1. n - 2 \in Nat /\ n - 2 + 1 = n - 1
    BY <1>1, <1>2
  <2>2. SpeakerAt(n - 2 + 1) = Other(SpeakerAt(n - 2)) /\ SpeakerAt(n - 2) \in Sides
    BY <2>1, Alternate
  <2> HIDE DEF n
  <2> QED
    BY <1>2, <1>4, <2>1, <2>2
<1>6. Other(log[n].side) = log[n - 1].side /\ Sides = {log[n - 1].side, log[n].side}
  BY <1>5, Peer
<1>7. bound = log[n - 1].terms
  <2>1. n - 1 \in 1 .. Len(log)
    BY <1>1, <1>2
  <2>2. ~ Proposal(log[n])
    BY DEF Proposal
  <2>3. \A i \in 1 .. Len(log) : i > n - 1 => ~ Proposal(log[i])
    BY <1>1, <2>2
  <2> DEFINE k == n - 1
  <2>4. k \in 1 .. Len(log) /\ Proposal(log[k]) /\ \A i \in 1 .. Len(log) : i > k => ~ Proposal(log[i])
    BY <1>2, <2>1, <2>3
  <2> HIDE DEF k
  <2>5. onTableFrom(log, log[k].side) = log[k].terms
    BY <2>4, OnTable
  <2> QED
    BY <1>6, <2>5 DEF k
<1> DEFINE t == log[n - 1].terms
<1>8. \A s \in Sides : MaySettle(s, t, d)
  BY <1>2, <1>4, <1>6
<1>9. t # NoTerms /\ bound = t
  BY <1>2, <1>7
<1> HIDE DEF t, bound
<1>10. sellerMaySettle(t, d) /\ buyerMaySettle(t, d)
  BY <1>8 DEF MaySettle, Sides
<1> QED
  BY <1>9, <1>10 DEF bound

LEMMA SmoothParity ==
  ASSUME SmoothInv
  PROVE  ParityWithEngine
<1> DEFINE log == heard["seller"]
           n == Len(log)
           closed == log[n]
           bound == onTableFrom(log, Other(closed.side))
<1> SUFFICES ASSUME smooth, talk.seller = "scripted", talk.buyer = "scripted", \A s \in Sides : ended[s] # Pending
             PROVE  /\ EnginePlays(log, talk)
                    /\ \A s \in Sides :
                         /\ heard[s] = log
                         /\ ended[s] = IF closed.kind = "accept" /\ sellerMaySettle(bound, talk) /\ buyerMaySettle(bound, talk)
                                       THEN Settled(bound) ELSE Gone
  BY DEF ParityWithEngine
<1>1. SmoothTalk /\ SessInv
  BY DEF SmoothInv, SmoothTalk
<1>2. \A s \in Sides : /\ IsSeq(heard[s]) /\ Len(heard[s]) \in Nat /\ Len(heard[s]) > 0
                       /\ AfterTurn(s, heard[s]) = ended[s] /\ ended[s] # Thrown
                       /\ LogOK(heard[s], talk) /\ Played(heard[s], talk) /\ Lag(s)
  BY <1>1, Counting DEF SmoothTalk, SessInv, Shape, Logs
<1>3. talk.maxTurns \in Nat
  BY <1>1, TalksAssumption DEF SessInv, Shape
<1>4. ASSUME NEW s \in Sides, Proposal(heard[s][Len(heard[s])])
      PROVE  Len(heard[s]) >= talk.maxTurns
  <2>1. AfterTurn(s, heard[s]) # Pending
    BY <1>2
  <2> QED
    BY <1>4, <2>1 DEF AfterTurn, Proposal
<1>5. ASSUME NEW s \in Sides, Len(heard[s]) > Len(heard[Other(s)])
      PROVE  FALSE
  <2> DEFINE k == Len(heard[Other(s)])
  <2>1. k \in Nat /\ k > 0 /\ Other(s) \in Sides /\ Len(heard[s]) \in Nat /\ k + 1 \in 1 .. Len(heard[s]) /\ k \in 1 .. Len(heard[s])
    BY <1>2, <1>5, Peer
  <2>2. TurnOK(heard[s], k + 1 - 1, heard[s][k + 1], talk) /\ k + 1 - 1 = k
    BY <1>2, <2>1 DEF LogOK
  <2>3. Proposal(heard[s][k]) /\ k < talk.maxTurns
    BY <2>1, <2>2 DEF TurnOK
  <2>4. heard[s][k] = heard[Other(s)][k]
    BY <1>1, <2>1 DEF SessInv, Common
  <2>5. k >= talk.maxTurns
    BY <1>4, <2>1, <2>3, <2>4
  <2> QED
    BY <1>3, <2>1, <2>3, <2>5
<1>6. "seller" \in Sides /\ "buyer" \in Sides /\ Other("seller") = "buyer" /\ Other("buyer") = "seller" /\ Sides = {"seller", "buyer"}
  BY DEF Sides, Other
<1>7. heard["buyer"] = log
  <2>1. Len(heard["buyer"]) = Len(log)
    BY <1>2, <1>5, <1>6
  <2>2. \A i \in 1 .. Len(log) : heard["buyer"][i] = log[i]
    <3>1. \A i \in 1 .. Len(log) : i <= Len(heard["buyer"]) => log[i] = heard["buyer"][i]
      BY <1>1, <1>6 DEF SessInv, Common
    <3> QED
      BY <1>2, <1>6, <2>1, <3>1
  <2> QED
    BY <1>2, <1>6, <2>1, <2>2, SeqExtensional
<1>8. \A s \in Sides : heard[s] = log
  BY <1>6, <1>7
<1>9. IsSeq(log) /\ n \in Nat /\ n > 0 /\ LogOK(log, talk) /\ Played(log, talk)
  BY <1>2, <1>6
<1>10. EnginePlays(log, talk)
  <2>1. log # <<>>
    BY <1>9
  <2>2. ASSUME NEW k \in 1 .. n
        PROVE  k < n <=> Proposal(log[k]) /\ k < talk.maxTurns
    <3>1. CASE k < n
      <4>1. k + 1 \in 1 .. n /\ k + 1 - 1 = k /\ k > 0
        BY <1>9, <3>1
      <4>2. TurnOK(log, k + 1 - 1, log[k + 1], talk)
        BY <1>9, <4>1 DEF LogOK
      <4> QED
        BY <3>1, <4>1, <4>2 DEF TurnOK
    <3>2. CASE k = n
      <4>1. Proposal(log[n]) => n >= talk.maxTurns
        BY <1>4, <1>6
      <4> HIDE DEF n
      <4> QED
        BY <1>3, <1>9, <3>2, <4>1
    <3> QED
      BY <1>9, <3>1, <3>2
  <2>3. \A k \in 1 .. n : log[k] = EngineTurn([i \in 1 .. k - 1 |-> log[i]], talk)
    BY <1>9 DEF Played
  <2> QED
    BY <2>1, <2>2, <2>3 DEF EnginePlays
<1>11. ASSUME NEW s \in Sides
       PROVE  ended[s] = IF closed.kind = "accept" /\ sellerMaySettle(bound, talk) /\ buyerMaySettle(bound, talk)
                        THEN Settled(bound) ELSE Gone
  <2>1. ended[s] = AfterTurn(s, log) /\ ended[s] # Pending
    BY <1>2, <1>8
  <2>2. CASE closed.kind = "accept"
    <3>1. bound # NoTerms /\ sellerMaySettle(bound, talk) /\ buyerMaySettle(bound, talk)
      BY <1>9, <2>2, AcceptBinds
    <3>2. AfterTurn(s, log) = IF bound # NoTerms /\ MaySettle(s, bound, talk) THEN Settled(bound) ELSE Gone
      BY <2>2 DEF AfterTurn, settleFromAccept
    <3> HIDE DEF bound
    <3> QED
      BY <2>1, <2>2, <3>1, <3>2 DEF MaySettle
  <2>3. CASE closed.kind # "accept"
    <3>1. AfterTurn(s, log) = Gone \/ AfterTurn(s, log) = Pending
      BY <2>3 DEF AfterTurn
    <3> QED
      BY <2>1, <2>3, <3>1
  <2> QED
    BY <2>2, <2>3
<1> QED
  BY <1>8, <1>10, <1>11

-----------------------------------------------------------------------------
(* The contractor. First its sums: SumOf is a recursive function, and what *)
(* is said of it is proved by appeal to a least counterexample.            *)

LEMMA LeastOf ==
  ASSUME NEW T, T \subseteq Nat, T # {}
  PROVE  \E x \in T : \A y \in T : x <= y
<1>1. IsWellFoundedOn(OpToRel(<, Nat), Nat)
  BY NatLessThanWellFounded
<1>2. PICK x \in T : \A y \in T : ~(<<y, x>> \in OpToRel(<, Nat))
  BY <1>1, WFMin
<1>3. \A y \in T : ~(y < x)
  BY <1>2 DEF OpToRel
<1> QED
  BY <1>3

SumStep(x, g, k) == IF k = 0 THEN 0 ELSE g[k - 1] + x[k]
Adds(x, g, n) == g = [k \in 0 .. n |-> SumStep(x, g, k)]

LEMMA AddsAgree ==
  ASSUME NEW x, NEW y, NEW f, NEW g, NEW n \in Nat, NEW m \in Nat, n <= m, Adds(x, f, n), Adds(y, g, m),
         \A i \in 1 .. n : x[i] = y[i]
  PROVE  f[n] = g[n]
<1> DEFINE T == {k \in 0 .. n : f[k] # g[k]}
<1>1. ASSUME T # {} PROVE FALSE
  <2>1. PICK k \in T : \A j \in T : k <= j
    <3>1. T \subseteq Nat
      OBVIOUS
    <3> HIDE DEF T
    <3> QED
      BY <1>1, <3>1, LeastOf
  <2>2. k \in 0 .. n /\ k \in 0 .. m /\ f[k] # g[k]
    OBVIOUS
  <2>3. f[k] = SumStep(x, f, k) /\ g[k] = SumStep(y, g, k)
    BY <2>2 DEF Adds
  <2>4. k # 0
    BY <2>2, <2>3 DEF SumStep
  <2>5. k - 1 \in 0 .. n /\ k - 1 \notin T /\ k \in 1 .. n
    BY <2>1, <2>2, <2>4
  <2>6. f[k - 1] = g[k - 1] /\ x[k] = y[k]
    BY <2>5
  <2> QED
    BY <2>2, <2>3, <2>6 DEF SumStep
<1> QED
  BY <1>1

LEMMA AddsExist ==
  ASSUME NEW x, NEW n \in Nat
  PROVE  \E g : Adds(x, g, n)
<1> DEFINE T == {k \in Nat : ~ \E g : Adds(x, g, k)}
<1>1. ASSUME T # {} PROVE FALSE
  <2>1. PICK k \in T : \A j \in T : k <= j
    <3>1. T \subseteq Nat
      OBVIOUS
    <3> HIDE DEF T
    <3> QED
      BY <1>1, <3>1, LeastOf
  <2>2. k \in Nat /\ ~ \E g : Adds(x, g, k)
    OBVIOUS
  <2>3. CASE k = 0
    <3> DEFINE h == [j \in 0 .. 0 |-> 0]
    <3>1. Adds(x, h, 0)
      BY DEF Adds, SumStep
    <3> QED
      BY <2>2, <2>3, <3>1
  <2>4. CASE k # 0
    <3>1. k - 1 \in Nat /\ k - 1 \notin T
      BY <2>1, <2>2, <2>4
    <3>2. PICK g : Adds(x, g, k - 1)
      BY <3>1
    <3> DEFINE h == [j \in 0 .. k |-> IF j = k THEN g[k - 1] + x[k] ELSE g[j]]
    <3>3. ASSUME NEW j \in 0 .. k PROVE h[j] = SumStep(x, h, j)
      <4>1. CASE j = k
        <5>1. k - 1 \in 0 .. k /\ k - 1 # k
          BY <2>2, <2>4
        <5>2. h[k - 1] = g[k - 1] /\ h[k] = g[k - 1] + x[k]
          BY <2>2, <5>1
        <5> HIDE DEF h
        <5> QED
          BY <2>4, <4>1, <5>2 DEF SumStep
      <4>2. CASE j # k
        <5>1. j \in 0 .. k - 1 /\ (j # 0 => j - 1 \in 0 .. k /\ j - 1 # k)
          BY <2>2, <4>2
        <5>2. g[j] = SumStep(x, g, j)
          BY <3>2, <5>1 DEF Adds
        <5>3. h[j] = g[j] /\ (j # 0 => h[j - 1] = g[j - 1])
          BY <4>2, <5>1
        <5> HIDE DEF h
        <5> QED
          BY <5>2, <5>3 DEF SumStep
      <4> QED
        BY <4>1, <4>2
    <3>4. h = [j \in 0 .. k |-> h[j]]
      OBVIOUS
    <3> HIDE DEF h
    <3>5. Adds(x, h, k)
      BY <3>3, <3>4 DEF Adds
    <3> QED
      BY <2>2, <3>5
  <2> QED
    BY <2>3, <2>4
<1> QED
  BY <1>1

LEMMA SumAdds ==
  ASSUME NEW x, NEW n \in Nat
  PROVE  \E g : Adds(x, g, n) /\ SumOf(x, n) = g[n]
<1> DEFINE g == CHOOSE g : Adds(x, g, n)
<1>1. Adds(x, g, n)
  BY AddsExist
<1>2. g = CHOOSE h : h = [k \in 0 .. n |-> IF k = 0 THEN 0 ELSE h[k - 1] + x[k]]
  BY Zenon DEF Adds, SumStep
<1>3. SumOf(x, n) = g[n]
  BY <1>2, Zenon DEF SumOf
<1> QED
  BY <1>1, <1>3

LEMMA SumSame ==
  ASSUME NEW x, NEW y, NEW n \in Nat, \A i \in 1 .. n : x[i] = y[i]
  PROVE  SumOf(x, n) = SumOf(y, n)
<1>1. PICK f : Adds(x, f, n) /\ SumOf(x, n) = f[n]
  BY SumAdds
<1>2. PICK g : Adds(y, g, n) /\ SumOf(y, n) = g[n]
  BY SumAdds
<1> QED
  BY <1>1, <1>2, AddsAgree

LEMMA SumIs ==
  ASSUME NEW x, NEW n \in Nat
  PROVE  SumOf(x, 0) = 0 /\ SumOf(x, n + 1) = SumOf(x, n) + x[n + 1]
<1>1. PICK f : Adds(x, f, 0) /\ SumOf(x, 0) = f[0]
  BY SumAdds
<1>2. f[0] = 0
  BY <1>1 DEF Adds, SumStep
<1>3. PICK g : Adds(x, g, n) /\ SumOf(x, n) = g[n]
  BY SumAdds
<1>4. PICK h : Adds(x, h, n + 1) /\ SumOf(x, n + 1) = h[n + 1]
  BY SumAdds
<1>5. h[n + 1] = SumStep(x, h, n + 1)
  BY <1>4 DEF Adds
<1>6. h[n + 1] = h[n] + x[n + 1]
  BY <1>5 DEF SumStep
<1>7. g[n] = h[n]
  BY <1>3, <1>4, AddsAgree
<1> QED
  BY <1>1, <1>2, <1>3, <1>4, <1>6, <1>7

LEMMA SumBound ==
  ASSUME NEW x, NEW y, NEW n \in Nat, NEW a \in Int, NEW b \in Int, NEW c \in Int,
         \A i \in 1 .. n : x[i] \in Int /\ y[i] \in Int /\ a * x[i] <= b * y[i] + c
  PROVE  SumOf(x, n) \in Int /\ SumOf(y, n) \in Int /\ a * SumOf(x, n) <= b * SumOf(y, n) + c * n
<1> DEFINE ok(k) == SumOf(x, k) \in Int /\ SumOf(y, k) \in Int /\ a * SumOf(x, k) <= b * SumOf(y, k) + c * k
           T == {k \in 0 .. n : ~ ok(k)}
<1>1. ASSUME T # {} PROVE FALSE
  <2>1. PICK k \in T : \A j \in T : k <= j
    <3>1. T \subseteq Nat
      OBVIOUS
    <3> HIDE DEF T
    <3> QED
      BY <1>1, <3>1, LeastOf
  <2>2. k \in 0 .. n /\ ~ ok(k)
    OBVIOUS
  <2>3. ok(0)
    <3>1. SumOf(x, 0) = 0 /\ SumOf(y, 0) = 0
      BY SumIs
    <3> QED
      BY <3>1
  <2> DEFINE j == k - 1
  <2>4. j \in 0 .. n /\ j \notin T /\ k \in 1 .. n /\ j + 1 = k
    <3> HIDE DEF ok
    <3> QED
      BY <2>1, <2>2, <2>3
  <2>5. ok(j)
    <3> HIDE DEF ok, j
    <3> QED
      BY <2>4
  <2>6. SumOf(x, k) = SumOf(x, j) + x[k] /\ SumOf(y, k) = SumOf(y, j) + y[k]
    <3>1. j \in Nat
      BY <2>4
    <3> HIDE DEF j
    <3> QED
      BY <2>4, <3>1, SumIs
  <2>7. ok(k)
    <3> DEFINE p == SumOf(x, j)
               q == SumOf(y, j)
               u == x[k]
               v == y[k]
    <3>1. p \in Int /\ q \in Int /\ u \in Int /\ v \in Int /\ j \in Int /\ a * p <= b * q + c * j /\ a * u <= b * v + c
      BY <2>4, <2>5
    <3>2. SumOf(x, k) = p + u /\ SumOf(y, k) = q + v
      BY <2>6
    <3> HIDE DEF p, q, u, v, j
    <3>3. a * (p + u) = a * p + a * u /\ b * (q + v) = b * q + b * v /\ c * (j + 1) = c * j + c
      BY <3>1
    <3>4. a * (p + u) <= b * (q + v) + c * (j + 1)
      <4> DEFINE ap == a * p
                 au == a * u
                 bq == b * q
                 bv == b * v
                 cj == c * j
      <4>1. ap \in Int /\ au \in Int /\ bq \in Int /\ bv \in Int /\ cj \in Int
        BY <3>1
      <4> HIDE DEF ap, au, bq, bv, cj
      <4> QED
        BY <3>1, <3>3, <4>1 DEF ap, au, bq, bv, cj
    <3>5. p + u \in Int /\ q + v \in Int
      BY <3>1
    <3>6. j + 1 = k
      BY <2>4
    <3>7. a * SumOf(x, k) <= b * SumOf(y, k) + c * k
      BY <3>2, <3>4, <3>6
    <3> QED
      BY <3>2, <3>5, <3>7
  <2> QED
    BY <2>2, <2>7
<1> QED
  BY <1>1

\* What is added is not negative.
LEMMA SumGrows ==
  ASSUME NEW x, NEW n \in Nat, NEW m \in Nat, m <= n, \A i \in 1 .. n : x[i] \in Nat
  PROVE  SumOf(x, m) \in Nat /\ SumOf(x, n) \in Nat /\ SumOf(x, m) <= SumOf(x, n)
<1>1. \A k \in 0 .. n : SumOf(x, k) \in Nat
  <2> DEFINE T == {k \in 0 .. n : SumOf(x, k) \notin Nat}
  <2> SUFFICES ASSUME T # {} PROVE FALSE
    OBVIOUS
  <2>1. PICK k \in T : \A j \in T : k <= j
    <3>1. T \subseteq Nat
      OBVIOUS
    <3> HIDE DEF T
    <3> QED
      BY <3>1, LeastOf
  <2>2. k # 0
    BY SumIs
  <2> DEFINE j == k - 1
  <2>3. j \in 0 .. n /\ j \notin T /\ j + 1 = k /\ k \in 1 .. n
    BY <2>1, <2>2
  <2>4. SumOf(x, k) = SumOf(x, j) + x[k] /\ SumOf(x, j) \in Nat
    <3>1. j \in Nat /\ SumOf(x, j) \in Nat
      BY <2>3
    <3> HIDE DEF j
    <3> QED
      BY <2>3, <3>1, SumIs
  <2> QED
    BY <2>3, <2>4
<1>2. \A k \in m .. n : SumOf(x, m) <= SumOf(x, k)
  <2> DEFINE T == {k \in m .. n : ~(SumOf(x, m) <= SumOf(x, k))}
  <2> SUFFICES ASSUME T # {} PROVE FALSE
    OBVIOUS
  <2>1. PICK k \in T : \A j \in T : k <= j
    <3>1. T \subseteq Nat
      OBVIOUS
    <3> HIDE DEF T
    <3> QED
      BY <3>1, LeastOf
  <2>2. k # m
    BY <1>1
  <2> DEFINE j == k - 1
  <2>3. j \in m .. n /\ j \notin T /\ j + 1 = k /\ k \in 1 .. n
    BY <2>1, <2>2
  <2>4. SumOf(x, k) = SumOf(x, j) + x[k] /\ SumOf(x, m) <= SumOf(x, j) /\ SumOf(x, j) \in Nat /\ SumOf(x, m) \in Nat
    <3>1. j \in Nat /\ SumOf(x, j) \in Nat /\ SumOf(x, m) \in Nat /\ SumOf(x, m) <= SumOf(x, j)
      BY <1>1, <2>3
    <3> HIDE DEF j
    <3> QED
      BY <2>3, <3>1, SumIs
  <2> QED
    BY <2>3, <2>4
<1> QED
  BY <1>1, <1>2

LEMMA Division ==
  ASSUME NEW a \in Int, NEW b \in Nat, b > 0
  PROVE  a \div b \in Int /\ b * (a \div b) <= a /\ a < b * (a \div b) + b
OBVIOUS

LEMMA Cancels ==
  ASSUME NEW t \in Nat, t > 0, NEW p \in Int, NEW q \in Int, t * p <= t * q
  PROVE  p <= q
<1>1. ASSUME q < p PROVE FALSE
  <2> DEFINE r == p - q
  <2>1. r \in Int /\ r >= 1 /\ p = q + r
    BY <1>1
  <2> HIDE DEF r
  <2>2. t * r >= t
    BY <2>1
  <2>3. t * p = t * q + t * r
    BY <2>1
  <2> QED
    BY <2>1, <2>2, <2>3
<1> QED
  BY <1>1

LEMMA TimesMore ==
  ASSUME NEW a \in Nat, NEW p \in Int, NEW q \in Int, p <= q
  PROVE  a * p <= a * q
<1> DEFINE r == q - p
<1>1. r \in Nat /\ q = p + r
  OBVIOUS
<1> HIDE DEF r
<1>2. a * q = a * p + a * r /\ a * r >= 0 /\ a * p \in Int /\ a * r \in Int
  BY <1>1
<1> QED
  BY <1>2

\* A bound in shares of a total, without the total.
LEMMA ShareOut ==
  ASSUME NEW total \in Nat, total > 0, NEW b \in Nat, NEW n \in Nat, NEW cost \in Int, NEW part \in Nat, part <= total,
         4 * total * cost <= b * part + 2 * total * n
  PROVE  4 * cost <= b + 2 * n
<1> DEFINE u == total * cost
           v == b * part
           w == b * total
           z == total * n
<1>1. u \in Int /\ v \in Int /\ w \in Int /\ z \in Int
  OBVIOUS
<1>2. v <= w
  BY TimesMore
<1>3. 4 * total * cost = 4 * u /\ 2 * total * n = 2 * z
  OBVIOUS
<1>4. total * (4 * cost) = 4 * u /\ total * (b + 2 * n) = w + 2 * z
  OBVIOUS
<1> HIDE DEF u, v, w, z
<1>5. 4 * u <= v + 2 * z
  BY <1>3 DEF v
<1>6. total * (4 * cost) <= total * (b + 2 * n)
  BY <1>1, <1>2, <1>4, <1>5
<1>7. 4 * cost \in Int /\ b + 2 * n \in Int
  OBVIOUS
<1> QED
  BY <1>6, <1>7, Cancels

-----------------------------------------------------------------------------
(* The desk's prices, and the bargains the contractor and the butler begin. *)

Scans == [klocTenths : Nat, numTools : Nat]

LEMMA DeskPrices ==
  ASSUME NEW scan \in Scans, NEW tier, NEW dl
  PROVE  /\ floorFor(scan, tier, dl) \in Int /\ floorFor(scan, tier, dl) > 0
         /\ askFor(scan, tier, dl) \in Int /\ askFor(scan, tier, dl) >= floorFor(scan, tier, dl)
<1> DEFINE k == CeilDiv(scan.klocTenths, 10)
           base == IF tier = "deep" THEN 300 + 200 * scan.numTools + 50 * k ELSE 100 + 25 * k
           cost == costFor(scan, tier, dl)
<1>1. scan.klocTenths \in Nat /\ scan.numTools \in Nat
  BY DEF Scans
<1>2. k \in Nat
  BY <1>1 DEF CeilDiv
<1>3. base \in Int /\ base >= 100
  <2> HIDE DEF k
  <2> QED
    BY <1>1, <1>2
<1>4. cost = IF dl = "rush" THEN RoundDiv(base * 150, 100) ELSE base
  BY DEF costFor, deepAuditPriceFor
<1> HIDE DEF k, base
<1>5. base * 150 \in Int
  BY <1>3
<1>6. RoundDiv(base * 150, 100) \in Int /\ 100 * RoundDiv(base * 150, 100) >= base * 150 - 50
  BY <1>5, RoundCent
<1>7. cost \in Int /\ cost >= 100
  BY <1>3, <1>4, <1>6
<1> HIDE DEF cost
<1>8. cost * 115 \in Int /\ cost * 160 \in Int
  BY <1>7
<1>9. /\ floorFor(scan, tier, dl) = RoundDiv(cost * 115, 100) /\ askFor(scan, tier, dl) = RoundDiv(cost * 160, 100)
  BY DEF floorFor, askFor, cost
<1>10. /\ RoundDiv(cost * 115, 100) \in Int /\ 100 * RoundDiv(cost * 115, 100) >= cost * 115 - 50
       /\ 100 * RoundDiv(cost * 115, 100) <= cost * 115 + 50
  BY <1>8, RoundCent
<1>11. RoundDiv(cost * 160, 100) \in Int /\ 100 * RoundDiv(cost * 160, 100) >= cost * 160 - 50
  BY <1>8, RoundCent
<1> QED
  BY <1>7, <1>9, <1>10, <1>11

LEMMA JobForm ==
  ASSUME NEW job \in GcJobs
  PROVE  /\ job.budget \in Nat /\ job.deadline \in Deadlines /\ Len(job.parts) \in Nat
         /\ \A i \in 1 .. Len(job.parts) : job.parts[i].scan \in Scans /\ job.parts[i].tier \in Tiers
<1> DEFINE S == [scan : [klocTenths : Nat, numTools : Nat], tier : Tiers]
           parts == job.parts
<1>1. job.budget \in Nat /\ job.deadline \in Deadlines /\ parts \in Seq(S)
  BY GcJobsAssumption
<1> HIDE DEF S, parts
<1>2. Len(parts) \in Nat /\ \A i \in 1 .. Len(parts) : parts[i] \in S
  BY <1>1
<1>3. \A i \in 1 .. Len(parts) : parts[i].scan \in Scans /\ parts[i].tier \in Tiers
  BY <1>2 DEF Scans, S
<1> QED
  BY <1>1, <1>2, <1>3 DEF parts

LEMMA AsksIs ==
  ASSUME NEW job \in GcJobs
  PROVE  LET n == Len(job.parts) IN
         /\ \A i \in 1 .. n : Asks(job)[i] \in Nat /\ Asks(job)[i] > 0
         /\ SumOf(Asks(job), n) \in Nat
         /\ n > 0 => SumOf(Asks(job), n) > 0
<1> DEFINE n == Len(job.parts)
           x == Asks(job)
<1>1. n \in Nat
  BY JobForm
<1>2. ASSUME NEW i \in 1 .. n PROVE x[i] \in Nat /\ x[i] > 0
  <2>1. x[i] = askFor(job.parts[i].scan, job.parts[i].tier, job.deadline)
    BY DEF Asks
  <2>2. job.parts[i].scan \in Scans
    BY JobForm
  <2> HIDE DEF x
  <2> QED
    BY <2>1, <2>2, DeskPrices
<1> HIDE DEF n, x
<1>3. SumOf(x, n) \in Nat
  BY <1>1, <1>2, SumGrows
<1>4. ASSUME n > 0 PROVE SumOf(x, n) > 0
  <2>1. SumOf(x, 0 + 1) = SumOf(x, 0) + x[0 + 1] /\ SumOf(x, 0) = 0
    BY SumIs
  <2>2. 1 <= n /\ 1 \in 1 .. n /\ x[1] \in Nat /\ x[1] > 0
    BY <1>1, <1>2, <1>4
  <2>3. SumOf(x, 1) = x[1]
    BY <2>1, <2>2
  <2>4. SumOf(x, 1) <= SumOf(x, n)
    BY <1>1, <1>2, <2>2, SumGrows
  <2> QED
    BY <1>3, <2>2, <2>3, <2>4
<1> QED
  BY <1>2, <1>3, <1>4 DEF n, x

LEMMA AllocationIs ==
  ASSUME NEW job \in GcJobs, NEW i \in 1 .. Len(job.parts)
  PROVE  LET total == SumOf(Asks(job), Len(job.parts)) IN
         /\ allocation(job, i) \in Nat
         /\ 4 * total * allocation(job, i) <= 3 * job.budget * Asks(job)[i] + 2 * total
<1> DEFINE total == SumOf(Asks(job), Len(job.parts))
           ask == Asks(job)[i]
           num == 75 * job.budget * ask
           den == 100 * total
           a == 2 * num + den
           b == 2 * den
           p == job.budget * ask
<1>1. total \in Nat /\ total > 0 /\ ask \in Nat /\ ask > 0 /\ job.budget \in Nat
  <2>1. Len(job.parts) \in Nat /\ Len(job.parts) > 0 /\ job.budget \in Nat
    BY JobForm
  <2> QED
    BY <2>1, AsksIs
<1>2. allocation(job, i) = a \div b
  <2>1. allocation(job, i) = RoundDiv(num, 100 * (IF total = 0 THEN 1 ELSE total))
    BY DEF allocation
  <2>2. (IF total = 0 THEN 1 ELSE total) = total
    BY <1>1
  <2> HIDE DEF total, num
  <2> QED
    BY <2>1, <2>2 DEF RoundDiv
<1> HIDE DEF total, ask
<1>3. p \in Nat
  BY <1>1
<1>4. a = 150 * p + 100 * total /\ b = 200 * total
  BY <1>1
<1>5. a \in Nat /\ b \in Nat /\ b > 0
  <2> HIDE DEF a, b, p
  <2> QED
    BY <1>1, <1>3, <1>4
<1> DEFINE r == a \div b
<1>6. r \in Int /\ b * r <= a /\ a < b * r + b
  <2> HIDE DEF a, b
  <2> QED
    BY <1>5, Division
<1>7. r >= 0
  <2>1. ASSUME r < 0 PROVE FALSE
    <3> DEFINE s == r + 1
    <3>1. s \in Int /\ s <= 0 /\ r = s - 1
      BY <1>6, <2>1
    <3> HIDE DEF r, s, a, b
    <3>2. b * r + b = b * s
      BY <1>5, <3>1
    <3>3. b * s <= 0
      BY <1>5, <3>1
    <3> QED
      BY <1>5, <1>6, <3>2, <3>3
  <2> QED
    BY <1>6, <2>1
<1> DEFINE q == total * r
<1>8. q \in Int /\ b * r = 200 * q /\ 4 * total * r = 4 * q
  <2> HIDE DEF r, a
  <2> QED
    BY <1>1, <1>4, <1>6
<1>9. 4 * q <= 3 * p + 2 * total
  <2> HIDE DEF a, b, r, p, q
  <2> QED
    BY <1>1, <1>3, <1>4, <1>6, <1>8
<1>10. 3 * job.budget * ask = 3 * p
  BY <1>1
<1> HIDE DEF a, b, r, p, q
<1> QED
  BY <1>2, <1>6, <1>7, <1>8, <1>9, <1>10 DEF total, ask, r

LEMMA SubDealOK ==
  ASSUME NEW job \in GcJobs, NEW i \in 1 .. Len(job.parts)
  PROVE  DealOK(SubDeal(job, i))
<1> DEFINE part == job.parts[i]
           d == SubDeal(job, i)
           floors == [t \in Tiers |-> [dl \in Deadlines |-> floorFor(part.scan, t, dl)]]
           asks == [t \in Tiers |-> [dl \in Deadlines |-> askFor(part.scan, t, dl)]]
<1>1. job.deadline \in Deadlines /\ part.scan \in Scans /\ part.tier \in Tiers
  BY JobForm
<1>2. floors \in [Tiers -> [Deadlines -> Int]] /\ asks \in [Tiers -> [Deadlines -> Int]]
  <2>1. \A t \in Tiers, dl \in Deadlines : floorFor(part.scan, t, dl) \in Int /\ askFor(part.scan, t, dl) \in Int
    BY <1>1, DeskPrices
  <2> HIDE DEF part
  <2> QED
    BY <2>1
<1>3. \A t \in Tiers, dl \in Deadlines : floors[t][dl] > 0 /\ asks[t][dl] >= floors[t][dl]
  <2> HIDE DEF part
  <2> QED
    BY <1>1, DeskPrices
<1>4. allocation(job, i) \in Int
  BY AllocationIs
<1>5. /\ d.floor = floors /\ d.ask = asks /\ d.seller = "scripted"
  BY DEF SubDeal
<1>6. d \in Bargains
  <2>1. d = [tiers |-> Tiers, deadlines |-> {job.deadline}, floor |-> floors, ask |-> asks,
             budget |-> allocation(job, i), acceptable |-> {part.tier}, tier |-> part.tier,
             deadline |-> job.deadline, maxTurns |-> 6, seller |-> "scripted", buyer |-> "scripted"]
    BY DEF SubDeal
  <2> HIDE DEF d, floors, asks, part
  <2> QED
    BY <1>1, <1>2, <1>4, <2>1 DEF Bargains
<1> HIDE DEF d, floors, asks
<1> QED
  BY <1>3, <1>5, <1>6 DEF DealOK, Priced, d

SubOK(job, i, r) ==
  LET part == job.parts[i]  floor == floorFor(part.scan, part.tier, job.deadline) IN
  /\ r.terms.price \in Nat /\ r.terms.price <= allocation(job, i)
  /\ r.result = "agreed" => r.terms.price >= floor
  /\ r.result # "agreed" /\ job.deadline = "standard" => allocation(job, i) < floor
AllAgreed(subs) == \A i \in 1 .. Len(subs) : subs[i].result = "agreed"

\* Each component's result is within its allocation, and what it was sold for
\* reaches the specialist's floor; the bargain under way is the plan's.
GcInv ==
  \/ plan = GcOff
  \/ /\ plan.job \in GcJobs
     /\ IsSeq(plan.subs) /\ Len(plan.subs) <= Len(plan.job.parts)
     /\ \A i \in 1 .. Len(plan.subs) : SubOK(plan.job, i, plan.subs[i])
     /\ plan.phase \in {"sourcing", "negotiating", "selling", "done"}
     /\ plan.phase # "done" => plan.outcome = "none"
     /\ plan.phase = "negotiating" =>
          Len(plan.subs) < Len(plan.job.parts) /\ deal = SubDeal(plan.job, Len(plan.subs) + 1)
     /\ plan.phase = "selling" => AllAgreed(plan.subs) /\ deal = BundleDeal
     /\ plan.outcome = "awarded" =>
          AllAgreed(plan.subs) /\ plan.price \in Int /\ plan.price >= bundleFloor /\ plan.price <= plan.job.budget
     /\ plan.outcome = "no-source" => ~ AllAgreed(plan.subs)

\* What the components cost is a sum of natural numbers.
LEMMA CostIs ==
  ASSUME GcInv, plan # GcOff
  PROVE  /\ bundleCost \in Nat /\ bundleFloor \in Int /\ bundleFloor >= 0
         /\ 100 * bundleFloor >= 120 * bundleCost - 50
<1> DEFINE n == Len(plan.subs)
           x == [i \in 1 .. n |-> plan.subs[i].terms.price]
<1>1. n \in Nat /\ \A i \in 1 .. n : x[i] \in Nat
  BY Counting DEF GcInv, SubOK
<1>2. SumOf(x, n) \in Nat
  <2> HIDE DEF x, n
  <2> QED
    BY <1>1, SumGrows
<1>3. bundleCost = SumOf(x, n)
  BY DEF bundleCost
<1> HIDE DEF x, n
<1> DEFINE m == bundleCost * 120
<1>4. m \in Int /\ m >= 0 /\ m = 120 * bundleCost /\ bundleFloor = RoundDiv(m, 100)
  BY <1>2, <1>3 DEF bundleFloor
<1>5. RoundDiv(m, 100) \in Int /\ 100 * RoundDiv(m, 100) >= m - 50
  <2> HIDE DEF m
  <2> QED
    BY <1>4, RoundCent
<1> HIDE DEF m
<1> QED
  BY <1>2, <1>3, <1>4, <1>5

LEMMA BundleDealOK ==
  ASSUME GcInv, plan # GcOff
  PROVE  DealOK(BundleDeal)
<1> DEFINE f == bundleFloor
           flat == [t \in Tiers |-> [dl \in Deadlines |-> f]]
           job == plan.job
           d == BundleDeal
<1>1. f \in Int /\ f >= 0
  BY CostIs
<1>2. job.deadline \in Deadlines /\ job.budget \in Nat
  BY JobForm DEF GcInv
<1>3. d = [tiers |-> {"deep"}, deadlines |-> {job.deadline}, floor |-> flat, ask |-> flat,
           budget |-> job.budget, acceptable |-> {"deep"}, tier |-> "deep",
           deadline |-> job.deadline, maxTurns |-> 6, seller |-> "bundle", buyer |-> "scripted"]
  BY DEF BundleDeal
<1> HIDE DEF f, job, d
<1>4. "deep" \in Tiers /\ flat \in [Tiers -> [Deadlines -> Int]] /\ flat["deep"][job.deadline] = f
  BY <1>1, <1>2 DEF Tiers
<1> HIDE DEF flat
<1>5. d \in Bargains
  BY <1>2, <1>3, <1>4 DEF Bargains
<1>6. /\ d.seller = "bundle" /\ d.tiers = {"deep"} /\ d.deadlines = {d.deadline} /\ d.floor["deep"][d.deadline] = f
  BY <1>3, <1>4
<1> QED
  BY <1>1, <1>5, <1>6 DEF DealOK, d

\* What a component's bargain comes to.
LEMMA AnswerOK ==
  ASSUME BargainInv, outcome # Open, NEW job \in GcJobs, NEW i \in 1 .. Len(job.parts), deal = SubDeal(job, i)
  PROVE  SubOK(job, i, outcome)
<1> DEFINE part == job.parts[i]
           floor == floorFor(part.scan, part.tier, job.deadline)
           a == allocation(job, i)
           d == SubDeal(job, i)
<1>1. a \in Nat /\ job.deadline \in Deadlines /\ part.tier \in Tiers /\ floor \in Int /\ floor > 0
  BY AllocationIs, JobForm, DeskPrices
<1>2. /\ d.tiers = Tiers /\ d.deadlines = {job.deadline} /\ d.budget = a /\ d.acceptable = {part.tier}
      /\ d.tier = part.tier /\ d.deadline = job.deadline /\ d.maxTurns = 6 /\ d.seller = "scripted" /\ d.buyer = "scripted"
      /\ d.floor[part.tier][job.deadline] = floor
  BY <1>1 DEF SubDeal
<1> HIDE DEF part, floor, a, d
<1>3. CASE outcome.result = "agreed"
  <2>1. sellerMaySettle(outcome.terms, d) /\ buyerMaySettle(outcome.terms, d) /\ outcome.terms.price \in Int
    BY <1>3 DEF BargainInv, d
  <2>2. /\ outcome.terms.tier = part.tier /\ outcome.terms.deadline = job.deadline /\ outcome.terms.price > 0
        /\ outcome.terms.price >= floor /\ outcome.terms.price <= a
    BY <1>2, <2>1 DEF sellerMaySettle, buyerMaySettle, validTermsShape
  <2> QED
    BY <1>3, <2>1, <2>2 DEF SubOK, part, floor, a
<1>4. CASE outcome = Walked
  <2>1. outcome.result = "walked" /\ outcome.terms.price = 0
    BY <1>4 DEF Walked, NoTerms
  <2>2. ~ Room(d)
    BY <2>1 DEF BargainInv, d
  <2>3. job.deadline = "standard" => ~(floor <= a)
    BY <1>2, <2>2 DEF Room
  <2> QED
    BY <1>1, <2>1, <2>3 DEF SubOK, part, floor, a
<1> QED
  BY <1>3, <1>4 DEF BargainInv

LEMMA PlanFields ==
  ASSUME NEW phase, NEW job, NEW subs, NEW result, NEW price
  PROVE  LET p == Plan(phase, job, subs, result, price) IN
         p.phase = phase /\ p.job = job /\ p.subs = subs /\ p.outcome = result /\ p.price = price
BY DEF Plan

LEMMA GcStill ==
  ASSUME GcInv, plan' = plan, deal' = deal \/ plan = GcOff
  PROVE  GcInv'
<1>1. CASE plan = GcOff
  BY <1>1 DEF GcInv
<1>2. CASE plan # GcOff
  <2>1. bundleFloor' = bundleFloor /\ BundleDeal' = BundleDeal
    BY DEF BundleDeal, bundleFloor, bundleCost
  <2> QED
    BY <1>2, <2>1 DEF GcInv
<1> QED
  BY <1>1, <1>2

LEMMA GcSource ==
  ASSUME GcInv, SourcePart
  PROVE  GcInv' /\ BargainInv'
<1> DEFINE job == plan.job
           n == Len(plan.subs)
<1>1. /\ plan.phase = "sourcing" /\ n < Len(job.parts) /\ Begin(SubDeal(job, n + 1))
      /\ plan' = Plan("negotiating", job, plan.subs, "none", 0)
  BY DEF SourcePart
<1>2. plan # GcOff
  BY <1>1 DEF GcOff, Plan
<1>3. job \in GcJobs /\ n \in Nat /\ Len(job.parts) \in Nat
  BY <1>2, JobForm, Counting DEF GcInv
<1>4. n + 1 \in 1 .. Len(job.parts)
  BY <1>1, <1>3
<1>5. BargainInv' /\ deal' = SubDeal(job, n + 1)
  <2>1. DealOK(SubDeal(job, n + 1))
    BY <1>3, <1>4, SubDealOK
  <2> QED
    BY <1>1, <2>1, BargainBegun
<1>6. plan'.phase = "negotiating" /\ plan'.job = job /\ plan'.subs = plan.subs /\ plan'.outcome = "none" /\ plan'.price = 0
  BY <1>1, PlanFields
<1> QED
  BY <1>1, <1>2, <1>3, <1>5, <1>6 DEF GcInv

LEMMA GcPart ==
  ASSUME GcInv, BargainInv, PartAnswered
  PROVE  GcInv' /\ BargainInv'
<1> DEFINE job == plan.job
           n == Len(plan.subs)
           subs == Append(plan.subs, outcome)
<1>1. /\ plan.phase = "negotiating" /\ outcome # Open /\ UNCHANGED negVars
      /\ plan' = Plan("sourcing", job, subs, "none", 0)
  BY DEF PartAnswered
<1>2. plan # GcOff
  BY <1>1 DEF GcOff, Plan
<1>3. /\ job \in GcJobs /\ Len(job.parts) \in Nat /\ IsSeq(plan.subs) /\ n < Len(job.parts) /\ deal = SubDeal(job, n + 1)
      /\ \A i \in 1 .. n : SubOK(job, i, plan.subs[i])
  BY <1>1, <1>2, JobForm DEF GcInv
<1>4. n \in Nat /\ IsSeq(subs) /\ Len(subs) = n + 1 /\ subs[n + 1] = outcome /\ \A i \in 1 .. n : subs[i] = plan.subs[i]
  BY <1>3, AppendIsSeq
<1> HIDE DEF subs
<1>5. n + 1 \in 1 .. Len(job.parts)
  BY <1>3, <1>4
<1>6. SubOK(job, n + 1, outcome)
  BY <1>1, <1>3, <1>5, AnswerOK
<1>7. \A i \in 1 .. Len(subs) : SubOK(job, i, subs[i])
  <2> SUFFICES ASSUME NEW i \in 1 .. n + 1 PROVE SubOK(job, i, subs[i])
    BY <1>4
  <2>1. CASE i = n + 1
    BY <1>4, <1>6, <2>1
  <2>2. CASE i # n + 1
    <3>1. i \in 1 .. n
      BY <1>4, <2>2
    <3> QED
      BY <1>3, <1>4, <3>1
  <2> QED
    BY <2>1, <2>2
<1>8. plan'.phase = "sourcing" /\ plan'.job = job /\ plan'.subs = subs /\ plan'.outcome = "none" /\ plan'.price = 0
  BY <1>1, PlanFields
<1>9. GcInv'
  <2>1. Len(subs) <= Len(job.parts)
    BY <1>4, <1>5
  <2> HIDE DEF job, n
  <2>2. plan'.job \in GcJobs /\ IsSeq(plan'.subs) /\ Len(plan'.subs) <= Len(plan'.job.parts)
    BY <1>3, <1>4, <1>8, <2>1 DEF job
  <2>3. \A i \in 1 .. Len(plan'.subs) : SubOK(plan'.job, i, plan'.subs[i])
    BY <1>7, <1>8
  <2> QED
    BY <1>8, <2>2, <2>3 DEF GcInv
<1> QED
  BY <1>1, <1>9, BargainStill

LEMMA GcAssemble ==
  ASSUME GcInv, BargainInv, AssembleBundle
  PROVE  GcInv' /\ BargainInv'
<1> DEFINE job == plan.job
<1>1. plan.phase = "sourcing"
  BY DEF AssembleBundle
<1>2. plan # GcOff
  BY <1>1 DEF GcOff, Plan
<1>3. CASE AllAgreed(plan.subs)
  <2>1. plan' = Plan("selling", job, plan.subs, "none", 0) /\ Begin(BundleDeal)
    BY <1>3 DEF AssembleBundle, AllAgreed
  <2>2. BargainInv' /\ deal' = BundleDeal
    BY <1>2, <2>1, BundleDealOK, BargainBegun
  <2>3. plan'.phase = "selling" /\ plan'.job = job /\ plan'.subs = plan.subs /\ plan'.outcome = "none" /\ plan'.price = 0
    BY <2>1, PlanFields
  <2>4. BundleDeal' = BundleDeal
    BY <2>3 DEF BundleDeal, bundleFloor, bundleCost
  <2> QED
    BY <1>2, <1>3, <2>2, <2>3, <2>4 DEF GcInv
<1>4. CASE ~ AllAgreed(plan.subs)
  <2>1. plan' = Plan("done", job, plan.subs, "no-source", 0) /\ UNCHANGED negVars
    BY <1>4 DEF AssembleBundle, AllAgreed
  <2>2. plan'.phase = "done" /\ plan'.job = job /\ plan'.subs = plan.subs /\ plan'.outcome = "no-source" /\ plan'.price = 0
    BY <2>1, PlanFields
  <2> QED
    BY <1>2, <1>4, <2>1, <2>2, BargainStill DEF GcInv
<1> QED
  BY <1>3, <1>4

LEMMA GcSold ==
  ASSUME GcInv, BargainInv, BundleAnswered
  PROVE  GcInv' /\ BargainInv'
<1> DEFINE job == plan.job
           result == IF outcome.result = "agreed" THEN "awarded" ELSE "no-deal"
           price == outcome.terms.price
<1>1. /\ plan.phase = "selling" /\ UNCHANGED negVars
      /\ plan' = Plan("done", job, plan.subs, result, price)
  BY DEF BundleAnswered
<1>2. plan # GcOff
  BY <1>1 DEF GcOff, Plan
<1>3. plan'.phase = "done" /\ plan'.job = job /\ plan'.subs = plan.subs /\ plan'.outcome = result /\ plan'.price = price
  <2> HIDE DEF result, price, job
  <2> QED
    BY <1>1, PlanFields
<1>4. bundleFloor' = bundleFloor
  BY <1>3 DEF bundleFloor, bundleCost
<1>5. AllAgreed(plan.subs) /\ deal = BundleDeal /\ job.deadline \in Deadlines
  BY <1>1, <1>2, JobForm DEF GcInv
<1>6. ASSUME outcome.result = "agreed"
      PROVE  price \in Int /\ price >= bundleFloor /\ price <= job.budget
  <2> DEFINE d == BundleDeal
  <2>1. sellerMaySettle(outcome.terms, d) /\ buyerMaySettle(outcome.terms, d) /\ price \in Int
    BY <1>5, <1>6 DEF BargainInv
  <2>2. d.tiers = {"deep"} /\ d.deadlines = {job.deadline} /\ d.budget = job.budget /\ d.floor["deep"][job.deadline] = bundleFloor
    BY <1>5 DEF BundleDeal, Tiers
  <2> HIDE DEF d
  <2> QED
    BY <2>1, <2>2 DEF sellerMaySettle, buyerMaySettle, validTermsShape
<1> HIDE DEF price
<1>7. GcInv'
  BY <1>2, <1>3, <1>4, <1>5, <1>6 DEF GcInv
<1> QED
  BY <1>1, <1>7, BargainStill

LEMMA GcStep ==
  ASSUME GcInv, BargainInv, GcNext
  PROVE  GcInv' /\ BargainInv'
BY GcSource, GcPart, GcAssemble, GcSold DEF GcNext

LEMMA GcStart ==
  ASSUME GcInit
  PROVE  GcInv
<1>1. PICK j \in GcJobs : plan = Plan("sourcing", j, <<>>, "none", 0)
  BY DEF GcInit
<1>2. plan.phase = "sourcing" /\ plan.job = j /\ plan.subs = <<>> /\ plan.outcome = "none"
  BY <1>1, PlanFields
<1>3. Len(plan.subs) = 0 /\ IsSeq(plan.subs) /\ Len(j.parts) \in Nat
  BY <1>2, EmptyIsSeq, JobForm
<1> QED
  BY <1>2, <1>3 DEF GcInv

LEMMA GcHolds ==
  ASSUME GcInv
  PROVE  AwardCoversItsParts /\ SourcingBudget /\ StandardIsSourced
<1>1. CASE plan = GcOff
  <2>1. plan.outcome = "none" /\ plan.subs = <<>> /\ plan.job = NoJob
    BY <1>1, PlanFields DEF GcOff
  <2>2. Len(plan.subs) = 0 /\ plan.job.budget = 0 /\ Len(plan.job.parts) = 0
    BY <2>1 DEF NoJob
  <2>3. bundleCost = 0
    BY <2>2, SumIs DEF bundleCost
  <2> QED
    BY <2>1, <2>2, <2>3 DEF AwardCoversItsParts, SourcingBudget, StandardIsSourced, SourcedWhenAffordable
<1>2. CASE plan # GcOff
  <2> DEFINE job == plan.job
             n == Len(plan.subs)
             x == [i \in 1 .. n |-> plan.subs[i].terms.price]
             asks == Asks(job)
             total == SumOf(asks, Len(job.parts))
             part == SumOf(asks, n)
  <2>1. /\ job \in GcJobs /\ n \in Nat /\ Len(job.parts) \in Nat /\ n <= Len(job.parts) /\ job.budget \in Nat
        /\ \A i \in 1 .. n : SubOK(job, i, plan.subs[i])
    BY <1>2, JobForm, Counting DEF GcInv
  <2>2. AwardCoversItsParts
    <3> SUFFICES ASSUME plan.outcome = "awarded"
                 PROVE  /\ 100 * plan.price >= 120 * bundleCost - 50 /\ plan.price <= plan.job.budget
                        /\ \A i \in 1 .. Len(plan.subs) :
                             plan.subs[i].terms.price >= floorFor(plan.job.parts[i].scan, plan.job.parts[i].tier, plan.job.deadline)
      BY DEF AwardCoversItsParts
    <3>1. AllAgreed(plan.subs) /\ plan.price \in Int /\ plan.price >= bundleFloor /\ plan.price <= plan.job.budget
      BY <1>2 DEF GcInv
    <3>2. bundleCost \in Nat /\ bundleFloor \in Int /\ 100 * bundleFloor >= 120 * bundleCost - 50
      BY <1>2, CostIs
    <3>3. 100 * plan.price >= 120 * bundleCost - 50
      BY <3>1, <3>2
    <3> QED
      BY <2>1, <3>1, <3>3 DEF SubOK, AllAgreed
  <2>3. SourcingBudget
    <3>1. CASE Len(job.parts) = 0
      <4>1. n = 0
        BY <2>1, <3>1
      <4>2. bundleCost = 0
        BY <4>1, SumIs DEF bundleCost
      <4> QED
        BY <2>1, <3>1, <4>2 DEF SourcingBudget
    <3>2. CASE Len(job.parts) > 0
      <4>1. total \in Nat /\ total > 0 /\ \A i \in 1 .. Len(job.parts) : asks[i] \in Nat
        BY <2>1, <3>2, AsksIs
      <4> DEFINE a == 4 * total
                 b == 3 * job.budget
                 c == 2 * total
      <4>2. a \in Int /\ b \in Int /\ c \in Int
        BY <2>1, <4>1
      <4>3. ASSUME NEW i \in 1 .. n
            PROVE  x[i] \in Int /\ asks[i] \in Int /\ a * x[i] <= b * asks[i] + c
        <5>1. i \in 1 .. Len(job.parts)
          BY <2>1
        <5> DEFINE al == allocation(job, i)
        <5>2. al \in Nat /\ 4 * total * al <= 3 * job.budget * asks[i] + 2 * total
          BY <2>1, <5>1, AllocationIs
        <5>3. x[i] \in Nat /\ x[i] <= al
          BY <2>1 DEF SubOK
        <5> HIDE DEF al, x, total, asks, a
        <5>4. a \in Nat /\ a = 4 * total
          BY <4>1 DEF a
        <5>5. a * x[i] <= a * al
          BY <5>2, <5>3, <5>4
        <5>6. a * al <= b * asks[i] + c
          BY <5>2, <5>4
        <5> HIDE DEF b, c
        <5>7. asks[i] \in Nat /\ a * x[i] \in Int /\ a * al \in Int /\ b * asks[i] + c \in Int
          <6>1. asks[i] \in Nat
            BY <4>1, <5>1
          <6> QED
            BY <4>2, <5>2, <5>3, <5>4, <6>1
        <5> QED
          BY <5>3, <5>5, <5>6, <5>7
      <4>4. SumOf(x, n) \in Int /\ a * SumOf(x, n) <= b * part + c * n
        <5> HIDE DEF x, asks, a, b, c
        <5> QED
          BY <2>1, <4>2, <4>3, SumBound
      <4>5. part \in Nat /\ part <= total
        <5> HIDE DEF asks
        <5> QED
          BY <2>1, <4>1, SumGrows
      <4> DEFINE cost == SumOf(x, n)
      <4>6. cost = bundleCost
        BY DEF bundleCost
      <4> HIDE DEF cost, total, part, x, asks, n
      <4>7. cost \in Int /\ a * cost <= b * part + c * n /\ a * cost = 4 * total * cost /\ b \in Nat /\ c = 2 * total
        BY <2>1, <4>4 DEF cost
      <4>8. n \in Nat /\ n <= Len(job.parts) /\ Len(job.parts) \in Nat /\ job.budget \in Nat /\ b = 3 * job.budget
        BY <2>1
      <4> HIDE DEF a, b, c, job
      <4>9. 4 * cost <= b + 2 * n
        BY <4>1, <4>5, <4>7, <4>8, ShareOut
      <4>10. cost \in Int
        BY <4>7
      <4> DEFINE k == job.budget
                 m == Len(job.parts)
      <4>11. k \in Nat /\ m \in Nat /\ n \in Nat /\ n <= m /\ 4 * cost <= 3 * k + 2 * n
        BY <4>8, <4>9
      <4> HIDE DEF k, m
      <4>12. 100 * cost <= 75 * k + 50 * m
        BY <4>10, <4>11
      <4> QED
        BY <4>6, <4>12 DEF SourcingBudget, job, k, m
    <3> QED
      BY <2>1, <3>1, <3>2
  <2>4. StandardIsSourced
    <3> SUFFICES ASSUME job.deadline = "standard", plan.outcome = "no-source"
                 PROVE  \E i \in 1 .. Len(job.parts) :
                          allocation(job, i) < floorFor(job.parts[i].scan, job.parts[i].tier, "standard")
      BY DEF StandardIsSourced, SourcedWhenAffordable
    <3>1. PICK i \in 1 .. n : plan.subs[i].result # "agreed"
      BY <1>2 DEF GcInv, AllAgreed
    <3>2. i \in 1 .. Len(job.parts)
      BY <2>1
    <3> QED
      BY <2>1, <3>1, <3>2 DEF SubOK
  <2> QED
    BY <2>2, <2>3, <2>4
<1> QED
  BY <1>1, <1>2

-----------------------------------------------------------------------------
(* The butler.                                                             *)

LEMMA ErrandForm ==
  ASSUME NEW e \in Errands
  PROVE  /\ e.budget \in Nat /\ e.budget > 0 /\ e.units \in Nat
         /\ \A l \in e.listings :
              /\ l.id \in Nat /\ l.floor \in Nat /\ l.rating \in Nat /\ l.jobs \in Nat /\ l.disputes \in Nat
              /\ askPriceOf(l, e.units) \in Nat /\ askPriceOf(l, 1) \in Nat
              /\ l.negotiable => l.floor <= askPriceOf(l, 1)
<1>1. /\ e.budget \in Nat \ {0} /\ e.units \in Nat \ {0}
      /\ \A l \in e.listings :
            /\ l.id \in Nat /\ l.price \in Nat /\ l.minTotal \in Nat
            /\ l.floor \in Nat /\ (l.negotiable => l.floor <= askPriceOf(l, 1))
            /\ l.rating \in Nat /\ l.jobs \in Nat /\ l.disputes \in Nat
  BY ErrandsAssumption
<1>2. ASSUME NEW l \in e.listings, NEW u \in Nat PROVE askPriceOf(l, u) \in Nat
  <2>1. l.price \in Nat /\ l.minTotal \in Nat
    BY <1>1
  <2>2. l.price * u \in Nat
    BY <1>2, <2>1
  <2> QED
    BY <2>1, <2>2 DEF askPriceOf, Max2
<1>3. 1 \in Nat
  OBVIOUS
<1> QED
  BY <1>1, <1>2, <1>3

LEMMA RailIs ==
  ASSUME NEW l
  PROVE  bestRail(l) \in Int
<1> DEFINE ranks == {i \in 1 .. Len(RailPreference) : RailPreference[i] \in l.rails}
<1>1. Len(RailPreference) = 3
  BY DEF RailPreference
<1>2. ranks \subseteq Nat
  BY <1>1
<1>3. bestRail(l) = IF ranks = {} THEN 0 ELSE CHOOSE i \in ranks : \A j \in ranks : i <= j
  BY DEF bestRail
<1> HIDE DEF ranks
<1>4. CASE ranks = {}
  BY <1>3, <1>4
<1>5. CASE ranks # {}
  <2> DEFINE least == CHOOSE i \in ranks : \A j \in ranks : i <= j
  <2>1. \E i \in ranks : \A j \in ranks : i <= j
    BY <1>2, <1>5, LeastOf
  <2>2. least \in ranks
    BY <2>1
  <2>3. bestRail(l) = least
    BY <1>3, <1>5
  <2> HIDE DEF least
  <2> QED
    BY <1>2, <2>2, <2>3
<1> QED
  BY <1>4, <1>5

LEMMA ScoreIs ==
  ASSUME NEW e \in Errands, NEW l \in e.listings
  PROVE  score(l, askPriceOf(l, e.units), e.budget) \in Int
<1> DEFINE ask == askPriceOf(l, e.units)
           price == Max2(0, e.budget - ask)
           rail == Len(RailPreference) - bestRail(l) + 1
           quality == (14 * l.rating + 6 * Min2(l.jobs, 50)) * (100 - l.disputes)
           num == 350 * price * 750 + 250 * rail * e.budget * 250 + quality * e.budget * 3
           den == e.budget * 750
<1>1. e.budget \in Nat /\ e.budget > 0 /\ ask \in Nat /\ l.rating \in Nat /\ l.jobs \in Nat /\ l.disputes \in Nat
  BY ErrandForm
<1>2. price \in Int
  <2> HIDE DEF ask
  <2> QED
    BY <1>1 DEF Max2
<1>3. rail \in Int
  BY RailIs DEF RailPreference
<1>4. quality \in Int
  <2>1. Min2(l.jobs, 50) \in Int
    BY <1>1 DEF Min2
  <2> QED
    BY <1>1, <2>1
<1> HIDE DEF price, rail, quality
<1>5. num \in Int
  BY <1>1, <1>2, <1>3, <1>4
<1>6. den \in Nat /\ 2 * den \in Nat /\ 2 * den > 0 /\ 2 * num + den \in Int
  <2>1. den \in Nat /\ den > 0
    BY <1>1
  <2> HIDE DEF den, num
  <2> QED
    BY <1>5, <2>1
<1>7. score(l, ask, e.budget) = RoundDiv(num, den)
  BY DEF score, price, rail, quality
<1> HIDE DEF num, den
<1> QED
  BY <1>6, <1>7, Division DEF RoundDiv

LEMMA BeforeIs ==
  ASSUME NEW e \in Errands, NEW a \in e.listings, NEW b \in e.listings, Before(e, a, b)
  PROVE  ~ Before(e, b, a)
<1> DEFINE s(l) == score(l, askPriceOf(l, e.units), e.budget)
<1>1. s(a) \in Int /\ s(b) \in Int /\ a.id \in Int /\ b.id \in Int
  BY ScoreIs, ErrandForm
<1>2. /\ Before(e, a, b) <=> s(a) > s(b) \/ (s(a) = s(b) /\ a.id < b.id)
      /\ Before(e, b, a) <=> s(b) > s(a) \/ (s(b) = s(a) /\ b.id < a.id)
  BY DEF Before
<1> HIDE DEF s
<1> QED
  BY <1>1, <1>2

ViableOf(e) == {l \in e.listings : Viable(e, l)}
OutOfReach(e, l) == LastPrice(e, l) > Min2(e.budget, askPriceOf(l, e.units))
Foremost(e, queue, l) == l \in queue /\ \A m \in queue \ {l} : Before(e, l, m)

\* The butler tries the viable listings in order: the one in hand comes before
\* all that are left, and what a scalar goal has given up on was out of reach.
ButlerInv ==
  LET e == butler.errand  l == butler.candidate IN
  \/ butler = ButlerOff
  \/ /\ DOMAIN butler = {"phase", "errand", "queue", "candidate", "round", "willing", "price", "verdict"}
     /\ e \in Errands /\ butler.queue \subseteq ViableOf(e)
     /\ butler.phase \in {"choosing", "haggling", "rfq", "awarded", "no-award"}
     /\ butler.phase \in {"haggling", "rfq", "awarded"} => Foremost(e, butler.queue, l)
     /\ butler.phase = "haggling" =>
          /\ e.rfq = NoRfq /\ l.negotiable /\ butler.round \in 1 .. ButlerRounds
          /\ butler.willing \in Int /\ butler.willing <= Min2(e.budget, askPriceOf(l, e.units))
     /\ butler.phase = "rfq" => e.rfq # NoRfq /\ deal = RfqDeal(l, e.rfq)
     /\ butler.phase = "awarded" =>
          /\ butler.price \in Int /\ butler.price <= e.budget
          /\ e.rfq = NoRfq => butler.price <= askPriceOf(l, e.units)
     /\ butler.phase = "no-award" => butler.queue = {}
     /\ e.rfq = NoRfq => \A m \in ViableOf(e) \ butler.queue : OutOfReach(e, m)

LEMMA BooksFields ==
  ASSUME NEW phase, NEW e, NEW queue, NEW l, NEW round, NEW willing, NEW price
  PROVE  LET b == Books(phase, e, queue, l, round, willing, price) IN
         /\ b.phase = phase /\ b.errand = e /\ b.queue = queue /\ b.candidate = l
         /\ b.round = round /\ b.willing = willing /\ b.price = price
         /\ DOMAIN b = {"phase", "errand", "queue", "candidate", "round", "willing", "price", "verdict"}
BY DEF Books

LEMMA RfqDealOK ==
  ASSUME NEW e \in Errands, NEW l \in e.listings, e.rfq # NoRfq, e.rfq.acceptable \cap l.desk.tiers # {}
  PROVE  DealOK(RfqDeal(l, e.rfq))
<1> DEFINE rfq == e.rfq
           scan == l.desk.scan
           offers == l.desk.tiers
           acceptable == rfq.acceptable \cap offers
           floors == [t \in Tiers |-> [dl \in Deadlines |-> floorFor(scan, t, dl)]]
           asks == [t \in Tiers |-> [dl \in Deadlines |-> askFor(scan, t, dl)]]
           tier == IF rfq.tier \in acceptable THEN rfq.tier ELSE CHOOSE t \in acceptable : TRUE
           d == RfqDeal(l, rfq)
<1>1. rfq.budget \in Int /\ rfq.deadline \in Deadlines
  <2>1. rfq.budget \in 0 .. e.budget /\ rfq.deadline \in Deadlines
    BY ErrandsAssumption
  <2> QED
    BY <2>1
<1>2. offers \in SUBSET Tiers /\ scan \in Scans
  <2>1. l.desk \in [tiers : SUBSET Tiers, scan : [klocTenths : Nat, numTools : Nat]]
    BY ErrandsAssumption
  <2> QED
    BY <2>1 DEF Scans
<1>3. d = [tiers |-> offers, deadlines |-> Deadlines, floor |-> floors, ask |-> asks,
           budget |-> rfq.budget, acceptable |-> acceptable, tier |-> tier,
           deadline |-> rfq.deadline, maxTurns |-> 6, seller |-> "scripted", buyer |-> "scripted"]
  BY DEF RfqDeal
<1>4. tier \in acceptable
  OBVIOUS
<1>5. acceptable \in SUBSET Tiers /\ tier \in Tiers
  <2> HIDE DEF tier, offers
  <2> QED
    BY <1>2, <1>4
<1>6. floors \in [Tiers -> [Deadlines -> Int]] /\ asks \in [Tiers -> [Deadlines -> Int]]
  <2>1. \A t \in Tiers, dl \in Deadlines : floorFor(scan, t, dl) \in Int /\ askFor(scan, t, dl) \in Int
    BY <1>2, DeskPrices
  <2> HIDE DEF scan
  <2> QED
    BY <2>1
<1>7. \A t \in Tiers, dl \in Deadlines : floors[t][dl] > 0 /\ asks[t][dl] >= floors[t][dl]
  <2> HIDE DEF scan
  <2> QED
    BY <1>2, DeskPrices
<1> HIDE DEF d, floors, asks, tier, acceptable, offers, rfq
<1>8. d \in Bargains
  BY <1>1, <1>2, <1>3, <1>5, <1>6 DEF Bargains
<1>9. Priced(d) /\ d.seller = "scripted"
  BY <1>3, <1>7 DEF Priced
<1> QED
  BY <1>8, <1>9 DEF DealOK, d, rfq

LEMMA ButlerStill ==
  ASSUME ButlerInv, butler' = butler, deal' = deal \/ butler = ButlerOff
  PROVE  ButlerInv'
<1>1. CASE butler = ButlerOff
  BY <1>1 DEF ButlerInv
<1>2. CASE butler # ButlerOff
  BY <1>2 DEF ButlerInv
<1> QED
  BY <1>1, <1>2

LEMMA ButlerStart ==
  ASSUME ButlerInit
  PROVE  ButlerInv
<1>1. PICK e \in Errands : butler = procure(e)
  BY DEF ButlerInit
<1>2. /\ butler.phase = "choosing" /\ butler.errand = e /\ butler.queue = ViableOf(e)
      /\ DOMAIN butler = {"phase", "errand", "queue", "candidate", "round", "willing", "price", "verdict"}
  <2>1. butler = Books("choosing", e, ViableOf(e), NoListing, 0, 0, 0)
    BY <1>1 DEF procure, ViableOf
  <2> QED
    BY <2>1, BooksFields
<1> QED
  BY <1>2 DEF ButlerInv

\* What holds of a listing that may be tried.
LEMMA InHand ==
  ASSUME ButlerInv, butler.phase # "off"
  PROVE  /\ butler.errand \in Errands /\ butler.queue \subseteq ViableOf(butler.errand)
         /\ butler.queue \subseteq butler.errand.listings
         /\ \A l \in butler.queue : Viable(butler.errand, l)
         /\ butler # ButlerOff
<1>1. butler # ButlerOff
  BY DEF ButlerOff, Books
<1> QED
  BY <1>1 DEF ButlerInv, ViableOf

LEMMA AwardOK ==
  ASSUME ButlerInv, butler.phase # "off", NEW l, Foremost(butler.errand, butler.queue, l), NEW price \in Int,
         price <= butler.errand.budget,
         butler.errand.rfq = NoRfq => price <= askPriceOf(l, butler.errand.units),
         Award(l, price), UNCHANGED negVars
  PROVE  ButlerInv'
<1>1. butler # ButlerOff
  BY InHand
<1>2. /\ butler'.phase = "awarded" /\ butler'.errand = butler.errand /\ butler'.queue = butler.queue
      /\ butler'.candidate = l /\ butler'.price = price
      /\ DOMAIN butler' = {"phase", "errand", "queue", "candidate", "round", "willing", "price", "verdict"}
  BY BooksFields DEF Award
<1> QED
  BY <1>1, <1>2 DEF ButlerInv

LEMMA GiveUpOK ==
  ASSUME ButlerInv, butler.phase # "off", NEW l,
         butler.errand.rfq = NoRfq => OutOfReach(butler.errand, l),
         GiveUpOn(l), UNCHANGED negVars
  PROVE  ButlerInv'
<1>1. butler # ButlerOff
  BY InHand
<1>2. /\ butler'.phase = "choosing" /\ butler'.errand = butler.errand /\ butler'.queue = butler.queue \ {l}
      /\ DOMAIN butler' = {"phase", "errand", "queue", "candidate", "round", "willing", "price", "verdict"}
  BY BooksFields DEF GiveUpOn
<1>3. butler.errand.rfq = NoRfq => \A m \in ViableOf(butler.errand) \ butler'.queue : OutOfReach(butler.errand, m)
  BY <1>1, <1>2 DEF ButlerInv
<1> QED
  BY <1>1, <1>2, <1>3 DEF ButlerInv

LEMMA HaggleOK ==
  ASSUME ButlerInv, butler.phase # "off", NEW l, Foremost(butler.errand, butler.queue, l), l.negotiable,
         butler.errand.rfq = NoRfq, NEW round \in 1 .. ButlerRounds, NEW willing \in Int,
         willing <= Min2(butler.errand.budget, askPriceOf(l, butler.errand.units)),
         Haggle(l, round, willing), UNCHANGED negVars
  PROVE  ButlerInv'
<1>1. butler # ButlerOff
  BY InHand
<1>2. /\ butler'.phase = "haggling" /\ butler'.errand = butler.errand /\ butler'.queue = butler.queue
      /\ butler'.candidate = l /\ butler'.round = round /\ butler'.willing = willing
      /\ DOMAIN butler' = {"phase", "errand", "queue", "candidate", "round", "willing", "price", "verdict"}
  BY BooksFields DEF Haggle
<1> QED
  BY <1>1, <1>2 DEF ButlerInv

LEMMA ButlerNoAward ==
  ASSUME ButlerInv, NoAward
  PROVE  ButlerInv'
<1>1. butler.phase = "choosing" /\ butler.queue = {}
  BY DEF NoAward
<1>2. butler # ButlerOff
  BY <1>1, InHand
<1>3. /\ butler'.phase = "no-award" /\ butler'.errand = butler.errand /\ butler'.queue = {}
      /\ DOMAIN butler' = {"phase", "errand", "queue", "candidate", "round", "willing", "price", "verdict"}
  BY BooksFields DEF NoAward
<1> QED
  BY <1>1, <1>2, <1>3 DEF ButlerInv

LEMMA ButlerFixed ==
  ASSUME ButlerInv, NEW l \in butler.queue, TakeFixed(l)
  PROVE  ButlerInv'
<1>1. butler.phase = "choosing" /\ Foremost(butler.errand, butler.queue, l) /\ ~ l.negotiable
      /\ Award(l, AskOf(l)) /\ UNCHANGED negVars
  BY DEF TakeFixed, IsNext, Foremost
<1>2. butler.errand \in Errands /\ l \in butler.errand.listings /\ Viable(butler.errand, l)
  BY <1>1, InHand
<1>3. askPriceOf(l, butler.errand.units) \in Int /\ butler.errand.budget \in Int
      /\ askPriceOf(l, butler.errand.units) <= butler.errand.budget
  BY <1>1, <1>2, ErrandForm DEF Viable
<1>4. AskOf(l) = askPriceOf(l, butler.errand.units)
  BY DEF AskOf
<1> QED
  BY <1>1, <1>3, <1>4, AwardOK

LEMMA ButlerStarts ==
  ASSUME ButlerInv, NEW l \in butler.queue, StartHaggling(l)
  PROVE  ButlerInv'
<1> DEFINE ask == askPriceOf(l, butler.errand.units)
           most == Min2(butler.errand.budget, ask)
           first == Min2(most, RoundDiv(75 * ask, 100))
<1>1. butler.phase = "choosing" /\ Foremost(butler.errand, butler.queue, l) /\ l.negotiable
      /\ butler.errand.rfq = NoRfq /\ Haggle(l, 1, first) /\ UNCHANGED negVars
  BY DEF StartHaggling, IsNext, Foremost, AskOf
<1>2. butler.errand \in Errands /\ l \in butler.errand.listings
  BY <1>1, InHand
<1>3. ask \in Int /\ butler.errand.budget \in Int
  BY <1>2, ErrandForm
<1>4. most \in Int /\ RoundDiv(75 * ask, 100) \in Int
  <2> HIDE DEF ask
  <2>1. 75 * ask \in Int
    BY <1>3
  <2>2. RoundDiv(75 * ask, 100) \in Int
    BY <2>1, RoundCent
  <2> QED
    BY <1>3, <2>2 DEF Min2
<1>5. first \in Int /\ first <= most
  <2> HIDE DEF most
  <2> QED
    BY <1>4 DEF Min2
<1>6. 1 \in 1 .. ButlerRounds
  BY DEF ButlerRounds
<1> HIDE DEF first
<1> QED
  BY <1>1, <1>5, <1>6, HaggleOK

\* The stub seller ends at its floor.
LEMMA StubIs ==
  ASSUME NEW ask \in Nat, NEW floor \in Nat, floor <= ask, NEW round \in 1 .. ButlerRounds
  PROVE  LET r == RoundDiv(100 * ask - (ask - floor) * 30 * round, 100) IN
         r \in Int /\ (round = ButlerRounds => r <= floor)
<1> DEFINE n == 100 * ask - (ask - floor) * 30 * round
<1>1. round \in Int
  BY DEF ButlerRounds
<1>2. n \in Int
  BY <1>1
<1>3. round = ButlerRounds => n <= 100 * floor
  BY DEF ButlerRounds
<1> HIDE DEF n
<1>4. RoundDiv(n, 100) \in Int /\ (n <= 100 * floor => RoundDiv(n, 100) <= floor)
  BY <1>2 DEF RoundDiv
<1> QED
  BY <1>3, <1>4 DEF n

LEMMA ButlerHaggles ==
  ASSUME ButlerInv, HaggleRound
  PROVE  ButlerInv'
<1> DEFINE e == butler.errand
           l == butler.candidate
           full == askPriceOf(l, e.units)
           most == Min2(e.budget, full)
           ask == askPriceOf(l, 1)
           asked == RoundDiv(100 * ask - (ask - l.floor) * 30 * butler.round, 100)
           stub == Max2(l.floor, asked)
           offer == IF butler.round = ButlerRounds THEN most ELSE butler.willing
           answer == IF offer >= stub THEN Says("accept", offer) ELSE Says("counter", stub)
           more == butler.willing + RoundDiv(most - butler.willing, 2)
<1>1. /\ butler.phase = "haggling" /\ UNCHANGED negVars
      /\ IF answer.kind = "accept" \/ answer.terms <= more THEN Award(l, answer.terms)
         ELSE IF butler.round = ButlerRounds THEN GiveUpOn(l)
         ELSE Haggle(l, butler.round + 1, more)
  BY DEF HaggleRound, respond, reservation, AskOf, Candidate
<1>2. butler # ButlerOff /\ e \in Errands /\ butler.queue \subseteq e.listings
  BY <1>1, InHand
<1>3. /\ Foremost(e, butler.queue, l) /\ e.rfq = NoRfq /\ l.negotiable /\ butler.round \in 1 .. ButlerRounds
      /\ butler.willing \in Int /\ butler.willing <= most
  BY <1>1, <1>2 DEF ButlerInv
<1>4. l \in e.listings
  BY <1>2, <1>3 DEF Foremost
<1>5. e.budget \in Nat /\ full \in Nat /\ ask \in Nat /\ l.floor \in Nat /\ l.floor <= ask
  BY <1>2, <1>3, <1>4, ErrandForm
<1>6. most \in Int /\ most <= e.budget /\ most <= full
  <2> HIDE DEF full
  <2> QED
    BY <1>5 DEF Min2
<1>7. asked \in Int /\ (butler.round = ButlerRounds => asked <= l.floor)
  <2> HIDE DEF ask
  <2> QED
    BY <1>3, <1>5, StubIs
<1> HIDE DEF asked
<1>8. stub \in Int /\ (butler.round = ButlerRounds => stub = l.floor)
  BY <1>5, <1>7 DEF Max2
<1> HIDE DEF stub, most
<1>9. more \in Int /\ more <= most
  <2> DEFINE gap == most - butler.willing
  <2>1. gap \in Int /\ gap >= 0
    BY <1>3, <1>6
  <2> HIDE DEF gap
  <2>2. RoundDiv(gap, 2) \in Int /\ RoundDiv(gap, 2) <= gap
    BY <2>1, RoundHalf
  <2>3. RoundDiv(gap, 2) <= most - butler.willing
    BY <2>2 DEF gap
  <2> QED
    BY <1>3, <1>6, <2>2, <2>3 DEF gap
<1> HIDE DEF more
<1>10. offer \in Int /\ offer <= most
  BY <1>3, <1>6
<1>11. answer.terms \in Int /\ (answer.kind = "accept" => answer.terms = offer)
       /\ (answer.kind # "accept" => answer.terms = stub /\ offer < stub)
  BY <1>8, <1>10 DEF Says
<1> HIDE DEF answer
<1>12. CASE answer.kind = "accept" \/ answer.terms <= more
  <2>1. answer.terms <= most
    BY <1>6, <1>9, <1>10, <1>11, <1>12
  <2>2. answer.terms <= e.budget /\ answer.terms <= full
    BY <1>5, <1>6, <1>11, <2>1
  <2>3. Award(l, answer.terms)
    BY <1>1, <1>12
  <2> HIDE DEF offer
  <2> QED
    BY <1>1, <1>3, <1>11, <2>2, <2>3, AwardOK
<1>13. CASE ~ (answer.kind = "accept" \/ answer.terms <= more) /\ butler.round = ButlerRounds
  <2>1. GiveUpOn(l)
    BY <1>1, <1>13
  <2>2. l.floor > most
    BY <1>8, <1>11, <1>13, <1>5, <1>6
  <2>3. OutOfReach(e, l)
    BY <1>3, <2>2 DEF OutOfReach, LastPrice, most
  <2> QED
    BY <1>1, <2>1, <2>3, GiveUpOK
<1>14. CASE ~ (answer.kind = "accept" \/ answer.terms <= more) /\ butler.round # ButlerRounds
  <2>1. Haggle(l, butler.round + 1, more)
    BY <1>1, <1>14
  <2>2. butler.round + 1 \in 1 .. ButlerRounds
    BY <1>3, <1>14 DEF ButlerRounds
  <2>3. more <= Min2(butler.errand.budget, askPriceOf(l, butler.errand.units))
    BY <1>9 DEF most
  <2> QED
    BY <1>1, <1>3, <1>9, <2>1, <2>2, <2>3, HaggleOK
<1> QED
  BY <1>12, <1>13, <1>14

LEMMA ButlerBrief ==
  ASSUME ButlerInv, BargainInv, NEW l \in butler.queue, negotiateRfq(l)
  PROVE  ButlerInv' /\ BargainInv'
<1> DEFINE rfq == butler.errand.rfq
<1>1. /\ butler.phase = "choosing" /\ Foremost(butler.errand, butler.queue, l) /\ rfq # NoRfq
      /\ IF rfq.acceptable \cap l.desk.tiers = {}
         THEN GiveUpOn(l) /\ UNCHANGED negVars
         ELSE /\ Begin(RfqDeal(l, rfq))
              /\ butler' = Books("rfq", butler.errand, butler.queue, l, 0, 0, 0)
  BY DEF negotiateRfq, IsNext, Foremost
<1>2. butler # ButlerOff /\ butler.errand \in Errands /\ l \in butler.errand.listings
  BY <1>1, InHand
<1>3. CASE rfq.acceptable \cap l.desk.tiers = {}
  <2>1. GiveUpOn(l) /\ UNCHANGED negVars
    BY <1>1, <1>3
  <2> QED
    BY <1>1, <2>1, GiveUpOK, BargainStill
<1>4. CASE rfq.acceptable \cap l.desk.tiers # {}
  <2>1. Begin(RfqDeal(l, rfq)) /\ butler' = Books("rfq", butler.errand, butler.queue, l, 0, 0, 0)
    BY <1>1, <1>4
  <2>2. DealOK(RfqDeal(l, rfq))
    BY <1>1, <1>2, <1>4, RfqDealOK
  <2>3. BargainInv' /\ deal' = RfqDeal(l, rfq)
    BY <2>1, <2>2, BargainBegun
  <2>4. /\ butler'.phase = "rfq" /\ butler'.errand = butler.errand /\ butler'.queue = butler.queue /\ butler'.candidate = l
        /\ DOMAIN butler' = {"phase", "errand", "queue", "candidate", "round", "willing", "price", "verdict"}
    BY <2>1, BooksFields
  <2> QED
    BY <1>1, <1>2, <2>3, <2>4 DEF ButlerInv
<1> QED
  BY <1>3, <1>4

LEMMA ButlerAnswered ==
  ASSUME ButlerInv, BargainInv, RfqAnswered
  PROVE  ButlerInv'
<1> DEFINE e == butler.errand
           l == butler.candidate
<1>1. /\ butler.phase = "rfq" /\ UNCHANGED negVars
      /\ IF outcome.result = "agreed" THEN Award(l, outcome.terms.price) ELSE GiveUpOn(l)
  BY DEF RfqAnswered, Candidate
<1>2. butler # ButlerOff /\ e \in Errands
  BY <1>1, InHand
<1>3. Foremost(e, butler.queue, l) /\ e.rfq # NoRfq /\ deal = RfqDeal(l, e.rfq)
  BY <1>1, <1>2 DEF ButlerInv
<1>4. CASE outcome.result = "agreed"
  <2>1. outcome.terms.price \in Int /\ outcome.terms.price <= deal.budget
    BY <1>4 DEF BargainInv, buyerMaySettle
  <2>2. deal.budget = e.rfq.budget
    BY <1>3 DEF RfqDeal
  <2>3. e.budget \in Nat /\ e.rfq.budget \in 0 .. e.budget
    BY <1>2, <1>3, ErrandsAssumption
  <2>4. outcome.terms.price <= e.budget
    BY <2>1, <2>2, <2>3
  <2>5. Award(l, outcome.terms.price)
    BY <1>1, <1>4
  <2> QED
    BY <1>1, <1>3, <2>1, <2>4, <2>5, AwardOK
<1>5. CASE outcome.result # "agreed"
  <2>1. GiveUpOn(l)
    BY <1>1, <1>5
  <2> QED
    BY <1>1, <1>3, <2>1, GiveUpOK
<1> QED
  BY <1>4, <1>5

LEMMA ButlerAccepts ==
  ASSUME ButlerInv, NEW passed, acceptDeliverable(passed)
  PROVE  ButlerInv'
<1>1. PICK v : butler' = [butler EXCEPT !.verdict = v]
  BY DEF acceptDeliverable
<1>2. butler.phase = "awarded" /\ UNCHANGED negVars
  BY DEF acceptDeliverable
<1>3. butler # ButlerOff
  BY <1>2, InHand
<1>4. DOMAIN butler = {"phase", "errand", "queue", "candidate", "round", "willing", "price", "verdict"}
  BY <1>3 DEF ButlerInv
<1>5. /\ DOMAIN butler' = DOMAIN butler
      /\ butler'.phase = butler.phase /\ butler'.errand = butler.errand /\ butler'.queue = butler.queue
      /\ butler'.candidate = butler.candidate /\ butler'.price = butler.price
  BY <1>1, <1>4
<1> QED
  BY <1>2, <1>3, <1>4, <1>5 DEF ButlerInv

LEMMA ButlerStep ==
  ASSUME ButlerInv, BargainInv, ButlerNext
  PROVE  ButlerInv' /\ BargainInv'
<1>1. CASE NoAward
  BY <1>1, ButlerNoAward, BargainStill DEF NoAward
<1>2. CASE HaggleRound
  BY <1>2, ButlerHaggles, BargainStill DEF HaggleRound
<1>3. CASE RfqAnswered
  BY <1>3, ButlerAnswered, BargainStill DEF RfqAnswered
<1>4. CASE \E l \in butler.queue : TakeFixed(l) \/ StartHaggling(l) \/ negotiateRfq(l)
  <2>1. PICK l \in butler.queue : TakeFixed(l) \/ StartHaggling(l) \/ negotiateRfq(l)
    BY <1>4
  <2>2. CASE TakeFixed(l)
    BY <2>2, ButlerFixed, BargainStill DEF TakeFixed
  <2>3. CASE StartHaggling(l)
    BY <2>3, ButlerStarts, BargainStill DEF StartHaggling
  <2>4. CASE negotiateRfq(l)
    BY <2>4, ButlerBrief
  <2> QED
    BY <2>1, <2>2, <2>3, <2>4
<1>5. CASE \E passed \in [1..2 -> BOOLEAN] : acceptDeliverable(passed)
  <2>1. PICK passed \in [1..2 -> BOOLEAN] : acceptDeliverable(passed)
    BY <1>5
  <2>2. UNCHANGED negVars
    BY <2>1 DEF acceptDeliverable
  <2> QED
    BY <2>1, <2>2, ButlerAccepts, BargainStill
<1> QED
  BY <1>1, <1>2, <1>3, <1>4, <1>5 DEF ButlerNext

LEMMA ButlerHolds ==
  ASSUME ButlerInv
  PROVE  NeverAboveReservation /\ HagglingFindsTheDeal
<1> DEFINE e == butler.errand
           l == butler.candidate
<1>1. CASE butler = ButlerOff
  BY <1>1 DEF ButlerOff, Books, NeverAboveReservation, HagglingFindsTheDeal
<1>2. CASE butler # ButlerOff
  <2>1. NeverAboveReservation
    BY <1>2 DEF ButlerInv, NeverAboveReservation, AskOf, Candidate
  <2>2. ASSUME butler.phase \in {"no-award", "awarded"}, e.rfq = NoRfq, NEW m \in e.listings, Viable(e, m),
               butler.phase = "no-award" \/ Before(e, m, l)
        PROVE  OutOfReach(e, m)
    <3>1. e \in Errands /\ m \in ViableOf(e) /\ \A k \in ViableOf(e) \ butler.queue : OutOfReach(e, k)
      BY <1>2, <2>2 DEF ButlerInv, ViableOf
    <3>2. CASE butler.phase = "no-award"
      BY <1>2, <3>1, <3>2 DEF ButlerInv
    <3>3. CASE butler.phase = "awarded"
      <4>1. Foremost(e, butler.queue, l) /\ butler.queue \subseteq ViableOf(e)
        BY <1>2, <3>3 DEF ButlerInv
      <4>2. l \in e.listings /\ Before(e, m, l)
        BY <2>2, <3>3, <4>1 DEF Foremost, ViableOf
      <4>3. ~ Before(e, l, m)
        BY <2>2, <3>1, <4>2, BeforeIs
      <4>4. m # l
        BY <4>2, <4>3
      <4>5. m \notin butler.queue
        BY <4>1, <4>3, <4>4 DEF Foremost
      <4> QED
        BY <3>1, <4>5
    <3> QED
      BY <2>2, <3>2, <3>3
  <2>3. HagglingFindsTheDeal
    BY <2>2 DEF HagglingFindsTheDeal, OutOfReach, AskOf, Candidate
  <2> QED
    BY <2>1, <2>3
<1> QED
  BY <1>1, <1>2

-----------------------------------------------------------------------------
(* The publisher.                                                          *)

LEMMA TimesLE ==
  ASSUME NEW t \in Nat, NEW p \in Int, NEW q \in Int, p <= q
  PROVE  t * p \in Int /\ t * q \in Int /\ t * p <= t * q
<1> DEFINE r == q - p
<1>1. r \in Nat /\ q = p + r
  OBVIOUS
<1> HIDE DEF r
<1>2. t * (p + r) = t * p + t * r /\ t * r \in Nat /\ t * p \in Int
  BY <1>1
<1> QED
  BY <1>1, <1>2

LEMMA QuoteOK ==
  ASSUME NEW j \in AdJobs, NEW r \in AdRequests, NEW s \in AdSlots, Quotable(r, s), today \in Nat
  PROVE  LET q == buildPublisherQuote(j, r, s) IN
         q \in Quotes /\ q.job = j /\ q.price <= q.request.budget /\ q.days >= q.request.minimum
<1> DEFINE most == Affordable(r, s)
           days == durationDays(r, s)
<1>1. /\ r.minimum \in Nat /\ r.minimum > 0 /\ r.preferred \in Nat /\ r.budget \in Nat
      /\ s.rate \in Nat /\ s.rate > 0
  BY PublisherAssumption
<1>2. most \in Int /\ s.rate * most <= r.budget
  BY <1>1, Division DEF Affordable
<1> HIDE DEF most
<1>3. days \in Int /\ days <= most
  BY <1>1, <1>2 DEF durationDays, most
<1>4. days >= r.minimum
  BY DEF Quotable
<1> HIDE DEF days
<1>5. days \in Nat
  BY <1>1, <1>3, <1>4
<1>6. s.rate * days <= r.budget /\ s.rate * days \in Nat
  <2>1. s.rate * days \in Int /\ s.rate * most \in Int /\ s.rate * days <= s.rate * most
    BY <1>1, <1>2, <1>3, TimesLE
  <2>2. s.rate * days \in Nat
    BY <1>1, <1>5
  <2> QED
    BY <1>1, <1>2, <2>1, <2>2
<1>7. buildPublisherQuote(j, r, s) =
        [job |-> j, slot |-> s.slot, days |-> days, price |-> s.rate * days,
         startsAt |-> today + 1, endsAt |-> today + 1 + days, request |-> r]
  BY DEF buildPublisherQuote, days
<1>8. today + 1 \in Nat /\ today + 1 + days \in Nat
  BY <1>5
<1> QED
  BY <1>4, <1>5, <1>6, <1>7, <1>8 DEF Quotes

Taken(j) == reserved[j] # NoQuote

\* What is quoted is what is reserved for its job, what is activated has been
\* quoted, and no two reservations overlap.
AdInv ==
  /\ today \in Nat
  /\ reserved \in [AdJobs -> Quotes \cup {NoQuote}]
  /\ activated \in [AdJobs -> Quotes \cup {NoQuote}]
  /\ \A q \in quoted : /\ q \in Quotes /\ reserved[q.job] = q
                       /\ q.price <= q.request.budget /\ q.days >= q.request.minimum
  /\ \A j \in AdJobs : activated[j] \in {NoQuote, reserved[j]}
  /\ \A j, k \in AdJobs : j # k /\ Taken(j) /\ Taken(k) => ~ Overlap(reserved[j], reserved[k])

LEMMA AdStill ==
  ASSUME AdInv, UNCHANGED adVars
  PROVE  AdInv'
BY DEF AdInv, adVars, Taken

LEMMA AdReserves ==
  ASSUME AdInv, NEW j \in AdJobs, NEW r \in AdRequests, negotiatePublisherRfq(j, r)
  PROVE  AdInv'
<1>1. PICK s \in AdSlots :
        /\ Quotable(r, s) /\ reserve(buildPublisherQuote(j, r, s))
        /\ reserved' = [reserved EXCEPT ![j] = buildPublisherQuote(j, r, s)]
        /\ quoted' = quoted \cup {buildPublisherQuote(j, r, s)}
  BY DEF negotiatePublisherRfq
<1> DEFINE q == buildPublisherQuote(j, r, s)
<1>2. UNCHANGED <<today, activated, moderated>>
  BY DEF negotiatePublisherRfq
<1>3. q \in Quotes /\ q.job = j /\ q.price <= q.request.budget /\ q.days >= q.request.minimum
  BY <1>1, QuoteOK DEF AdInv
<1>4. /\ Taken(j) => reserved[j] = q
      /\ ~ Taken(j) => \A k \in AdJobs : Taken(k) => ~ Overlap(reserved[k], q)
  BY <1>1, <1>3 DEF reserve, Taken
<1>5. reserved' = [reserved EXCEPT ![j] = q] /\ quoted' = quoted \cup {q}
  BY <1>1
<1> HIDE DEF q
<1>6. q # NoQuote /\ reserved \in [AdJobs -> Quotes \cup {NoQuote}]
  BY <1>3, NoQuoteAssumption DEF AdInv
<1>7. /\ reserved' \in [AdJobs -> Quotes \cup {NoQuote}]
      /\ reserved'[j] = q /\ \A k \in AdJobs : k # j => reserved'[k] = reserved[k]
  BY <1>3, <1>5, <1>6
<1>8. \A p \in quoted' : /\ p \in Quotes /\ reserved'[p.job] = p
                         /\ p.price <= p.request.budget /\ p.days >= p.request.minimum
  <2> SUFFICES ASSUME NEW p \in quoted, p # q PROVE /\ p \in Quotes /\ reserved'[p.job] = p
                         /\ p.price <= p.request.budget /\ p.days >= p.request.minimum
    BY <1>3, <1>5, <1>7
  <2>1. /\ p \in Quotes /\ reserved[p.job] = p /\ p.price <= p.request.budget /\ p.days >= p.request.minimum
    BY DEF AdInv
  <2>2. p.job \in AdJobs /\ p # NoQuote
    BY <2>1, NoQuoteAssumption DEF Quotes
  <2>3. p.job # j
    BY <1>4, <2>1, <2>2 DEF Taken
  <2> QED
    BY <1>7, <2>1, <2>2, <2>3
<1>9. \A k \in AdJobs : activated'[k] \in {NoQuote, reserved'[k]}
  <2> SUFFICES ASSUME NEW k \in AdJobs, activated[k] # NoQuote PROVE activated[k] = reserved'[k]
    BY <1>2
  <2>1. activated[k] = reserved[k] /\ Taken(k)
    BY DEF AdInv, Taken
  <2> QED
    BY <1>4, <1>7, <2>1
<1>10. ASSUME NEW k \in AdJobs, k # j, reserved'[k] # NoQuote
       PROVE  ~ Overlap(q, reserved'[k]) /\ ~ Overlap(reserved'[k], q)
  <2>1. reserved'[k] = reserved[k] /\ Taken(k)
    BY <1>7, <1>10 DEF Taken
  <2>2. ~ Overlap(reserved[k], q)
    <3>1. CASE Taken(j)
      BY <1>4, <1>10, <2>1, <3>1 DEF AdInv
    <3>2. CASE ~ Taken(j)
      BY <1>4, <2>1, <3>2
    <3> QED
      BY <3>1, <3>2
  <2> QED
    BY <2>1, <2>2 DEF Overlap
<1>11. \A k, m \in AdJobs : k # m /\ reserved'[k] # NoQuote /\ reserved'[m] # NoQuote
                            => ~ Overlap(reserved'[k], reserved'[m])
  <2> SUFFICES ASSUME NEW k \in AdJobs, NEW m \in AdJobs, k # m, reserved'[k] # NoQuote, reserved'[m] # NoQuote
               PROVE  ~ Overlap(reserved'[k], reserved'[m])
    OBVIOUS
  <2>1. CASE k = j
    BY <1>7, <1>10, <2>1
  <2>2. CASE m = j
    BY <1>7, <1>10, <2>2
  <2>3. CASE k # j /\ m # j
    BY <1>7, <2>3 DEF AdInv, Taken
  <2> QED
    BY <2>1, <2>2, <2>3
<1> QED
  BY <1>2, <1>7, <1>8, <1>9, <1>11 DEF AdInv, Taken

LEMMA AdActivates ==
  ASSUME AdInv, NEW q, makePublisherWork(q)
  PROVE  AdInv'
<1>1. q \in quoted /\ activated' = [activated EXCEPT ![q.job] = q] /\ UNCHANGED <<today, reserved, quoted, moderated>>
  BY DEF makePublisherWork
<1>2. q \in Quotes /\ reserved[q.job] = q /\ q.job \in AdJobs
  BY <1>1 DEF AdInv, Quotes
<1>3. /\ activated' \in [AdJobs -> Quotes \cup {NoQuote}]
      /\ \A j \in AdJobs : activated'[j] \in {NoQuote, reserved[j]}
  BY <1>1, <1>2 DEF AdInv
<1> QED
  BY <1>1, <1>3 DEF AdInv, Taken

LEMMA AdStep ==
  ASSUME AdInv, AdNext
  PROVE  AdInv'
<1>1. CASE \E j \in AdJobs, r \in AdRequests : negotiatePublisherRfq(j, r)
  BY <1>1, AdReserves
<1>2. CASE \E q \in quoted : makePublisherWork(q)
  BY <1>2, AdActivates
<1>3. CASE NextDay
  <2>1. today' \in Nat /\ UNCHANGED <<reserved, quoted, activated, moderated>>
    BY <1>3 DEF NextDay, AdInv
  <2> QED
    BY <2>1 DEF AdInv, Taken
<1> QED
  BY <1>1, <1>2, <1>3 DEF AdNext

LEMMA AdStart ==
  ASSUME today \in Nat, reserved = [j \in AdJobs |-> NoQuote], quoted = {}, activated = [j \in AdJobs |-> NoQuote]
  PROVE  AdInv
BY DEF AdInv, Taken

LEMMA AdHolds ==
  ASSUME AdInv
  PROVE  CampaignsDoNotCollide
BY DEF AdInv, Taken, CampaignsDoNotCollide

-----------------------------------------------------------------------------
(* All of them side by side.                                               *)

\* Who is at rest stays at rest: the engine has one user at a time.
OneBuyer == plan = GcOff \/ butler = ButlerOff

LEMMA RestingDeal ==
  ASSUME NegIdle
  PROVE  BargainInv
<1> DEFINE floors == [t \in Tiers |-> [dl \in Deadlines |-> floorFor(Small, t, dl)]]
           asks == [t \in Tiers |-> [dl \in Deadlines |-> askFor(Small, t, dl)]]
<1>1. /\ deal = [tiers |-> Tiers, deadlines |-> Deadlines, floor |-> floors, ask |-> asks,
                 budget |-> 0, acceptable |-> {}, tier |-> "deep", deadline |-> "standard",
                 maxTurns |-> 2, seller |-> "scripted", buyer |-> "scripted"]
      /\ transcript = <<>> /\ outcome = Walked
  BY DEF NegIdle, Desk
<1>2. Small \in Scans
  BY DEF Small, localDirScan, Max2, RoundDiv, Scans
<1>3. /\ floors \in [Tiers -> [Deadlines -> Int]] /\ asks \in [Tiers -> [Deadlines -> Int]]
      /\ \A t \in Tiers, dl \in Deadlines : floors[t][dl] > 0 /\ asks[t][dl] >= floors[t][dl]
  BY <1>2, DeskPrices
<1> HIDE DEF floors, asks
<1>4. "deep" \in Tiers /\ "standard" \in Deadlines
  BY DEF Tiers, Deadlines
<1>5. deal \in Bargains
  BY <1>1, <1>3, <1>4 DEF Bargains
<1>6. Priced(deal) /\ deal.seller = "scripted" /\ ~ Room(deal)
  BY <1>1, <1>3 DEF Priced, Room
<1>7. DealOK(deal)
  BY <1>5, <1>6 DEF DealOK
<1> QED
  BY <1>1, <1>6, <1>7, BargainStart

LEMMA EngineBegins ==
  ASSUME NegInit
  PROVE  BargainInv
<1>1. deal \in Bargains /\ Priced(deal) /\ deal.seller # "bundle" /\ transcript = <<>> /\ outcome = Open
  BY DealsAssumption DEF NegInit
<1>2. DealOK(deal)
  BY <1>1 DEF DealOK
<1> QED
  BY <1>1, <1>2, BargainStart

LEMMA AdBegins ==
  ASSUME AdInit \/ AdIdle
  PROVE  AdInv
<1>1. today \in Nat /\ reserved = [j \in AdJobs |-> NoQuote] /\ quoted = {} /\ activated = [j \in AdJobs |-> NoQuote]
  BY PublisherAssumption DEF AdInit, AdIdle
<1> QED
  BY <1>1, AdStart

SideBySide == BargainInv /\ SmoothInv /\ GcInv /\ ButlerInv /\ AdInv /\ OneBuyer

LEMMA AllBegin ==
  ASSUME MCInit
  PROVE  SideBySide
<1>1. BargainInv
  BY RestingDeal, EngineBegins DEF MCInit
<1>2. SmoothInv
  <2>1. SessIdle => SmoothInv
    BY DEF SessIdle, SmoothInv
  <2> QED
    BY <2>1, SmoothStart DEF MCInit
<1>3. GcInv
  BY GcStart DEF MCInit, GcInv
<1>4. ButlerInv
  BY ButlerStart DEF MCInit, ButlerInv
<1>5. AdInv
  BY AdBegins DEF MCInit
<1>6. OneBuyer
  BY DEF MCInit, OneBuyer
<1> QED
  BY <1>1, <1>2, <1>3, <1>4, <1>5, <1>6 DEF SideBySide

LEMMA EngineKeepsDeal ==
  ASSUME NegNext
  PROVE  deal' = deal
BY DEF NegNext, TakeTurn, PolicyThrows

LEMMA AllStep ==
  ASSUME SideBySide, [MCNext]_MCVars
  PROVE  SideBySide'
<1>1. BargainInv /\ SmoothInv /\ GcInv /\ ButlerInv /\ AdInv /\ OneBuyer
  BY DEF SideBySide
<1>2. ASSUME UNCHANGED <<sessVars, plan, butler, adVars>>, deal' = deal, BargainInv' PROVE SideBySide'
  BY <1>1, <1>2, SmoothStep, GcStill, ButlerStill, AdStill DEF SideBySide, OneBuyer
<1>3. CASE NegNext /\ UNCHANGED <<sessVars, plan, butler, adVars>>
  BY <1>1, <1>2, <1>3, EngineStep, EngineKeepsDeal
<1>4. CASE SessNext /\ UNCHANGED <<negVars, plan, butler, adVars>>
  <2>1. deal' = deal
    BY <1>4 DEF negVars
  <2> QED
    BY <1>1, <1>4, <2>1, SmoothStep, BargainStill, GcStill, ButlerStill, AdStill DEF SideBySide, OneBuyer
<1>5. CASE GcNext /\ UNCHANGED <<sessVars, butler, adVars>>
  <2>1. plan # GcOff
    BY <1>5 DEF GcNext, SourcePart, PartAnswered, AssembleBundle, BundleAnswered, GcOff, Plan
  <2>2. butler = ButlerOff
    BY <1>1, <2>1 DEF OneBuyer
  <2> QED
    BY <1>1, <1>5, <2>2, GcStep, SmoothStep, ButlerStill, AdStill DEF SideBySide, OneBuyer
<1>6. CASE ButlerNext /\ UNCHANGED <<sessVars, plan, adVars>>
  <2>1. butler # ButlerOff
    <3>1. butler = ButlerOff => butler.phase = "off" /\ butler.queue = {}
      BY DEF ButlerOff, Books
    <3> QED
      BY <1>6, <3>1 DEF ButlerNext, NoAward, HaggleRound, RfqAnswered, acceptDeliverable
  <2>2. plan = GcOff
    BY <1>1, <2>1 DEF OneBuyer
  <2> QED
    BY <1>1, <1>6, <2>2, ButlerStep, SmoothStep, GcStill, AdStill DEF SideBySide, OneBuyer
<1>7. CASE AdNext /\ UNCHANGED <<negVars, sessVars, plan, butler>>
  <2>1. deal' = deal
    BY <1>7 DEF negVars
  <2> QED
    BY <1>1, <1>7, <2>1, SmoothStep, BargainStill, GcStill, ButlerStill, AdStep DEF SideBySide, OneBuyer
<1>8. CASE UNCHANGED MCVars
  <2>1. UNCHANGED <<negVars, sessVars, plan, butler, adVars>>
    BY <1>8 DEF MCVars
  <2>2. deal' = deal
    BY <2>1 DEF negVars
  <2> QED
    BY <1>1, <1>2, <2>1, <2>2, BargainStill
<1> QED
  BY <1>3, <1>4, <1>5, <1>6, <1>7, <1>8 DEF MCNext

LEMMA AllHolds == MCSpec => []SideBySide
BY AllBegin, AllStep, PTL DEF MCSpec

\* Whatever the negotiation and whoever holds it - a job's buyer, the general
\* contractor, the butler - a deal of the engine respects both guards and is
\* the proposal its accepter had in front of it (negotiate.ts:103); two
\* scripted sides with room between them never part without a deal
\* (policies.ts:172); a scripted move passes its own guard (policies.ts:112,
\* :221); and two scripted ends over a relay that neither loses nor throws
\* bargain exactly as the engine would (session.ts:10).
THEOREM BargainSafety == MCSpec => []BargainIsSound
<1>1. SideBySide => BargainIsSound
  BY BargainHolds, SmoothParity DEF SideBySide, BargainIsSound
<1> QED
  BY <1>1, AllHolds, PTL

\* Whatever the job and the desks, a contractor's award covers its parts and
\* its margin within the buyer's budget, its sourcing stays within three
\* quarters of it, and a standard job is refused for a part only if a floor is
\* out of the part's allocation (gc.ts:11, :185); whatever the listings, the
\* butler pays no more than its reservation and passes over no better listing
\* it could have had (butler.ts:15-20); whatever is reserved and activated in
\* whatever order, the publisher's campaigns do not collide (rfq.ts:26).
THEOREM BuyersSafety == MCSpec => []BuyersStayInBounds
<1>1. SideBySide => BuyersStayInBounds
  BY GcHolds, ButlerHolds, AdHolds DEF SideBySide, BuyersStayInBounds
<1> QED
  BY <1>1, AllHolds, PTL
=============================================================================
