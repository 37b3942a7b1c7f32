------------------------------ MODULE Bargain ------------------------------
(* What a negotiation promises, however it is carried: one public log of   *)
(* alternating turns, in which a side proposes only what its own guard     *)
(* allows, and for each side a verdict that is given once. A side may      *)
(* leave at any time; it may agree only on the terms that were on the      *)
(* table when the log was closed by an accept, and only if both guards     *)
(* allow them. Both the in-process engine and the two-process session      *)
(* implement this.                                                         *)
EXTENDS AuditDesk

CONSTANT Deals

VARIABLES deal, log, verdict

Undecided == [result |-> "open", terms |-> NoTerms]
Left == [result |-> "walked", terms |-> NoTerms]
AgreedOn(t) == [result |-> "agreed", terms |-> t]

\* A side may be gone before the first word.
BargainInit == deal \in Deals /\ log = <<>> /\ verdict \in [Sides -> {Undecided, Left}]

Speaker(l) == IF Len(l) % 2 = 0 THEN "seller" ELSE "buyer"
ClosedLog(l) == l # <<>> /\ ~ Proposal(l[Len(l)])

\* At most one turn is added, by the side whose turn it is.
Speak ==
    \/ log' = log
    \/ /\ ~ ClosedLog(log) /\ Len(log) < deal.maxTurns
       /\ \E turn \in {log'[Len(log')]} :
            /\ log' = Append(log, turn)
            /\ turn.side = Speaker(log)
            /\ Proposal(turn) => MaySettle(turn.side, turn.terms, deal)

\* The terms an accept at the end of a log binds to.
Bound(l) == onTableFrom(l, Other(l[Len(l)].side))

Conclude(s) ==
    \/ verdict'[s] = verdict[s]
    \/ verdict[s] = Undecided /\ verdict'[s] = Left
    \/ /\ verdict[s] = Undecided
       /\ log' # <<>> /\ log'[Len(log')].kind = "accept"
       /\ Bound(log') # NoTerms
       /\ \A g \in Sides : MaySettle(g, Bound(log'), deal)
       /\ verdict'[s] = AgreedOn(Bound(log'))

BargainNext ==
    /\ deal' = deal
    /\ Speak
    /\ verdict' = [s \in Sides |-> verdict'[s]]
    /\ \A s \in Sides : Conclude(s)

BargainSpec == BargainInit /\ [][BargainNext]_<<deal, log, verdict>>
=============================================================================
