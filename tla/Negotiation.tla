---------------------------- MODULE Negotiation ----------------------------
(* The in-process negotiation engine, runNegotiation of negotiate.ts: the  *)
(* seller opens, the sides alternate, every move passes its own side's     *)
(* guard, an accept binds to the other side's terms on the table and both  *)
(* guards, and the turn cap ends what nobody ends.                         *)
EXTENDS AuditDesk

CONSTANT Deals      \* the negotiations to start, records as AuditDesk describes

Bargains ==
    [tiers : SUBSET Tiers, deadlines : SUBSET Deadlines,
     floor : [Tiers -> [Deadlines -> Int]], ask : [Tiers -> [Deadlines -> Int]],
     budget : Int, acceptable : SUBSET Tiers, tier : Tiers, deadline : Deadlines, maxTurns : Nat \ {0, 1},
     seller : {"scripted", "llm", "any", "bundle"}, buyer : {"scripted", "llm", "any"}]

\* The cost model puts every floor above zero and every ask at or above its floor.
Priced(d) == \A t \in Tiers, dl \in Deadlines : d.floor[t][dl] > 0 /\ d.ask[t][dl] >= d.floor[t][dl]

\* A bundle is the contractor's to sell, not the desk's.
ASSUME DealsAssumption == Deals \subseteq Bargains /\ \A d \in Deals : Priced(d) /\ d.seller # "bundle"

VARIABLES
    deal,         \* the briefs and guards of the negotiation under way
    transcript,   \* the turns so far
    outcome       \* "open", or the result with the agreed terms

negVars == <<deal, transcript, outcome>>

Open == [result |-> "open", terms |-> NoTerms]
Walked == [result |-> "walked", terms |-> NoTerms]
Agreed(t) == [result |-> "agreed", terms |-> t]

\* runNegotiation begins on a pair of policies and guards.
Begin(d) == deal' = d /\ transcript' = <<>> /\ outcome' = Open

NegInit == deal \in Deals /\ transcript = <<>> /\ outcome = Open

ToMove == IF Len(transcript) % 2 = 0 THEN "seller" ELSE "buyer"

\* A side may not emit what its own guard refuses: that becomes a reject.
guardEmittedMove(side, move) ==
    IF move.kind = "reject" \/ MaySettle(side, move.terms, deal) THEN move ELSE Reject

\* Mutant: the deal is what the accepter restates.
Closing_Restated(log, side) ==
    LET said == log[Len(log)]
    IN  CASE said.kind = "reject" -> Walked
          [] said.kind = "accept" -> IF sellerMaySettle(said.terms, deal) \/ buyerMaySettle(said.terms, deal)
                                     THEN Agreed(said.terms) ELSE Walked
          [] OTHER -> IF Len(log) >= deal.maxTurns THEN Walked ELSE Open

\* What ends with this turn on the transcript.
Closing(log, side) ==
    LET said  == log[Len(log)]
        table == onTableFrom(log, Other(side))
    IN  CASE said.kind = "reject" -> Walked
          [] said.kind = "accept" -> IF table # NoTerms /\ sellerMaySettle(table, deal) /\ buyerMaySettle(table, deal)
                                     THEN Agreed(table) ELSE Walked
          [] OTHER -> IF Len(log) >= deal.maxTurns THEN Walked ELSE Open

TakeTurn(side, move) ==
    /\ outcome = Open
    /\ side = ToMove
    /\ LET said == guardEmittedMove(side, move)
       IN  transcript' = Append(transcript, [side |-> side, kind |-> said.kind, terms |-> said.terms])
    /\ outcome' = Closing(transcript', side)
    /\ UNCHANGED deal

\* A policy throws: the engine walks without recording a turn. The scripted
\* and the model-backed policies catch their own failures.
PolicyThrows(side) ==
    /\ outcome = Open
    /\ side = ToMove
    /\ (IF side = "seller" THEN deal.seller ELSE deal.buyer) = "any"
    /\ outcome' = Walked
    /\ UNCHANGED <<deal, transcript>>

NegNext ==
    \E side \in Sides :
        \/ \E move \in PolicyMoves(side, transcript, deal) : TakeTurn(side, move)
        \/ PolicyThrows(side)

NegSpec == NegInit /\ [][NegNext]_negVars

-----------------------------------------------------------------------------
(* Properties *)

\* Whatever the two policies are, an agreed price is at or above the seller's
\* floor for those terms and within the buyer's budget and acceptable tiers,
\* and it is the proposal the accepter had in front of it (negotiate.ts:103-112).
SoundDeal ==
    outcome.result = "agreed" =>
        LET n == Len(transcript)
        IN  /\ n >= 2 /\ transcript[n].kind = "accept"
            /\ Proposal(transcript[n - 1])
            /\ outcome.terms = transcript[n - 1].terms
            /\ outcome.terms.price >= deal.floor[outcome.terms.tier][outcome.terms.deadline]
            /\ outcome.terms.price <= deal.budget
            /\ outcome.terms.tier \in deal.acceptable

\* A scripted policy never needs its safety net: whatever the other side has
\* said, the move it makes passes its own guard (policies.ts:112, :221), as
\* long as the desk offers the terms it anchors on and they cost something.
ScriptMindsItsGuard ==
    outcome = Open =>
        LET side == ToMove
            mind == IF side = "seller" THEN deal.seller ELSE deal.buyer
            move == Scripted(side, transcript, deal)
        IN  mind \in {"scripted", "bundle"} /\ "standard" \in deal.deadlines /\ "deep" \in deal.tiers
                 /\ deal.floor["deep"]["standard"] > 0
               => move.kind = "reject" \/ MaySettle(side, move.terms, deal)

\* Two scripted sides with six turns close whenever there is room: a buyer
\* who takes the deep tier only, whose budget reaches the floor of the terms
\* it prefers, never leaves without a deal (policies.ts:172 projects whether
\* the buyer can still reach the floor before it offers the lesser tier).
DealWhenPossible ==
    /\ outcome.result = "walked"
    /\ deal.seller = "scripted" /\ deal.buyer = "scripted" /\ deal.maxTurns = 6
    /\ deal.acceptable = {"deep"} /\ deal.tier = "deep"
    /\ {"standard", deal.deadline} \subseteq deal.deadlines /\ deal.tiers = Tiers
    => deal.budget < deal.floor["deep"][deal.deadline]
=============================================================================
