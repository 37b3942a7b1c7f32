------------------------- MODULE NegotiationSession -------------------------
(* One negotiation between two processes: each end runs runSide of         *)
(* session.ts over a mailbox (channel.ts), with its own transcript, its    *)
(* own guard and signed, numbered envelopes (wire.ts). Between the ends is *)
(* the message relay, which may delay, lose and repeat what it carries.    *)
EXTENDS AuditDesk

CONSTANTS Talks,       \* the negotiations to hold, as in Negotiation
          MaxDup       \* how many envelopes the relay repeats

ASSUME DupAssumption == MaxDup \in Nat
ASSUME TalksAssumption == \A d \in Talks : d.maxTurns \in Nat \ {0}

VARIABLES
    talk,       \* the negotiation under way
    heard,      \* each end's transcript
    ended,      \* each end's result: open, agreed on terms, walked, or thrown
    inbox,      \* each end's mailbox, a queue
    flight,     \* per end, the envelopes on their way to it
    dups,       \* how often the relay has repeated an envelope
    smooth      \* no loss, repetition, failed send or timeout so far

sessVars == <<talk, heard, ended, inbox, flight, dups, smooth>>

Pending == [result |-> "open", terms |-> NoTerms]
Gone == [result |-> "walked", terms |-> NoTerms]
Thrown == [result |-> "thrown", terms |-> NoTerms]
Settled(t) == [result |-> "agreed", terms |-> t]

SessInit ==
    /\ talk \in Talks
    /\ heard = [s \in Sides |-> <<>>]
    /\ ended = [s \in Sides |-> Pending]
    /\ inbox = [s \in Sides |-> <<>>]
    /\ flight = [s \in Sides |-> {}]
    /\ dups = 0
    /\ smooth = TRUE

Parity(side) == IF side = "seller" THEN 0 ELSE 1
MyTurn(side) == Len(heard[side]) % 2 = Parity(side)

\* The safety net: an accept is judged by the terms it would bind to, a
\* proposal by its own; either becomes a reject when the guard refuses.
Netted(side, move) ==
    LET table == onTableFrom(heard[side], Other(side))
        judged == IF move.kind = "accept" THEN table ELSE move.terms
    IN  IF move.kind = "reject" \/ (judged # NoTerms /\ MaySettle(side, judged, talk)) THEN move ELSE Reject

\* Mutant: the deal is the accepter's restatement.
settleFromAccept_Restated(side, log, accepter) ==
    LET said == log[Len(log)].terms IN IF MaySettle(side, said, talk) THEN Settled(said) ELSE Gone

\* The result of an end once this turn is on its transcript.
settleFromAccept(side, log, accepter) ==
    LET table == onTableFrom(log, Other(accepter))
    IN  IF table # NoTerms /\ MaySettle(side, table, talk) THEN Settled(table) ELSE Gone

AfterTurn(side, log) ==
    LET turn == log[Len(log)]
    IN  CASE turn.kind = "reject" -> Gone
          [] turn.kind = "accept" -> settleFromAccept(side, log, turn.side)
          [] OTHER -> IF Len(log) >= talk.maxTurns THEN Gone ELSE Pending

\* sealEnvelope: the next number, the sender and the move. Encoding the
\* price of an accept, which no guard has looked at, throws on zero.
sealEnvelope(side, seq, move) == [seq |-> seq, sender |-> side, kind |-> move.kind, terms |-> move.terms]
Encodable(move) == move.kind = "reject" \/ move.terms.price > 0

Speaks(side, said) ==
    LET log == Append(heard[side], [side |-> side, kind |-> said.kind, terms |-> said.terms])
    IN  /\ heard' = [heard EXCEPT ![side] = log]
        /\ ended' = [ended EXCEPT ![side] = AfterTurn(side, log)]
        /\ flight' = [flight EXCEPT ![Other(side)] = @ \cup {sealEnvelope(side, Len(log), said)}]

SendMove(side, move) ==
    /\ Encodable(Netted(side, move))
    /\ Speaks(side, Netted(side, move))
    /\ UNCHANGED <<talk, inbox, dups, smooth>>

\* The send throws, and with it the whole end; the relay may have the
\* envelope all the same.
SendThrows(side, move) ==
    /\ ended' = [ended EXCEPT ![side] = Thrown]
    /\ LET said == Netted(side, move)
           env == sealEnvelope(side, Len(heard[side]) + 1, said)
       IN  \/ flight' = flight
           \/ Encodable(said) /\ flight' = [flight EXCEPT ![Other(side)] = @ \cup {env}]
    /\ smooth' = FALSE
    /\ UNCHANGED <<talk, heard, inbox, dups>>

\* Mutant: the number of an envelope is not compared.
openEnvelope_AnySequence(side, env) == env.sender = Other(side)

\* openEnvelope: this channel's next number, from the peer.
openEnvelope(side, env) == env.seq = Len(heard[side]) + 1 /\ env.sender = Other(side)

ReceiveMove(side) ==
    /\ ended[side] = Pending /\ ~ MyTurn(side)
    /\ inbox[side] # <<>>
    /\ inbox' = [inbox EXCEPT ![side] = Tail(@)]
    /\ LET env == Head(inbox[side])
           log == Append(heard[side], [side |-> env.sender, kind |-> env.kind, terms |-> env.terms])
       IN  IF openEnvelope(side, env)
           THEN /\ heard' = [heard EXCEPT ![side] = log]
                /\ ended' = [ended EXCEPT ![side] = AfterTurn(side, log)]
           ELSE /\ ended' = [ended EXCEPT ![side] = Gone]
                /\ UNCHANGED heard
    /\ UNCHANGED <<talk, flight, dups, smooth>>

\* Mutant: the timer is restarted as long as nothing is on its way.
ReceiveTimeout_Restarts(side) ==
    /\ ended[side] = Pending /\ ~ MyTurn(side)
    /\ inbox[side] = <<>> /\ flight[side] # {}
    /\ ended' = [ended EXCEPT ![side] = Gone]
    /\ smooth' = FALSE
    /\ UNCHANGED <<talk, heard, inbox, flight, dups>>

\* receive rejects after its timeout: a missed turn is a walk.
ReceiveTimeout(side) ==
    /\ ended[side] = Pending /\ ~ MyTurn(side)
    /\ inbox[side] = <<>>
    /\ ended' = [ended EXCEPT ![side] = Gone]
    /\ smooth' = FALSE
    /\ UNCHANGED <<talk, heard, inbox, flight, dups>>

\* The relay hands an envelope to the mailbox, drops it, or hands it over
\* and keeps it to hand over again.
Deliver(side, env) ==
    /\ env \in flight[side]
    /\ inbox' = [inbox EXCEPT ![side] = Append(@, env)]
    /\ \/ flight' = [flight EXCEPT ![side] = @ \ {env}] /\ UNCHANGED <<dups, smooth>>
       \/ dups < MaxDup /\ dups' = dups + 1 /\ smooth' = FALSE /\ UNCHANGED flight
    /\ UNCHANGED <<talk, heard, ended>>

Lose(side, env) ==
    /\ env \in flight[side]
    /\ flight' = [flight EXCEPT ![side] = @ \ {env}]
    /\ smooth' = FALSE
    /\ UNCHANGED <<talk, heard, ended, inbox, dups>>

EndStep(side) ==
    \/ /\ ended[side] = Pending /\ MyTurn(side)
       /\ \E move \in PolicyMoves(side, heard[side], talk) : SendMove(side, move) \/ SendThrows(side, move)
    \/ ReceiveMove(side)
    \/ ReceiveTimeout(side)

RelayStep(side) == \E env \in flight[side] : Deliver(side, env) \/ Lose(side, env)

SessNext == \E side \in Sides : EndStep(side) \/ RelayStep(side)

\* A policy answers or throws, and a receive has a timeout: an end that has
\* not finished always goes on. Nothing is assumed of the relay.
SessFairness == \A side \in Sides : WF_sessVars(EndStep(side))

SessSpec == SessInit /\ [][SessNext]_sessVars /\ SessFairness

-----------------------------------------------------------------------------
(* Properties *)

\* The public log is the longer of the two transcripts, and a thrown end has
\* left: the session implements Bargain (session.ts:10 says the semantics are
\* those of the in-process engine, with its two guard checks split).
Longer(a, b) == IF Len(a) >= Len(b) THEN a ELSE b
B == INSTANCE Bargain WITH
        Deals <- Talks, deal <- talk, log <- Longer(heard["seller"], heard["buyer"]),
        verdict <- [s \in Sides |-> IF ended[s] = Thrown THEN Gone ELSE ended[s]]
ImplementsBargain == B!BargainSpec

\* Two ends that both agree have the same terms, and even an end that agrees
\* alone has terms that both guards allow (session.ts:12 splits the check).
NoCrossedDeal ==
    \A s \in Sides : ended[s].result = "agreed" =>
        /\ sellerMaySettle(ended[s].terms, talk) /\ buyerMaySettle(ended[s].terms, talk)
        /\ ended[Other(s)].result = "agreed" => ended[Other(s)].terms = ended[s].terms

\* The end whose proposal was accepted never stands alone with the deal: when
\* it agrees, the accepter has agreed, or its send threw with the accept
\* already on the relay (session.ts:113). The accepter can stand alone.
ProposerFollowsAccepter ==
    \A s \in Sides :
        ended[s].result = "agreed" /\ heard[s][Len(heard[s])].side # s
            => ended[Other(s)].result \in {"agreed", "thrown"}

\* Two ends that settle have settled the same deal, whatever the relay does.
SessionAgrees == ProposerFollowsAccepter /\ NoCrossedDeal

\* What the in-process engine records next when the policies are scripted.
EngineTurn(log, d) ==
    LET side == IF Len(log) % 2 = 0 THEN "seller" ELSE "buyer"
        move == Scripted(side, log, d)
        said == IF move.kind = "reject" \/ MaySettle(side, move.terms, d) THEN move ELSE Reject
    IN  [side |-> side, kind |-> said.kind, terms |-> said.terms]

\* The engine's transcript: every turn the one it records after those before,
\* and another one exactly while there are proposals and turns left.
EnginePlays(log, d) ==
    /\ log # <<>>
    /\ \A n \in 1..Len(log) :
          /\ log[n] = EngineTurn([i \in 1..n - 1 |-> log[i]], d)
          /\ n < Len(log) <=> Proposal(log[n]) /\ n < d.maxTurns

\* Over a channel that loses, repeats and delays nothing the two ends reach
\* what the in-process engine reaches (session.ts:18, the parity the
\* session's test asserts for a handful of briefs).
ParityWithEngine ==
    /\ smooth /\ talk.seller = "scripted" /\ talk.buyer = "scripted"
    /\ \A s \in Sides : ended[s] # Pending
    => LET log == heard["seller"]
           closed == log[Len(log)]
           bound == onTableFrom(log, Other(closed.side))
       IN  /\ EnginePlays(log, talk)
           /\ \A s \in Sides :
                /\ heard[s] = log
                /\ ended[s] = IF closed.kind = "accept" /\ sellerMaySettle(bound, talk) /\ buyerMaySettle(bound, talk)
                              THEN Settled(bound) ELSE Gone

\* Whatever the relay does, both ends come to a result (RFQ-4, session.ts:16).
BothEndsFinish == <>(\A s \in Sides : ended[s] # Pending)
=============================================================================
