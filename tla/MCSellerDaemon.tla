--------------------------- MODULE MCSellerDaemon ---------------------------
(***************************************************************************)
(* SellerDaemon on two small scenes.  "payments": a fixed-price and a      *)
(* legacy agreement that the same native transaction would pay.            *)
(* "delivery": one x402 agreement whose work may come out in two ways.     *)
(* Nothing of the other scene's agreements and values ever appears.        *)
(***************************************************************************)
EXTENDS SellerDaemon, TLC

CONSTANTS a1, a2, a3, t1, t3, c1, c2, k1, k2

MCPays == [a \in Agreements |-> IF a \in X402 THEN {t3} ELSE {t1}]

Symmetry == Permutations(Tasks)

VARIABLE scene

Cast == IF scene = "payments" THEN [agreements |-> {a1, a2}, txs |-> {t1}, contents |-> {c1}]
        ELSE [agreements |-> {a3}, txs |-> {t3}, contents |-> {c1, c2}]

(* Only the scene's agreements get a channel, its transactions are paid    *)
(* or named in a settle frame, its contents come out or are referred to.   *)
(* The "payments" scene ends with a Standard agreement's settlement: its   *)
(* delivery is what the other scene shows.                                 *)
InScene ==
  /\ scene = "payments" => \A k \in Tasks : task[k].pc \in {"idle", "sign", "accept", "lookup", "backoff", "commit", "work"}
  /\ channels \subseteq Cast.agreements /\ paid \subseteq Cast.txs
  /\ \A a \in Cast.agreements : settled[a].delivery \in Cast.contents \cup {None}
  /\ \A k \in Tasks :
       /\ task[k].tx \in Cast.txs \cup {None}
       /\ task[k].content \in Cast.contents \cup {None}
       /\ task[k].evidence # None => task[k].evidence.content \in Cast.contents /\ task[k].evidence.artifact \in Cast.contents

MCInit == Init /\ scene \in {"payments", "delivery"}
MCNext == Next /\ UNCHANGED scene /\ InScene'
MCSpec == MCInit /\ [][MCNext]_<<vars, scene>>
=============================================================================
