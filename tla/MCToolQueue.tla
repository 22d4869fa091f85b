---------------------------- MODULE MCToolQueue ----------------------------
(* Small instances of ToolQueue for TLC.                                    *)
EXTENDS ToolQueue, TLC

CONSTANTS c1, c2, t1, t2, network, p1, p2, w1, w2, w3, d1, d2

(* One tool for every call: what one answer decides for the next call.     *)
MCOneTool == [c \in Call |-> t1]
(* A tool of each kind: with evidence and without.                          *)
MCTwoTools == c1 :> t1 @@ c2 :> t2

MCNetwork == [t \in Tool |-> network]

MCOneHome  == [w \in Worker |-> p1]
MCTwoHomes == w1 :> p1 @@ w2 :> p1 @@ w3 :> p2

MCOneCwd  == [p \in Process |-> d1]

(* createDefaultPolicy asks for the network; tools have no rules yet.       *)
MCAskNetwork == [t \in Target |-> IF t = network THEN "ask" ELSE "unset"]

=============================================================================
