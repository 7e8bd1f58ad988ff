--------------------------- MODULE ParserProgress ---------------------------
(***************************************************************************)
(* How the parser moves through the text, whether the text is right or     *)
(* wrong.                                                                  *)
(***************************************************************************)
EXTENDS ParserContract

NodesOf(kinds) == {nodes[i] : i \in {j \in DOMAIN nodes : nodes[j].kind \in kinds}}

(* Every node below the outermost block is built from at least one token,  *)
(* in an erroneous text too: the loops over statements and declarations    *)
(* make progress whatever they meet, because every function reached from   *)
(* them consumes its first token.  It is the tokens moved past that count: *)
(* after a pushback a node can start and end at the same place.            *)
NodesConsume == \A n \in NodesOf(Kinds \ {"Block"}) : n.begun < n.ended

(* The parser moves past the tokens in order.  It is given a token a second *)
(* time, never a third, and only where it pushed it back: after a NO that  *)
(* SCROLL does not follow.                                                 *)
RereadOnlyAfterNo ==
  \A i \in DOMAIN moved :
    LET k == moved[i].at
        before == IF i = 1 THEN 0 ELSE moved[i - 1].at
    IN  k # before + 1 =>
          /\ k = before
          /\ i > 2 => moved[i - 2].at < k
          /\ k > 1 /\ toks[k - 1] = "NO" /\ toks[k] # "SCROLL"

(* The scanner holds one token pushed back: the parser never pushes back a  *)
(* second one, which would take the place of the first.                    *)
PushBackHoldsOne == [][PutBack => ~pushed]_vars

(* The parse functions call each other no deeper than the text is long, in  *)
(* an erroneous text too: two calls at most for each token moved past (a    *)
(* statement that is a block, and the block), so no function is called      *)
(* again and again at the same token.                                      *)
RecursionIsBounded == Len(acts) <= 2 * (Len(moved) + 1)

=============================================================================
