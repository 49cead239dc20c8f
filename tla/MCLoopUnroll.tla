---------------------------- MODULE MCLoopUnroll ----------------------------
(***************************************************************************)
(* Loops of two phis, one header and one body instruction: every choice of *)
(* operands, of what comes round the back edge and of what is read after.  *)
(***************************************************************************)
EXTENDS LoopUnroll

SomeReads == {r \in [Ops -> SUBSET Names] :
                /\ \A h \in HeaderOps : r[h] \subseteq Phis
                /\ \A b \in BodyOps : r[b] \subseteq Phis \cup HeaderOps}
AllLoops ==
    [reads : SomeReads, latch : [Phis -> Names], test : {1, 11},
     after : {{1, 2}, {2, 11}, {2, 21}}, size : {5, 100}]
=============================================================================
