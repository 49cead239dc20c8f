----------------------------- MODULE Iteration -----------------------------
(***************************************************************************)
(* The loops of the code over a list whose every round reads the state the *)
(* round before left.                                                      *)
(***************************************************************************)
EXTENDS Integers, SequencesExt

\* The prefixes of s one after another.  (FoldLeft enumerates the subsets of the
\* domain, which is too slow here; the set of one element makes TLC evaluate what the
\* prefix gives before it takes the next step.)
PrefixByPrefix(step(_, _), start, s) ==
    LET upTo[n \in 0 .. Len(s)] ==
          IF n = 0 THEN start
          ELSE CHOOSE r \in {step(prefix, s[n]) : prefix \in {upTo[n - 1]}} : TRUE
    IN upTo[Len(s)]

Piece == 6

\* step applied to the elements of s from left to right: piece by piece, which keeps
\* TLC's recursion flat
InOrder(step(_, _), start, s) ==
    PrefixByPrefix(LAMBDA r, k : PrefixByPrefix(step, r, SubSeq(s, Piece * k - Piece + 1, Min({Piece * k, Len(s)}))),
                   start, [k \in 1 .. (Len(s) + Piece - 1) \div Piece |-> k])
=============================================================================
