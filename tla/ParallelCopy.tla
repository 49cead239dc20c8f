---------------------------- MODULE ParallelCopy ----------------------------
(***************************************************************************)
(* emitParallelCopy of src/transforms/SSADestruction.cpp: the phis of one  *)
(* block take effect at once, and this turns the assignments one           *)
(* predecessor owes them into a sequence of ordinary copies.               *)
(*                                                                         *)
(* A location is an integer: the root of a phi is a positive number no     *)
(* larger than MaxRoot, in the order of the pending list; any other source *)
(* (a constant, an argument, an instruction) is not positive; the fresh    *)
(* temporaries follow MaxRoot.  The copies are executed symbolically as    *)
(* they are emitted: mem holds, for every location, the location whose     *)
(* value before the first copy it now holds.                               *)
(***************************************************************************)
EXTENDS Integers, FiniteSets

CONSTANTS
    MaxRoot,  \* roots are numbered 1 .. MaxRoot
    Others    \* the sources that are nobody's root

Roots == 1 .. MaxRoot

ASSUME LocationAssumption ==
    /\ MaxRoot \in Nat
    /\ Others \subseteq {l \in Int : l <= 0}

VARIABLES
    wanted,   \* wanted[r]: the source the parallel copy assigns to root r
    pending,  \* the roots whose assignment is still to be emitted
    source,   \* the pending assignments' sources, as redirected so far
    temps,    \* how many temporaries were created
    mem       \* what executing the emitted copies leaves in each location

vars == <<wanted, pending, source, temps, mem>>

Locations == Roots \cup Others
Assigned == DOMAIN wanted

Init ==
    /\ wanted \in UNION {[S -> Locations] : S \in SUBSET Roots}
    /\ pending = DOMAIN wanted
    /\ source = wanted
    /\ temps = 0
    /\ mem = [l \in Locations |-> l]

\* Mutant: no assignment waits for another, the swap problem
Ready_Always(r) == TRUE

\* Mutant: assignments already emitted still count as readers
Ready_AllReaders(r) == \A other \in Assigned \ {r} : source[other] # r

\* No other pending assignment still needs to read what this one overwrites
Ready(r) == \A other \in pending \ {r} : source[other] # r

\* Mutant: the emitted assignment is not erased from the list
Emit_NoErase ==
    \E r \in pending :
        /\ Ready(r)
        /\ \A s \in pending : s < r => ~Ready(s)
        /\ mem' = [mem EXCEPT ![r] = mem[source[r]]]
        /\ UNCHANGED <<wanted, pending, source, temps>>

\* emitOne of the first ready assignment of the list
Emit ==
    \E r \in pending :
        /\ Ready(r)
        /\ \A s \in pending : s < r => ~Ready(s)
        /\ mem' = [mem EXCEPT ![r] = mem[source[r]]]
        /\ pending' = pending \ {r}
        /\ UNCHANGED <<wanted, source, temps>>

\* The sources once everyone who reads the victim reads the temporary instead
Redirected(victim, temp) ==
    [r \in Assigned |-> IF r \in pending /\ source[r] = victim THEN temp ELSE source[r]]

\* Nothing is ready: save the first pending root into a temporary of its own
Save ==
    /\ pending # {}
    /\ \A r \in pending : ~Ready(r)
    /\ \E victim \in pending :
        /\ \A r \in pending : victim <= r
        /\ LET temp == MaxRoot + temps + 1
           IN /\ mem' = [l \in DOMAIN mem \cup {temp} |->
                            IF l = temp THEN mem[victim] ELSE mem[l]]
              /\ source' = Redirected(victim, temp)
    /\ temps' = temps + 1
    /\ UNCHANGED <<wanted, pending>>

Next == Emit \/ Save

Spec == Init /\ [][Next]_vars

\* A loop of one sequential call
FairSpec == Spec /\ WF_vars(Next)

-----------------------------------------------------------------------------
(* Properties *)

\* Every variable holds a value of its type; the locations in use are the
\* roots, the other sources and the temporaries created so far.
TypeOK ==
    /\ Assigned \subseteq Roots
    /\ wanted \in [Assigned -> Locations]
    /\ pending \subseteq Assigned
    /\ temps \in Nat
    /\ source \in [Assigned -> Locations \cup (MaxRoot + 1 .. MaxRoot + temps)]
    /\ mem \in [Locations \cup (MaxRoot + 1 .. MaxRoot + temps) -> Locations]

\* The swap problem: in whatever order the copies come out, a root that was
\* written holds the value its source had before the first of them, and a
\* pending one can still read that value.
SourcesSurvive ==
    \A r \in Assigned : mem[IF r \in pending THEN source[r] ELSE r] = wanted[r]

\* "Every remaining assignment is part of a cycle": when nothing is ready the
\* pending assignments permute their roots and none is its own source.
StallIsACycle ==
    (pending # {} /\ \A r \in pending : ~Ready(r)) =>
        /\ {source[r] : r \in pending} = pending
        /\ \A r \in pending : source[r] # r

\* The loop ends, with every assignment emitted.
AllEmitted == <>(pending = {})

\* What the sequence as a whole amounts to: one simultaneous assignment.
Simultaneous == INSTANCE SimultaneousAssignment WITH
    value <- [l \in Locations |-> IF pending = {} THEN mem[l] ELSE l],
    assigned <- pending = {}

ImplementsSimultaneous == Simultaneous!Spec
=============================================================================
