-------------------------- MODULE MCSSADestruction --------------------------
EXTENDS SSADestruction

TwoConsts == {0, -1}

\* Every graph of three blocks, up to the order of a branch's targets
Lists == {<<>>, <<2>>, <<3>>, <<2, 3>>}
ThreeBlocks == {<<a, b, c>> : a, b, c \in Lists}

\* Shapes of four blocks: a while loop, two nested ones with a shared exit, a
\* diamond inside a loop, a branch into the middle of a loop, a triangle
FourBlocks == {
    << <<2>>, <<3, 4>>, <<2>>, <<>> >>,
    << <<2>>, <<3, 4>>, <<3, 2>>, <<>> >>,
    << <<2, 3>>, <<4>>, <<4>>, <<2, 3>> >>,
    << <<2, 3>>, <<3, 4>>, <<2>>, <<>> >>,
    << <<2, 4>>, <<3, 4>>, <<2, 4>>, <<>> >> }

Shapes == ThreeBlocks \cup FourBlocks
=============================================================================
