-------------------------- MODULE MCSnapshotCache --------------------------
EXTENDS SnapshotCache, TLC

CONSTANTS b1, b2
MCBufs == {b1, b2}
BufPermutations == Permutations(MCBufs)

MCBoots == {1, 2}
\* The second boot asks for more RAM than the first.
MCRamOf == <<1, 2>>
MCReaders == {"r"}
MCFiles == {"r", "other"}
=============================================================================
