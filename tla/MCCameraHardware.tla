-------------------------- MODULE MCCameraHardware --------------------------
\* Instances of CameraHardware for TLC.
EXTENDS CameraHardware, TLC

Wide  == [w |-> 4, h |-> 2]
Large == [w |-> 4, h |-> 4]

TwoSizes == {Wide, Large}

\* Of the same area: every frame of one has as many bytes as one of the other.
TurnedSizes == {[w |-> 64, h |-> 32], [w |-> 32, h |-> 64]}

Symmetry == Permutations(Callers) \union Permutations(Pictures)
                \union Permutations(Previews)
=============================================================================
