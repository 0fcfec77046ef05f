-------------------------- MODULE MCMessageSender --------------------------
EXTENDS MessageSender, TLC

CONSTANTS m1, m2

\* Two messages nothing tells apart.
TwoMessages == {m1, m2}
Symmetry == Permutations(TwoMessages)
=============================================================================
