------------------------------- MODULE MCRunner -------------------------------
EXTENDS Runner, TLC
CONSTANTS f1, f2, s1, s2, p1, p2, p3
Size11 == [f \in File |-> 11]
Size4 == [f \in File |-> 4]
Size8 == [f \in File |-> 8]
AllLists == SUBSET Server
BothPeers == {Peer}
SomePeers == SUBSET Peer \ {{}}
NoLists == {{}}
===============================================================================
