------------------------------- MODULE MCRelay -------------------------------
EXTENDS Relay
\* One node asks with two tids and another with the tid between; this node's
\* own question, which comes back to it, has a tid another node uses.
Several == { [uid |-> 2, tid |-> 0], [uid |-> 2, tid |-> 2], [uid |-> 3, tid |-> 1],
             [uid |-> Me, tid |-> 1] }
\* What a step handled and wrote is not looked at by the next one.
Books == <<life, tcs, ucs, books, hung, asked>>
=============================================================================
