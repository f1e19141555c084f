-------------------------- MODULE MCVersionedState --------------------------
EXTENDS VersionedState

CONSTANTS c1, c2, u1, u2, u3, e1

\* The calls u1 and u2 are made by the client c1, the call u3 by c2.
MCOwner == [u \in Updates |-> IF u = u3 THEN c2 ELSE c1]
=============================================================================
