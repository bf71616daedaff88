---------------------------- MODULE MCLockedRing ----------------------------
\* Instances of LockedRing for TLC.
EXTENDS LockedRing

CONSTANTS t1, t2, b1, b2

\* All threads use the one buffer.
OneBuffer == [t \in Clients |-> b1]

\* Each thread has a buffer of its own.
BufferEach == [t \in Clients |-> IF t = t1 THEN b1 ELSE b2]
=============================================================================
