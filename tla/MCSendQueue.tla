---------------------------- MODULE MCSendQueue ----------------------------
\* The send queue on small instances.
EXTENDS SendQueue
=============================================================================
