---------------------------- MODULE MCTransport -----------------------------
\* The instance of Transport that TLC checks: a file of one chunk and an empty one.
EXTENDS Transport

MCSizes == <<1, 0>>
=============================================================================
