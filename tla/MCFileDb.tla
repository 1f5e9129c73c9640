------------------------------ MODULE MCFileDb ------------------------------
EXTENDS FileDb
CONSTANTS h1, h2, a, b
\* Two names, and the one JoinData makes of them.
Names == {<<a>>, <<b>>, <<a, b>>}
=============================================================================
