------------------------------ MODULE MCWorld ------------------------------
EXTENDS World
=============================================================================
