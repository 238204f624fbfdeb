------------------------------ MODULE MCOutput ------------------------------
EXTENDS Output
=============================================================================
