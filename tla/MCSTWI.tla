------------------------------- MODULE MCSTWI -------------------------------
EXTENDS STWI
=============================================================================
