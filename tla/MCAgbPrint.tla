----------------------------- MODULE MCAgbPrint -----------------------------
EXTENDS AgbPrint
=============================================================================
