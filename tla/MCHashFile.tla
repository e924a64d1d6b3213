----------------------------- MODULE MCHashFile -----------------------------
EXTENDS HashFile
=============================================================================
