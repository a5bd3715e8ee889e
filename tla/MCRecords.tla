----------------------------- MODULE MCRecords -------------------------------
EXTENDS Records
=============================================================================
