---------------------------- MODULE MCKArrayMove ----------------------------
EXTENDS KArrayMove
=============================================================================
