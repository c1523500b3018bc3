---------------------------- MODULE MCDefaultCV ----------------------------
EXTENDS DefaultCV
=============================================================================
