---------------------------- MODULE MCIndexing ----------------------------
EXTENDS Indexing
=============================================================================
