------------------------------- MODULE MCIndexer -------------------------------
(* Instances of Indexer, with its history of passes, for TLC.              *)
EXTENDS IndexerPasses

CONSTANTS o1, o2, p1, p2
================================================================================
