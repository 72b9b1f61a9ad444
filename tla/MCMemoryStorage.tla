-------------------------- MODULE MCMemoryStorage --------------------------
(* Instances of MemoryStorage for TLC.                                     *)
EXTENDS MemoryStorage

MCUsed == Stores \X Names
=============================================================================
