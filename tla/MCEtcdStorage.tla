--------------------------- MODULE MCEtcdStorage ---------------------------
(* Instances of EtcdStorage for TLC.                                       *)
EXTENDS EtcdStorage

(* All requests go to the storage with one prefix; the other is there to   *)
(* be left out of what GetAll reads.                                       *)
MCUsed == {"a"} \X Names
=============================================================================
