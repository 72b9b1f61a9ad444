---------------------------- MODULE MCTraining ----------------------------
EXTENDS Training

CONSTANTS u1, u2, m1, m2

(* u1 has created m1, which is private, for himself.                       *)
MCBefore ==
    {[m \in Models |->
        IF m = m1 THEN [status |-> "CREATED", owner |-> u1, addresses |-> {u1},
                        public |-> FALSE, prices |-> {}]
        ELSE NoModel]}

MCAddressLists == {{u2}}

MCBothLists == {{u1}, {u2}}
=============================================================================
