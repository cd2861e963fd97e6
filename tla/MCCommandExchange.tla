-------------------------- MODULE MCCommandExchange --------------------------
(* Instances of CommandExchange: who the commands are for. *)
EXTENDS CommandExchange

OneEmployee == [c \in Upserts \union Enrolls |-> "ann"]
TwoEmployees == [c \in Upserts \union Enrolls |-> IF c % 2 = 0 THEN "ann" ELSE "bob"]
=============================================================================
