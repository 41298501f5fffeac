-------------------------- MODULE MCConstantValues --------------------------
(* Values of ConstantValues' constants for TLC: one-bit integers, and four *)
(* constants of different kinds that use one another in every way.         *)
EXTENDS ConstantValues

MCSuccessor == [v \in Values |-> 1 - v]
MCUnary == [op \in {"!"} |-> [v \in Values |-> 1 - v]]
MCBinary ==
  [op \in {"+", "/"} |->
     [w \in Values \X Values |->
        IF op = "+" THEN (w[1] + w[2]) % 2 ELSE IF w[2] = 0 THEN Unknown ELSE w[1]]]

MCPrograms ==
  {[id \in Ids |-> CASE id = 1 -> a [] id = 2 -> b [] id = 3 -> c [] id = 4 -> d] :
     a \in [kind : {"literal"}, value : {0, 1}]
             \cup [kind : {"unary"}, op : {"!"}, operand : {2, None}],
     b \in [kind : {"choice"}, condition : {1, 3}, consequence : {1, 4}, alternative : Ids],
     c \in [kind : {"binary"}, op : DOMAIN Binary, left : {2}, right : Ids],
     d \in [kind : {"implicit"}, previous : {3, None}]
             \cup [kind : {"unary"}, op : {"!"}, operand : {3}]}
=============================================================================
