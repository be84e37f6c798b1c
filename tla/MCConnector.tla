---------------------------- MODULE MCConnector ----------------------------
(* Small instances of Connector for TLC.                                   *)
EXTENDS Connector

(* Two permissions, the first with a constraint.                           *)
TheOffer ==
  [title |-> "title", file_path |-> "path", media_type |-> "media",
   assigner |-> "assigner",
   permissions |->
     << [action |-> "use",
         constraints |-> << [left_operand |-> "dateTime", operator |-> "lteq",
                             right_operand |-> "bound"] >>],
        [action |-> "distribute", constraints |-> <<>>] >>]

OneOffer == {TheOffer}
=============================================================================
