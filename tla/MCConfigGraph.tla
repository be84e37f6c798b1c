--------------------------- MODULE MCConfigGraph ---------------------------
(* Small instances of ConfigGraph for TLC.                                 *)
EXTENDS ConfigGraph

Use(left) == [left_operand |-> left, operator |-> "lteq", right_operand |-> "bound"]

OffersOf(permissions, m) ==
  {[title |-> "title", file_path |-> "path", media_type |-> "media",
    assigner |-> "assigner", permissions |-> list] : list \in BoundedSeq(permissions, m)}

Permissions(actions, n) ==
  [action : actions, constraints : BoundedSeq({Use("dateTime"), Use("count")}, n)]

(* Up to two permissions of at most one constraint each, up to two of      *)
(* none or two, or one of up to three; actions and constraints may repeat, *)
(* and come in every order.                                                *)
SmallOffers ==
  OffersOf(Permissions({"use", "distribute"}, 1), 2)
    \cup OffersOf({p \in Permissions({"use"}, 2) : Len(p.constraints) # 1}, 2)
    \cup OffersOf(Permissions({"use"}, 3), 1)

TwoConstraintOffers == OffersOf(Permissions({"use"}, 2), 1)
Symmetry == Permutations(Seeder)
=============================================================================
