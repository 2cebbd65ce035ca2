--------------------------- MODULE MCUserProfile ---------------------------
(* Two cards of one category in two cities.                                *)
EXTENDS UserProfile

CONSTANTS c1, c2

MCKeyOf == [kind \in Kinds |->
              [c \in Cards |-> IF kind = "category" \/ c = c1 THEN 1 ELSE 2]]
=============================================================================
