------------------------------ MODULE MCItems ------------------------------
EXTENDS Items, TLC

MCIds == {"hat", "suit", "box", "pill"}
MCTypes == {"head", "set"}
MCTypeOf == [hat |-> "head", suit |-> "set", box |-> "none", pill |-> "none"]
MCSetParts == {"head"}
MCLists == {<<id>> : id \in MCIds} \cup {<<"hat", "suit">>}
MCSymmetry == Permutations(Chars)
=============================================================================
