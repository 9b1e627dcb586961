----------------------------- MODULE MCInventory -----------------------------
(* Instances of Inventory for TLC. *)
EXTENDS Inventory

Ref(c, s) == [container |-> c, slot |-> s]

\* A client that names every slot through the inventory container.
OneName == {{Ref("inventory", 0), Ref("inventory", 1)}}

\* A client whose requests use one name per slot each, but different ones; and
\* a name that resolveSlot refuses.
OneNamePerRequest ==
    {{Ref("inventory", 0), Ref("cursor", 0)},
     {Ref("hotbar", 0), Ref("cursor", 0), Ref("cursor", 1)}}

\* A client that mixes the names of a slot in one request.
MixedNames == {{Ref("inventory", 0), Ref("hotbar", 0), Ref("cursor", 0)}}
=============================================================================
