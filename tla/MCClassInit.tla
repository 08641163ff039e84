---------------------------- MODULE MCClassInit ----------------------------
(* Instances of ClassInit for TLC: the class Sub extends Base and          *)
(* implements Face; the interface Face extends Root; the class Peer        *)
(* implements both.                                                        *)
EXTENDS ClassInit

CONSTANTS Sub, Base, Peer, Face, Root

Hierarchy == [k \in Classes |-> IF k = Sub THEN Base ELSE None]

Implements == [k \in Classes |-> CASE k = Sub -> <<Face>>
                                   [] k = Peer -> <<Face, Root>>
                                   [] k = Face -> <<Root>>
                                   [] OTHER -> <<>>]

\* What static initialisers refer to: Base to itself, Root to an interface that
\* extends it
BaseUses == [k \in Classes |-> IF k = Base THEN <<Base>> ELSE <<>>]
BothUse == [k \in Classes |-> CASE k = Base -> <<Base>> [] k = Root -> <<Face>> [] OTHER -> <<>>]
=============================================================================
