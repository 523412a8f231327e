--------------------------- MODULE MCLayoutWrites ---------------------------
\* A small keyboard for LayoutWrites: every key has code 4 at the factory.
EXTENDS LayoutWrites

FactoryLayout == [l \in LogicalKeys |-> 4]
=============================================================================
