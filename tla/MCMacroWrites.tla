---------------------------- MODULE MCMacroWrites ----------------------------
\* A small keyboard for MacroWrites.
EXTENDS MacroWrites

\* Two factory macros whose triggers do not ascend, as on the K84CS.
FactoryTable == <<[lkey |-> 3, hkeys |-> <<8, 4>>], [lkey |-> 2, hkeys |-> <<9, 5>>]>>
=============================================================================
