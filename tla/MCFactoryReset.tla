---------------------------- MODULE MCFactoryReset ----------------------------
\* Instances of FactoryReset.
EXTENDS FactoryReset
================================================================================
