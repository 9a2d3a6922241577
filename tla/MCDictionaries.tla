---------------------------- MODULE MCDictionaries ----------------------------
\* Instances of Dictionaries.
EXTENDS Dictionaries, TLC
===============================================================================
