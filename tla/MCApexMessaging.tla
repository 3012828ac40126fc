--------------------------- MODULE MCApexMessaging ---------------------------
\* A small table of host Cbs.
EXTENDS ApexMessaging

CONSTANT h1

OneHostCb == <<h1>>
==============================================================================
