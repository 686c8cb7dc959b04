--------------------------- MODULE MCDisplaySleep ---------------------------
\* An instance of DisplaySleep for TLC.
EXTENDS DisplaySleep
=============================================================================
