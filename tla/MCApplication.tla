--------------------------- MODULE MCApplication ---------------------------
EXTENDS Application
=============================================================================
