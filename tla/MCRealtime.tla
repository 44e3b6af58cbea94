----------------------------- MODULE MCRealtime -----------------------------
EXTENDS Realtime
=============================================================================
