----------------------------- MODULE MCEspReceive -----------------------------
EXTENDS EspReceive
=============================================================================
