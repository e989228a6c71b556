--------------------------- MODULE MCEspRingBuffer ---------------------------
(* EspRingBuffer over a small alphabet: every tag up to the size of the    *)
(* buffer, every sequence of resets, inits and pushes up to the bound.     *)
EXTENDS EspRingBuffer
=============================================================================
