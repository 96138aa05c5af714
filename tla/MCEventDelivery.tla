--------------------------- MODULE MCEventDelivery --------------------------
\* Two threads of the engine and the UI thread, on both kinds of platform.
EXTENDS EventDelivery
CONSTANTS w1, w2
=============================================================================
