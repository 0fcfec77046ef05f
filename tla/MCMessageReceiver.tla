------------------------- MODULE MCMessageReceiver -------------------------
EXTENDS MessageReceiver

CONSTANTS chat, advert
=============================================================================
