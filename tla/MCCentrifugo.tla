---------------------------- MODULE MCCentrifugo ----------------------------
EXTENDS Centrifugo
=============================================================================
