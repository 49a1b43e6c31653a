---------------------------- MODULE MCModeExpiry ----------------------------
\* Model of ModeExpiry for TLC; constants are given in ModeExpiry_pass.cfg.
EXTENDS ModeExpiry
=============================================================================
