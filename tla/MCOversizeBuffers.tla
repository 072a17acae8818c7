------------------------ MODULE MCOversizeBuffers ------------------------
EXTENDS OversizeBuffers
=============================================================================
