------------------------------- MODULE MCRings -------------------------------
EXTENDS RawScans
=============================================================================
