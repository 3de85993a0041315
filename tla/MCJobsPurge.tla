----------------------------- MODULE MCJobsPurge ----------------------------
EXTENDS JobsPurge
=============================================================================
