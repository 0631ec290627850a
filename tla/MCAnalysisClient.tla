-------------------------- MODULE MCAnalysisClient --------------------------
EXTENDS AnalysisClient

CONSTANTS p, q
=============================================================================
