-------------------------- MODULE MCIncidentRecovery --------------------------
\* IncidentRecovery with a few rounds, attempts, pushes and kills, given in the .cfg files.
EXTENDS IncidentRecovery
=============================================================================
