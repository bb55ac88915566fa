---------------------------- MODULE MCConfigService ----------------------------
\* ConfigService for TLC, with fairness, hence without symmetry.
EXTENDS ConfigService
=============================================================================
