------------------------------ MODULE MCStatistics ----------------------------
EXTENDS Statistics

\* Shorter than the limit by far, at the limit, above it
MCDurations == {10, 5000, 5001}
================================================================================
