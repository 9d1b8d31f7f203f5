------------------------------ MODULE MCMetrics ------------------------------
\* A small instance of the metrics registry.
EXTENDS Metrics

CONSTANTS t1, t2, m1
=============================================================================
