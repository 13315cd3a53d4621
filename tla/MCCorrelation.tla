---- MODULE MCCorrelation ----
EXTENDS Correlation
====
