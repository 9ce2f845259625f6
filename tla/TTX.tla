---- MODULE TTX ----
EXTENDS RustScorerProofs, PointTotals
====
