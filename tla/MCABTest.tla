------------------------------- MODULE MCABTest -------------------------------
\* The A/B test as TLC checks it: a test of two candidates, with a recipient held back
\* or with everybody in the sample.
EXTENDS ABTest

CONSTANTS r1, r3, a, b

MCBuckets == {[r \in Recipients |-> IF r = r1 THEN a ELSE v] : v \in {NoVariant, b}}
=============================================================================
