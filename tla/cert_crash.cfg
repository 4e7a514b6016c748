SPECIFICATION Spec
CONSTANTS
    Sans = {s1, s2, s3}
    MaxPairs = 4
INVARIANTS TypeOK CertificateFits
\* The gateway may stay down for ever.
CHECK_DEADLOCK FALSE
