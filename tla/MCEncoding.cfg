SPECIFICATION Spec
CONSTANT Values <- Samples
INVARIANT RoundTrip
\* The packager is done.
CHECK_DEADLOCK FALSE
