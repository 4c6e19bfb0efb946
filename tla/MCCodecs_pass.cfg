\* CHECK_DEADLOCK FALSE: a wire that has arrived is over.
CONSTANTS
    Samples <- MCSamples
    Octet = 16
    MaxFrame = 16
SPECIFICATION Spec
INVARIANT CutsDoNotMatter
INVARIANT RoundTrip
INVARIANT OneSpelling
INVARIANT WordsAsOctets
CHECK_DEADLOCK FALSE
