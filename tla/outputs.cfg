\* IVF and MP4 written, played and read back; writing and reading end.
CONSTANTS
    NoAudio = NoAudio
    MaxU32 = 2600
    Videos <- MCVideos
    AdtsFiles <- MCAdtsFiles
    Metas <- MCMetas
    HeaderLens <- MCHeaderLens
    Cuts <- MCCuts
SPECIFICATION Spec
INVARIANT SamplesFound DurationsTrue AccessUnitsExact IvfReadsBack
CHECK_DEADLOCK FALSE
