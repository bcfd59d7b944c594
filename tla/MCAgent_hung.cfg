\* The same instance, for a slug whose llama-server answers while the other hangs.
SPECIFICATION FairAgent
CONSTANTS
    a = a  b = b  j1 = j1  j2 = j2  j3 = j3
    NoJob = NoJob
    Slugs = {a, b}
    Jobs = {j1, j2, j3}
    SlugOf <- TwoSlugs
    MaxConcurrent = 1
    MaxChunks = 1
PROPERTIES
    NoSlugStarves
