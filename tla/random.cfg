\* The program sets any cycle at any time, negative ones included.
SPECIFICATION FairSpec
CONSTANTS
    INT_MAX = 7
    RND_SEED_CYCLE = 4
    Cycles <- AllCycles
    MaxBucket = 2
INVARIANTS TypeOK CountIsDrawn
PROPERTIES SeedServesCycle SeedsAgain
