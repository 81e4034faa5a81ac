\* A video job delivered three times and a merge that waits for it; two crashes.
SPECIFICATION FairSpec
CONSTANTS
    video = video
    voice = voice
    merge = merge
    v1 = v1
    v2 = v2
    v3 = v3
    m1 = m1
    Jobs = {video, voice, merge}
    Runs = {v1, v2, v3, m1}
    NoRun = NoRun
    JobOf <- ThreeVideosAndMerge
    KindOf <- Kinds
    Inherited = {voice}
    PoolSize = 2
    MaxLooks = 3
    MaxCrashes = 2
INVARIANTS
    TypeOK
    
    JobAndArtifactAgree
PROPERTIES
    ObjectsAreNotRewritten
    RunsEnd
CHECK_DEADLOCK FALSE
