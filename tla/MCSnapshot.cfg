\* Headers 0..3, two concurrent callers, checkpoint interval 2, a cache of
\* two entries, one restart; the first validator's key may or may not
\* unmarshal.
CONSTANTS
    c1 = c1  c2 = c2  v1 = v1  v2 = v2  v3 = v3
    Callers <- MCCallers
    VoteAt <- MCVoteAt
    FirstValidator = v1
    MaxNum = 3
    CheckpointInterval = 2
    RecentsCap = 2
    KeyOk = {TRUE, FALSE}
    MaxRestarts = 1

SPECIFICATION Spec

PROPERTIES RefinesAbstract
