---------------------------- MODULE MCStreamTraining ----------------------------
EXTENDS StreamTraining

CONSTANTS short, long
MCBuckets == {short, long}
MCLiveChunks == [b \in MCBuckets |-> IF b = short THEN 1 ELSE 3]
=============================================================================
