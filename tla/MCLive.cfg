SPECIFICATION FairSpec
PROPERTY EverythingEnds
