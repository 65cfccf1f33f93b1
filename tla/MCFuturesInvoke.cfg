SPECIFICATION FairSpec
CONSTANT Owners = {"none"}
PROPERTY ChainResolves
