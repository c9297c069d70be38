CONSTANTS
    Commands = {c1}
    Users = {u1}
    MaxLeases = 1
    FormerOutcomes = {"succeeded", "failed"}
    MaxFaults = 0
SPECIFICATION FairSpec
PROPERTIES ConnectorReleases
