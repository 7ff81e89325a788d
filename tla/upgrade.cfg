SPECIFICATION FairSpec
CONSTANTS
    MaxVersion = 3
    Manifests <- MCManifests
    Broken = {2}
    NotExecutable = {}
    SchemaOf <- MCSchema
    KeepReleases = 2
    MaxBootAttempts = 3
    MaxCrashes = 1
    MaxFaults = 2
INVARIANTS WayBack PageTellsTheTruth
PROPERTIES GoesBackOnlyByTheJournal UpgradeEnds
