\* Two jobs of the Docker backend side by side over one workspace.
CONSTANTS
    StagedJobs = {j1, j2}
    Fixture = Fixture
    Paths <- SomePaths
    BlockedPaths <- SomeBlocked
    OneAtATime = FALSE
    MaxWrites = 2
SPECIFICATION StagedSpec
PROPERTY ExecutedWriteStays
CHECK_DEADLOCK FALSE
