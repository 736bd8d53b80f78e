CONSTANTS
    MaxId = 4
    Values = {v1, v2}
    Setups <- MCSetups
    BatchCount = 1
SPECIFICATION FairSpec
PROPERTIES MigrationUnseen MigrationKeepsRows IsPlainTable SourceIsDropped
