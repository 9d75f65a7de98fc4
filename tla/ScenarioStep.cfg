SPECIFICATION FairSpec
CONSTANTS
    MaxLikes = 1
    MaxScrolls = 2
    Durations <- DurationsUsed
    Untils <- UntilsUsed
INVARIANTS
    StepTypeOK FrozenIsTreated RecoveryOnlyWhenStill GesturesLand
    CompletedMeansFinished ActsInPlace EndsWhereItSays PublishesItsVideo PausedIsLeftAlone
PROPERTIES NearerToItsEnd StepsEnd
