SPECIFICATION LiveSpec
CONSTANTS
    Configs <- MCConfigs
    Behaviours <- MCBehaviours
INVARIANT
    RightOutcome
PROPERTY
    NobodyHangs
