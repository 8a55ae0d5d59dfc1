CONSTANTS
    ClickMin = 2
    ClickWindow = 15
    EditHold = 22
    MaxRefusals = 1
SPECIFICATION Spec
INVARIANT TypeOK
PROPERTY ActionsEarned
