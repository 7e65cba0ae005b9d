CONSTANTS
    MaxText  = 1
    MaxBytes = 1
SPECIFICATION Spec
PROPERTY AtariAlwaysHeard
