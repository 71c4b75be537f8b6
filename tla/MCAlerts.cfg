SPECIFICATION AlertSpec
CONSTANTS
    Alert = {a1}
    MaxVersion = 4
PROPERTIES
    AlertStaysTerminal
