SPECIFICATION InputSpec
CONSTANTS
    Letters = {"X"}
    Buttons = {"L", "R"}
INVARIANTS
    KeysInStep
    TouchInStep
