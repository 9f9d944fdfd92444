\* Two extensions with every value of up to two characters, no backslash.
CONSTANTS
    Keys <- MCKeys
    Chars = {"a", "Q", "SEMI", "EQ", "CR", "LF"}
    ValueLens = {1, 2}
    Forms = {"quoted"}
    MaxMetas = 2
SPECIFICATION Spec
INVARIANTS HeaderEndFound RoundTrip
