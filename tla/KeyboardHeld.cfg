CONSTANTS
    Keys <- MCKeys
    Mods <- MCMods
    Values = {1}
    Keymap <- MCKeymap
    NpadBound = 11
SPECIFICATION Spec
INVARIANT TranslatesByHeldModifiers
