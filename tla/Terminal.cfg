CONSTANTS
    Width = 3
    Height = 2
    Glyph <- MCGlyph
    Formats <- MCFormats
    Texts <- MCTexts
    Resetting <- MCResetting
    Arguments <- MCArguments
    DigitLimit = 3
    MaxGone = 1
SPECIFICATION TerminalSpec
INVARIANTS
    PromptIsPlain
PROPERTY ImplementsPage
