CONSTANTS
    Beyond <- MCBeyond
    Keys <- MCKeys
    LineSize = 7
    Command <- MCCommand
    Files <- MCFiles
    Directories <- MCDirectories
    SubDirectories = {"sub"}
    Dots = {".", ".."}
    MaxPages = 1
SPECIFICATION Spec
INVARIANTS
    LineIsShown
    ArgumentsAreWords
    CommandsGiveBack
    ListsDirectory
PROPERTY EnterIsAnswered
