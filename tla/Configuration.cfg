SPECIFICATION MCSpec
CONSTANTS
    None = None
    u1 = u1
    u2 = u2
    older = older
    newer = newer
    other = other
    one = one
    two = two
    main = main
    part = part
    early = early
    hook = hook
    Urls = {u1, u2}
    Contents = {older, newer, other}
    Ids = {one, two}
    Versions = {1, 2}
    Characters = {"a", "b", "c", "x", "y"}
    StartStrings <- MCStartStrings
    Targets <- MCTargets
    Identifier <- MCIdentifier
    Version <- MCVersion
    Remapping <- MCRemapping
    Asked <- MCAsked
    Plugins = {main, part}
    Hooks = {early, hook}
    CodeVersions = {1, 2}
    Imports <- MCImports
    Declares <- MCDeclares
    Fails <- MCFails
    EarlyHook = early
    MaxOps = 4
INVARIANTS MappingsCurrent LookupRight HooksCurrent
PROPERTIES CommandLineNotPersistent
CHECK_DEADLOCK FALSE
