SPECIFICATION MCSpec
CONSTANTS
    p1 = p1
    a1 = a1
    None = None
    Packages <- OnePackage
    Activities <- OneActivity
    Versions <- TwoVersions
    IntWidth = 3
    kPerfettoMaxTraces = 1
    MinTraces = 1
    MaxEvents = 3
PROPERTIES
    UninstalledRemoved
