SPECIFICATION DocsSpec
CONSTANTS
    Texts = {y1, y2}
    Scribes = {h1, h2}
    NoText = NoText
    MaxDocOps = 3
    MaxCommits = 3
INVARIANT FetchNeverCrossesPush
CHECK_DEADLOCK FALSE
