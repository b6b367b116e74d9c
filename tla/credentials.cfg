\* Three callers whose streams share one key; two of them share a link.
SPECIFICATION FairSpec
CONSTANTS
    c1 = c1
    c2 = c2
    c3 = c3
    linkA = linkA
    linkB = linkB
    None = None
    Callers = {c1, c2, c3}
    StreamOf <- MCStreamOf
    LinkOf <- MCLinkOf
    StreamsPerCache = 10
    MaxFetches = 3
    MaxUrls = 1
INVARIANTS
    TypeOK
    OwnLink
    SomeUrl
    RefusedIsGone
PROPERTIES
    FetchesEnd
