SPECIFICATION Spec
CONSTANTS
    s1 = s1
    s2 = s2
    c1 = c1
    c2 = c2
    owner = owner
    r1 = r1
    r2 = r2
    p1 = p1
    p2 = p2
    b1 = b1
    b2 = b2
    remover = remover
    reader = reader
    Builders = {b1, b2}
    Remover = remover
    Readers = {reader}
    MaxCommit = 1
    MaxBuilds = 2
    MaxReads = 1
    Nil = Nil
    n1 = n1
    n2 = n2
    n3 = n3
    elsewhere = elsewhere
    missing = missing
    file = file
    twin = twin
    third = third
    other = other
    None = None
SYMMETRY Symmetry
INVARIANTS TypeOK AttachmentIsPublic GraphIsWhole AnswersAreHonest
PROPERTY ReplacesWhatItSaw
CHECK_DEADLOCK FALSE
