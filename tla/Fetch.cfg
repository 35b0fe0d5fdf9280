CONSTANTS
    a = a
    b = b
    c = c
    d = d
    x = x
    ta = ta
    tb = tb
    tc = tc
    sub = sub
    f = f
    g = g
    tag = tag
    main = main
    dev = dev
    client = client
    Objects = {a, b, c, d, x, ta, tb, tc, sub, f, g, tag}
    Kind <- MCKind
    Content <- MCContent
    Refs = {main, dev}
    NoRef = NoRef
    Clients = {client}
    Starts <- MCStarts
    MaxPushes = 3
    MaxDeletions = 1
    MaxFetches = 2
SPECIFICATION Spec
CHECK_DEADLOCK FALSE
INVARIANTS TypeOK OnlyTagsAndSubmodulesAreMissing PackIsExact ListedIsServed
