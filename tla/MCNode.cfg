SPECIFICATION Spec
CONSTANTS
    a = a
    b = b
    c = c
    safe = safe
    manager = manager
    zero = zero
    ext = ext
    dflt = dflt
    Addresses <- MCAddresses
    Zero = zero
    Extensions = {ext}
    DefaultExtension = dflt
    ChainIDs = {14}
    Governances <- MCGovernances
    PathLists <- MCPathLists
    Requests <- MCRequests
    Handlers = {h1, h2}
INVARIANTS ListGoverned NonceIdentifiesList
SYMMETRY HandlerSymmetry
