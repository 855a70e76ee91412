\* Two processes that flush at once cut the file off.
SPECIFICATION Spec
CONSTANTS
    Writers = {bridge, tool}
    Entries = {Carport, Garage}
    Inodes = {i1, i2, i3, i4}
    None = None
    bridge = bridge
    tool = tool
    Carport = Carport
    Garage = Garage
    i1 = i1
    i2 = i2
    i3 = i3
    i4 = i4
SYMMETRY Symmetric
INVARIANT
    NeverTruncated
