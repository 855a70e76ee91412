\* A bridge and a tool that may hold the store at once; kills, failing writes and
\* power losses at every line.
SPECIFICATION Spec
CONSTANTS
    Writers = {bridge, tool}
    Entries = {Carport, Garage}
    Inodes = {i1, i2, i3, i4}
    None = None
    bridge = bridge
    tool = tool
    Carport = Carport
    Garage = Garage
    i1 = i1
    i2 = i2
    i3 = i3
    i4 = i4
SYMMETRY Symmetric
CONSTRAINT Apart
INVARIANT
    NeverTorn
PROPERTIES
    OnlyUnseenErased
    AtomicSpec
