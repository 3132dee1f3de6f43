SPECIFICATION Spec
CONSTANTS
    Images = {p1, p2}
    NoImage = NoImage
    Daemons = {d1, d2, d3}
    NoDaemon = NoDaemon
    lazy_prestart_max = 1
SYMMETRY Symmetry
INVARIANT SocketHeld
