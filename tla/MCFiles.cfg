SPECIFICATION Spec
CONSTANTS
    Sessions = {s1, s2}
    Peers = {p1}
    Owner <- MCOwner
    Names = {n1}
    NameOf <- MCNameOf
    Contents <- MCContents
    ChunkSize = 2
    Ids = {i1, i2}
    Garbage = Garbage
    Programs = {q1, q2}
    Relays = {r1, r2}
    Keys = {k1, k2, k3}
    None = None
    a = a
    b = b
    c = c
SYMMETRY Interchangeable
INVARIANTS TransferIsSound KeysAreSound
PROPERTIES Publishes NothingLost IdentityIsForGood
CHECK_DEADLOCK FALSE
