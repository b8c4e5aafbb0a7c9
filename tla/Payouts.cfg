SPECIFICATION Spec
CONSTANTS
    Members = {m1, m2}
    Keys = {k1, k2}
    Workers = {w1, w2}
    MaxVersion = 2
    MaxRows = 3
    Attempts = {a1, a2}
    Outcomes = {CONFIRMED}
    RequestIds = {}
    ResponseIds = {}
    EventIds = {e1}
    None = None
    m1 = m1
    m2 = m2
    a1 = a1
    a2 = a2
    k1 = k1
    k2 = k2
    w1 = w1
    w2 = w2
    CONFIRMED = CONFIRMED
    e1 = e1
SYMMETRY Symmetry
INVARIANTS TypeOK RecordIsSound DeliveriesAreDistinct
PROPERTIES EvidenceStands
