CONSTANTS
    c1 = c1
    c2 = c2
    p1 = p1
    p2 = p2
    A = A
    B = B
    Checkouts = {c1, c2}
    Payments = {p1, p2}
    Carts = {A, B}
    Absent = Absent
    Malformed = Malformed
SYMMETRY Alike
SPECIFICATION Spec
INVARIANTS
    TypeOK
    AcceptedIffMeant
