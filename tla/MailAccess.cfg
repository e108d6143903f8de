SPECIFICATION Spec
CONSTANTS
    Users = {alice, bob}
    Pops = {p1, p2}
    Imaps = {i1}
    MaxMail = 2
    NoUser = NoUser
SYMMETRY Symmetry
INVARIANT AccessInv
PROPERTIES
    RemovalsWarranted
    OwnMailOnly
    NumbersStable
