CONSTANTS
    root = root
    alice = alice
    bob = bob
    Ids = {u1, u2, u3}
    Names = {root, alice, bob}
    BootstrapUsername = root
    Tokens = {t1, t2}
    Handlers = {h1, h2}
    Servers = {s1, s2}
    None = None
SPECIFICATION Spec
INVARIANTS TypeOK OneRoot TriggerIsNeverNeeded ActsWithOwnPassword RequestersStay
PROPERTIES AdminsAreMadeByTheRoot
SYMMETRY AccountSymmetry
