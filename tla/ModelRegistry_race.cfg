SPECIFICATION Spec
CONSTANTS
    Callers = {c1, c2}
    Engines = {"supervised"}
    BundleVersions = {"1", "2", "3"}
    Qualified = {}
    Activations = 5
INVARIANT OneActive
CHECK_DEADLOCK FALSE
