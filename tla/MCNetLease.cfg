SPECIFICATION LeaseSpec
CONSTANTS
    Sandboxes = {s1, s2, s3, s4}
    MaxTaps = 3
    IPs = {a1, a2, a3}
    None = None
SYMMETRY Symmetry
INVARIANTS LeasesExclusive NothingLeaks
