\* Three handlers over two slots: any mix of page requests and revokes.
SPECIFICATION Spec
SYMMETRY Symmetry
CONSTANTS
    Handlers = {h1, h2, h3}
    Slots = {s1, s2}
    NoQuota = NoQuota
    NoGrant = NoGrant
    Quotas <- MCQuotas
INVARIANT TypeOK
INVARIANT UseIsConsented
INVARIANT ChargedOnlyWhenServed
INVARIANT RevokeIsFinalUnlessRaced
CHECK_DEADLOCK FALSE
