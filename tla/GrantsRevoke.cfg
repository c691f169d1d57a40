\* One proxied call and one popup revoke of its slot.
SPECIFICATION Spec
CONSTANTS
    Handlers = {h1, h2}
    Slots = {s1}
    NoQuota = NoQuota
    NoGrant = NoGrant
    Quotas <- MCQuotas
INVARIANT RevokeIsFinal
CHECK_DEADLOCK FALSE
