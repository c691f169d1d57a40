------------------------------- MODULE MCAudit -------------------------------
EXTENDS Audit

CONSTANT k1

\* A tail with a known entry and one of a kind that came later.
MCLegacy == <<[kind |-> "revoke", keyId |-> k1, ts |-> 0],
              [kind |-> "item.created", keyId |-> k1, ts |-> 0]>>

\* A filter whose fields name these keys and kinds.
FilterOn(keys, kinds) == [keyId |-> keys, keyFingerprint |-> {}, origin |-> {}, kind |-> kinds, since |-> 0]

\* The history of the item, the export of everything, and an export whose filter
\* names one key and one kind.
MCReads == {[filter |-> itemHistory(k1), order |-> "desc"],
            [filter |-> FilterOn({}, {}), order |-> "asc"],
            [filter |-> FilterOn({k1}, {"proxy.ok"}), order |-> "asc"]}
=============================================================================
