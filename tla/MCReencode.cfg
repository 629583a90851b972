CONSTANTS
    Filename = {"a", "b", "c"}
    Cache <- MCCache
SPECIFICATION Spec
INVARIANTS
    HashesMatch
    CopyIsServed
    FreshnessNotOverstated
