SPECIFICATION Spec
CONSTANT Table <- ClusterResources
INVARIANT EveryResourceFound
INVARIANT StableVersionPreferred
