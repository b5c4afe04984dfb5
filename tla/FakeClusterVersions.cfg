SPECIFICATION Spec
CONSTANTS
    c1 = c1
    c2 = c2
    Clusters = {c1, c2}
    Version <- DifferentVersions
    Table <- RealTable
    CRDs <- CustomResources
    Kinds = {"CronJob", "NodeGroup"}
    Namespaces = {"default"}
    Names = {"n"}
INVARIANT DiscoveredCanBeListed
INVARIANT ShownOnce
INVARIANT RegisteredIsFound
INVARIANT FindersAgree
INVARIANT SimpleObjectsCanBeDeleted
PROPERTY ObjectsStay
PROPERTY EachIsAnApi
INVARIANT CRDsStayInTheirCluster
