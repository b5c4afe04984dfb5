SPECIFICATION Spec
CONSTANTS
    c1 = c1
    c2 = c2
    Clusters = {c1, c2}
    Version <- OneVersion
    Table <- RealTable
    CRDs <- CustomResources
    Kinds = {"CronJob", "NodeGroup"}
    Namespaces = {"default"}
    Names = {"n"}
INVARIANT CRDsStayInTheirCluster
