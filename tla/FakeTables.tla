----------------------------- MODULE FakeTables -----------------------------
(***************************************************************************)
(* The resources that a fake cluster has from the start, by Kubernetes     *)
(* version (fake/v116_resources.go to v136_resources.go): the group        *)
(* versions in the order of the table, the kinds of each in their order.   *)
(* A list that is the same in several versions is defined once. The plural *)
(* name of a resource is the one its kind determines, and each has verbs.  *)
(***************************************************************************)
EXTENDS Sequences

List(group, version, kinds) == [gv |-> <<group, version>>, kinds |-> kinds]

CoreV1 == List("", "v1", <<
    "Binding", "ComponentStatus", "ConfigMap", "Endpoints", "Event", "LimitRange", "Namespace",
    "Node", "PersistentVolumeClaim", "PersistentVolume", "Pod", "PodTemplate",
    "ReplicationController", "ResourceQuota", "Secret", "ServiceAccount", "Service">>)
ApiregistrationV1 == List("apiregistration.k8s.io", "v1", <<"APIService">>)
ApiregistrationV1BETA1 == List("apiregistration.k8s.io", "v1beta1", <<"APIService">>)
ExtensionsV1BETA1 == List("extensions", "v1beta1", <<"Ingress">>)
AppsV1 == List("apps", "v1", <<
    "ControllerRevision", "DaemonSet", "Deployment", "ReplicaSet", "StatefulSet">>)
EventsV1BETA1 == List("events.k8s.io", "v1beta1", <<"Event">>)
AuthenticationV1_since_116 == List("authentication.k8s.io", "v1", <<"TokenReview">>)
AuthenticationV1BETA1 == List("authentication.k8s.io", "v1beta1", <<"TokenReview">>)
AuthorizationV1 == List("authorization.k8s.io", "v1", <<
    "LocalSubjectAccessReview", "SelfSubjectAccessReview", "SelfSubjectRulesReview",
    "SubjectAccessReview">>)
AuthorizationV1BETA1 == List("authorization.k8s.io", "v1beta1", <<
    "LocalSubjectAccessReview", "SelfSubjectAccessReview", "SelfSubjectRulesReview",
    "SubjectAccessReview">>)
AutoscalingV1 == List("autoscaling", "v1", <<"HorizontalPodAutoscaler">>)
AutoscalingV2BETA1 == List("autoscaling", "v2beta1", <<"HorizontalPodAutoscaler">>)
AutoscalingV2BETA2 == List("autoscaling", "v2beta2", <<"HorizontalPodAutoscaler">>)
BatchV1_since_116 == List("batch", "v1", <<"Job">>)
BatchV1BETA1 == List("batch", "v1beta1", <<"CronJob">>)
CertificatesV1BETA1 == List("certificates.k8s.io", "v1beta1", <<"CertificateSigningRequest">>)
NetworkingV1_since_116 == List("networking.k8s.io", "v1", <<"NetworkPolicy">>)
NetworkingV1BETA1_since_116 == List("networking.k8s.io", "v1beta1", <<"Ingress">>)
PolicyV1BETA1 == List("policy", "v1beta1", <<"PodDisruptionBudget", "PodSecurityPolicy">>)
RbacV1 == List("rbac.authorization.k8s.io", "v1", <<
    "ClusterRoleBinding", "ClusterRole", "RoleBinding", "Role">>)
RbacV1BETA1 == List("rbac.authorization.k8s.io", "v1beta1", <<
    "ClusterRoleBinding", "ClusterRole", "RoleBinding", "Role">>)
StorageV1_since_116 == List("storage.k8s.io", "v1", <<"StorageClass", "VolumeAttachment">>)
StorageV1BETA1_since_116 == List("storage.k8s.io", "v1beta1", <<
    "CSIDriver", "CSINode", "StorageClass", "VolumeAttachment">>)
AdmissionRegistrationV1_since_116 == List("admissionregistration.k8s.io", "v1", <<
    "MutatingWebhookConfiguration", "ValidatingWebhookConfiguration">>)
AdmissionRegistrationV1BETA1 == List("admissionregistration.k8s.io", "v1beta1", <<
    "MutatingWebhookConfiguration", "ValidatingWebhookConfiguration">>)
ApiextensionsV1 == List("apiextensions.k8s.io", "v1", <<"CustomResourceDefinition">>)
ApiextensionsV1BETA1 == List("apiextensions.k8s.io", "v1beta1", <<"CustomResourceDefinition">>)
SchedulingV1 == List("scheduling.k8s.io", "v1", <<"PriorityClass">>)
SchedulingV1BETA1 == List("scheduling.k8s.io", "v1beta1", <<"PriorityClass">>)
CoordinationV1 == List("coordination.k8s.io", "v1", <<"Lease">>)
CoordinationV1BETA1 == List("coordination.k8s.io", "v1beta1", <<"Lease">>)
NodeV1BETA1 == List("node.k8s.io", "v1beta1", <<"RuntimeClass">>)
StorageV1_since_117 == List("storage.k8s.io", "v1", <<
    "CSINode", "StorageClass", "VolumeAttachment">>)
DiscoveryV1BETA1 == List("discovery.k8s.io", "v1beta1", <<"EndpointSlice">>)
NetworkingV1BETA1_since_118 == List("networking.k8s.io", "v1beta1", <<"IngressClass", "Ingress">>)
StorageV1_since_118 == List("storage.k8s.io", "v1", <<
    "CSIDriver", "CSINode", "StorageClass", "VolumeAttachment">>)
EventsV1 == List("events.k8s.io", "v1", <<"Event">>)
CertificatesV1 == List("certificates.k8s.io", "v1", <<"CertificateSigningRequest">>)
NetworkingV1_since_119 == List("networking.k8s.io", "v1", <<
    "IngressClass", "Ingress", "NetworkPolicy">>)
CalicoV1_since_119 == List("crd.projectcalico.org", "v1", <<
    "FelixConfiguration", "BlockAffinity", "GlobalNetworkPolicy", "GlobalNetworkSet",
    "IPAMHandle", "NetworkPolicy", "ClusterInformation", "IPAMBlock", "IPAMConfig",
    "BGPConfiguration", "BGPPeer", "HostEndpoint", "IPPool", "NetworkSet">>)
NodeV1 == List("node.k8s.io", "v1", <<"RuntimeClass">>)
FlowControlV1BETA1 == List("flowcontrol.apiserver.k8s.io", "v1beta1", <<
    "FlowSchema", "PriorityLevelConfiguration">>)
CalicoV1_since_120 == List("crd.projectcalico.org", "v1", <<
    "GlobalNetworkPolicy", "HostEndpoint", "IPAMConfig", "IPAMHandle", "BGPConfiguration",
    "BlockAffinity", "ClusterInformation", "FelixConfiguration", "IPPool", "NetworkSet",
    "BGPPeer", "GlobalNetworkSet", "IPAMBlock", "NetworkPolicy">>)
BatchV1_since_121 == List("batch", "v1", <<"CronJob", "Job">>)
PolicyV1 == List("policy", "v1", <<"PodDisruptionBudget">>)
StorageV1BETA1_since_121 == List("storage.k8s.io", "v1beta1", <<
    "CSIDriver", "CSINode", "CSIStorageCapacity", "StorageClass", "VolumeAttachment">>)
DiscoveryV1 == List("discovery.k8s.io", "v1", <<"EndpointSlice">>)
CalicoV1_since_121 == List("crd.projectcalico.org", "v1", <<
    "IPAMHandle", "IPPool", "NetworkSet", "BGPPeer", "IPAMBlock", "NetworkPolicy",
    "ClusterInformation", "FelixConfiguration", "IPAMConfig", "BGPConfiguration",
    "HostEndpoint", "GlobalNetworkSet", "BlockAffinity", "GlobalNetworkPolicy">>)
StorageV1BETA1_since_122 == List("storage.k8s.io", "v1beta1", <<"CSIStorageCapacity">>)

\* Mutant of AutoscalingV2: the version is misspelt.
AutoscalingV2Misspelt == List("autoscaling", "v2beta3", <<"HorizontalPodAutoscaler">>)

AutoscalingV2 == List("autoscaling", "v2", <<"HorizontalPodAutoscaler">>)
FlowControlV1BETA2 == List("flowcontrol.apiserver.k8s.io", "v1beta2", <<
    "FlowSchema", "PriorityLevelConfiguration">>)
StorageV1_since_124 == List("storage.k8s.io", "v1", <<
    "CSIDriver", "CSINode", "CSIStorageCapacity", "StorageClass", "VolumeAttachment">>)
FlowControlV1BETA3 == List("flowcontrol.apiserver.k8s.io", "v1beta3", <<
    "FlowSchema", "PriorityLevelConfiguration">>)
AuthenticationV1_since_128 == List("authentication.k8s.io", "v1", <<
    "SelfSubjectReview", "TokenReview">>)
FlowControlV1 == List("flowcontrol.apiserver.k8s.io", "v1", <<
    "FlowSchema", "PriorityLevelConfiguration">>)
AdmissionRegistrationV1_since_130 == List("admissionregistration.k8s.io", "v1", <<
    "MutatingWebhookConfiguration", "ValidatingAdmissionPolicy",
    "ValidatingAdmissionPolicyBinding", "ValidatingWebhookConfiguration">>)
NetworkingV1_since_133 == List("networking.k8s.io", "v1", <<
    "IPAddress", "IngressClass", "Ingress", "NetworkPolicy", "ServiceCIDR">>)
StorageV1_since_134 == List("storage.k8s.io", "v1", <<
    "CSIDriver", "CSINode", "CSIStorageCapacity", "StorageClass", "VolumeAttachment",
    "VolumeAttributesClass">>)
ResourceV1 == List("resource.k8s.io", "v1", <<
    "DeviceClass", "ResourceClaim", "ResourceClaimTemplate", "ResourceSlice">>)
StoragemigrationV1BETA1 == List("storagemigration.k8s.io", "v1beta1", <<"StorageVersionMigration">>)
AdmissionRegistrationV1_since_136 == List("admissionregistration.k8s.io", "v1", <<
    "MutatingAdmissionPolicy", "MutatingAdmissionPolicyBinding", "MutatingWebhookConfiguration",
    "ValidatingAdmissionPolicy", "ValidatingAdmissionPolicyBinding",
    "ValidatingWebhookConfiguration">>)

-----------------------------------------------------------------------------
V116 == <<
    CoreV1, ApiregistrationV1, ApiregistrationV1BETA1, ExtensionsV1BETA1, AppsV1, EventsV1BETA1,
    AuthenticationV1_since_116, AuthenticationV1BETA1, AuthorizationV1, AuthorizationV1BETA1,
    AutoscalingV1, AutoscalingV2BETA1, AutoscalingV2BETA2, BatchV1_since_116, BatchV1BETA1,
    CertificatesV1BETA1, NetworkingV1_since_116, NetworkingV1BETA1_since_116, PolicyV1BETA1,
    RbacV1, RbacV1BETA1, StorageV1_since_116, StorageV1BETA1_since_116,
    AdmissionRegistrationV1_since_116, AdmissionRegistrationV1BETA1, ApiextensionsV1,
    ApiextensionsV1BETA1, SchedulingV1, SchedulingV1BETA1, CoordinationV1, CoordinationV1BETA1,
    NodeV1BETA1>>

V117 == <<
    CoreV1, ApiregistrationV1, ApiregistrationV1BETA1, ExtensionsV1BETA1, AppsV1, EventsV1BETA1,
    AuthenticationV1_since_116, AuthenticationV1BETA1, AuthorizationV1, AuthorizationV1BETA1,
    AutoscalingV1, AutoscalingV2BETA1, AutoscalingV2BETA2, BatchV1_since_116, BatchV1BETA1,
    CertificatesV1BETA1, NetworkingV1_since_116, NetworkingV1BETA1_since_116, PolicyV1BETA1,
    RbacV1, RbacV1BETA1, StorageV1_since_117, StorageV1BETA1_since_116,
    AdmissionRegistrationV1_since_116, AdmissionRegistrationV1BETA1, ApiextensionsV1,
    ApiextensionsV1BETA1, SchedulingV1, SchedulingV1BETA1, CoordinationV1, CoordinationV1BETA1,
    NodeV1BETA1, DiscoveryV1BETA1>>

V118 == <<
    CoreV1, ApiregistrationV1, ApiregistrationV1BETA1, ExtensionsV1BETA1, AppsV1, EventsV1BETA1,
    AuthenticationV1_since_116, AuthenticationV1BETA1, AuthorizationV1, AuthorizationV1BETA1,
    AutoscalingV1, AutoscalingV2BETA1, AutoscalingV2BETA2, BatchV1_since_116, BatchV1BETA1,
    CertificatesV1BETA1, NetworkingV1_since_116, NetworkingV1BETA1_since_118, PolicyV1BETA1,
    RbacV1, RbacV1BETA1, StorageV1_since_118, StorageV1BETA1_since_116,
    AdmissionRegistrationV1_since_116, AdmissionRegistrationV1BETA1, ApiextensionsV1,
    ApiextensionsV1BETA1, SchedulingV1, SchedulingV1BETA1, CoordinationV1, CoordinationV1BETA1,
    NodeV1BETA1, DiscoveryV1BETA1>>

V119 == <<
    CoreV1, ApiregistrationV1, ApiregistrationV1BETA1, ExtensionsV1BETA1, AppsV1, EventsV1,
    EventsV1BETA1, AuthenticationV1_since_116, AuthenticationV1BETA1, AuthorizationV1,
    AuthorizationV1BETA1, AutoscalingV1, AutoscalingV2BETA1, AutoscalingV2BETA2,
    BatchV1_since_116, BatchV1BETA1, CertificatesV1, CertificatesV1BETA1,
    NetworkingV1_since_119, NetworkingV1BETA1_since_118, PolicyV1BETA1, RbacV1, RbacV1BETA1,
    StorageV1_since_118, StorageV1BETA1_since_116, AdmissionRegistrationV1_since_116,
    AdmissionRegistrationV1BETA1, ApiextensionsV1, ApiextensionsV1BETA1, SchedulingV1,
    SchedulingV1BETA1, CoordinationV1, CoordinationV1BETA1, NodeV1BETA1, DiscoveryV1BETA1,
    CalicoV1_since_119>>

V120 == <<
    CoreV1, ApiregistrationV1, ApiregistrationV1BETA1, AppsV1, EventsV1, EventsV1BETA1,
    AuthenticationV1_since_116, AuthenticationV1BETA1, AuthorizationV1, AuthorizationV1BETA1,
    AutoscalingV1, AutoscalingV2BETA1, AutoscalingV2BETA2, BatchV1_since_116, BatchV1BETA1,
    CertificatesV1, CertificatesV1BETA1, NetworkingV1_since_119, NetworkingV1BETA1_since_118,
    ExtensionsV1BETA1, PolicyV1BETA1, RbacV1, RbacV1BETA1, StorageV1_since_118,
    StorageV1BETA1_since_116, AdmissionRegistrationV1_since_116, AdmissionRegistrationV1BETA1,
    ApiextensionsV1, ApiextensionsV1BETA1, SchedulingV1, SchedulingV1BETA1, CoordinationV1,
    CoordinationV1BETA1, NodeV1, NodeV1BETA1, DiscoveryV1BETA1, FlowControlV1BETA1,
    CalicoV1_since_120>>

V121 == <<
    CoreV1, ApiregistrationV1, ApiregistrationV1BETA1, AppsV1, EventsV1, EventsV1BETA1,
    AuthenticationV1_since_116, AuthenticationV1BETA1, AuthorizationV1, AuthorizationV1BETA1,
    AutoscalingV1, AutoscalingV2BETA1, AutoscalingV2BETA2, BatchV1_since_121, BatchV1BETA1,
    CertificatesV1, CertificatesV1BETA1, NetworkingV1_since_119, NetworkingV1BETA1_since_118,
    ExtensionsV1BETA1, PolicyV1, PolicyV1BETA1, RbacV1, RbacV1BETA1, StorageV1_since_118,
    StorageV1BETA1_since_121, AdmissionRegistrationV1_since_116, AdmissionRegistrationV1BETA1,
    ApiextensionsV1, ApiextensionsV1BETA1, SchedulingV1, SchedulingV1BETA1, CoordinationV1,
    CoordinationV1BETA1, NodeV1, NodeV1BETA1, DiscoveryV1, DiscoveryV1BETA1, FlowControlV1BETA1,
    CalicoV1_since_121>>

V122 == <<
    CoreV1, ApiregistrationV1, AppsV1, EventsV1, EventsV1BETA1, AuthenticationV1_since_116,
    AuthorizationV1, AutoscalingV1, AutoscalingV2BETA1, AutoscalingV2BETA2, BatchV1_since_121,
    BatchV1BETA1, CertificatesV1, NetworkingV1_since_119, PolicyV1, PolicyV1BETA1, RbacV1,
    StorageV1_since_118, StorageV1BETA1_since_122, AdmissionRegistrationV1_since_116,
    ApiextensionsV1, SchedulingV1, CoordinationV1, NodeV1, NodeV1BETA1, DiscoveryV1,
    DiscoveryV1BETA1, FlowControlV1BETA1>>

V123 == <<
    CoreV1, ApiregistrationV1, AppsV1, EventsV1, EventsV1BETA1, AuthenticationV1_since_116,
    AuthorizationV1, AutoscalingV2, AutoscalingV1, AutoscalingV2BETA1, AutoscalingV2BETA2,
    BatchV1_since_121, BatchV1BETA1, CertificatesV1, NetworkingV1_since_119, PolicyV1,
    PolicyV1BETA1, RbacV1, StorageV1_since_118, StorageV1BETA1_since_122,
    AdmissionRegistrationV1_since_116, ApiextensionsV1, SchedulingV1, CoordinationV1, NodeV1,
    NodeV1BETA1, DiscoveryV1, DiscoveryV1BETA1, FlowControlV1BETA2, FlowControlV1BETA1>>

V124 == <<
    CoreV1, ApiregistrationV1, AppsV1, EventsV1, EventsV1BETA1, AuthenticationV1_since_116,
    AuthorizationV1, AutoscalingV2, AutoscalingV1, AutoscalingV2BETA1, AutoscalingV2BETA2,
    BatchV1_since_121, BatchV1BETA1, CertificatesV1, NetworkingV1_since_119, PolicyV1,
    PolicyV1BETA1, RbacV1, StorageV1_since_124, StorageV1BETA1_since_122,
    AdmissionRegistrationV1_since_116, ApiextensionsV1, SchedulingV1, CoordinationV1, NodeV1,
    NodeV1BETA1, DiscoveryV1, DiscoveryV1BETA1, FlowControlV1BETA2, FlowControlV1BETA1>>

V125 == <<
    CoreV1, ApiregistrationV1, AppsV1, EventsV1, AuthenticationV1_since_116, AuthorizationV1,
    AutoscalingV2, AutoscalingV1, AutoscalingV2BETA2, BatchV1_since_121, CertificatesV1,
    NetworkingV1_since_119, PolicyV1, RbacV1, StorageV1_since_124, StorageV1BETA1_since_122,
    AdmissionRegistrationV1_since_116, ApiextensionsV1, SchedulingV1, CoordinationV1, NodeV1,
    DiscoveryV1, FlowControlV1BETA2, FlowControlV1BETA1>>

V126 == <<
    CoreV1, ApiregistrationV1, AppsV1, EventsV1, AuthenticationV1_since_116, AuthorizationV1,
    AutoscalingV2, AutoscalingV1, BatchV1_since_121, CertificatesV1, NetworkingV1_since_119,
    PolicyV1, RbacV1, StorageV1_since_124, StorageV1BETA1_since_122,
    AdmissionRegistrationV1_since_116, ApiextensionsV1, SchedulingV1, CoordinationV1, NodeV1,
    DiscoveryV1, FlowControlV1BETA3, FlowControlV1BETA2>>

V127 == <<
    CoreV1, ApiregistrationV1, AppsV1, EventsV1, AuthenticationV1_since_116, AuthorizationV1,
    AutoscalingV2, AutoscalingV1, BatchV1_since_121, CertificatesV1, NetworkingV1_since_119,
    PolicyV1, RbacV1, StorageV1_since_124, AdmissionRegistrationV1_since_116, ApiextensionsV1,
    SchedulingV1, CoordinationV1, NodeV1, DiscoveryV1, FlowControlV1BETA3, FlowControlV1BETA2>>

V128 == <<
    CoreV1, ApiregistrationV1, AppsV1, EventsV1, AuthenticationV1_since_128, AuthorizationV1,
    AutoscalingV2, AutoscalingV1, BatchV1_since_121, CertificatesV1, NetworkingV1_since_119,
    PolicyV1, RbacV1, StorageV1_since_124, AdmissionRegistrationV1_since_116, ApiextensionsV1,
    SchedulingV1, CoordinationV1, NodeV1, DiscoveryV1, FlowControlV1BETA3, FlowControlV1BETA2>>

V129 == <<
    CoreV1, ApiregistrationV1, AppsV1, EventsV1, AuthenticationV1_since_128, AuthorizationV1,
    AutoscalingV2, AutoscalingV1, BatchV1_since_121, CertificatesV1, NetworkingV1_since_119,
    PolicyV1, RbacV1, StorageV1_since_124, AdmissionRegistrationV1_since_116, ApiextensionsV1,
    SchedulingV1, CoordinationV1, NodeV1, DiscoveryV1, FlowControlV1, FlowControlV1BETA3>>

V130 == <<
    CoreV1, ApiregistrationV1, AppsV1, EventsV1, AuthenticationV1_since_128, AuthorizationV1,
    AutoscalingV2, AutoscalingV1, BatchV1_since_121, CertificatesV1, NetworkingV1_since_119,
    PolicyV1, RbacV1, StorageV1_since_124, AdmissionRegistrationV1_since_130, ApiextensionsV1,
    SchedulingV1, CoordinationV1, NodeV1, DiscoveryV1, FlowControlV1, FlowControlV1BETA3>>

V131 == <<
    CoreV1, ApiregistrationV1, AppsV1, EventsV1, AuthenticationV1_since_128, AuthorizationV1,
    AutoscalingV2, AutoscalingV1, BatchV1_since_121, CertificatesV1, NetworkingV1_since_119,
    PolicyV1, RbacV1, StorageV1_since_124, AdmissionRegistrationV1_since_130, ApiextensionsV1,
    SchedulingV1, CoordinationV1, NodeV1, DiscoveryV1, FlowControlV1, FlowControlV1BETA3>>

V132 == <<
    CoreV1, ApiregistrationV1, AppsV1, EventsV1, AuthenticationV1_since_128, AuthorizationV1,
    AutoscalingV2, AutoscalingV1, BatchV1_since_121, CertificatesV1, NetworkingV1_since_119,
    PolicyV1, RbacV1, StorageV1_since_124, AdmissionRegistrationV1_since_130, ApiextensionsV1,
    SchedulingV1, CoordinationV1, NodeV1, DiscoveryV1, FlowControlV1>>

V133 == <<
    CoreV1, ApiregistrationV1, AppsV1, EventsV1, AuthenticationV1_since_128, AuthorizationV1,
    AutoscalingV2, AutoscalingV1, BatchV1_since_121, CertificatesV1, NetworkingV1_since_133,
    PolicyV1, RbacV1, StorageV1_since_124, AdmissionRegistrationV1_since_130, ApiextensionsV1,
    SchedulingV1, CoordinationV1, NodeV1, DiscoveryV1, FlowControlV1>>

V134 == <<
    CoreV1, ApiregistrationV1, AppsV1, EventsV1, AuthenticationV1_since_128, AuthorizationV1,
    AutoscalingV2, AutoscalingV1, BatchV1_since_121, CertificatesV1, NetworkingV1_since_133,
    PolicyV1, RbacV1, StorageV1_since_134, AdmissionRegistrationV1_since_130, ApiextensionsV1,
    SchedulingV1, CoordinationV1, NodeV1, DiscoveryV1, FlowControlV1, ResourceV1>>

V135 == <<
    CoreV1, ApiregistrationV1, AppsV1, EventsV1, AuthenticationV1_since_128, AuthorizationV1,
    AutoscalingV2, AutoscalingV1, BatchV1_since_121, CertificatesV1, NetworkingV1_since_133,
    PolicyV1, RbacV1, StorageV1_since_134, AdmissionRegistrationV1_since_130, ApiextensionsV1,
    SchedulingV1, CoordinationV1, NodeV1, DiscoveryV1, FlowControlV1, StoragemigrationV1BETA1,
    ResourceV1>>

V136 == <<
    CoreV1, ApiregistrationV1, AppsV1, EventsV1, AuthenticationV1_since_128, AuthorizationV1,
    AutoscalingV2, AutoscalingV1, BatchV1_since_121, CertificatesV1, NetworkingV1_since_133,
    PolicyV1, RbacV1, StorageV1_since_134, AdmissionRegistrationV1_since_136, ApiextensionsV1,
    SchedulingV1, CoordinationV1, NodeV1, DiscoveryV1, FlowControlV1, StoragemigrationV1BETA1,
    ResourceV1>>

-----------------------------------------------------------------------------
Versions == {"V116", "V117", "V118", "V119", "V120", "V121", "V122", "V123",
             "V124", "V125", "V126", "V127", "V128", "V129", "V130",
             "V131", "V132", "V133", "V134", "V135", "V136"}

ClusterResources == [v \in Versions |->
    CASE v = "V116" -> V116
      [] v = "V117" -> V117
      [] v = "V118" -> V118
      [] v = "V119" -> V119
      [] v = "V120" -> V120
      [] v = "V121" -> V121
      [] v = "V122" -> V122
      [] v = "V123" -> V123
      [] v = "V124" -> V124
      [] v = "V125" -> V125
      [] v = "V126" -> V126
      [] v = "V127" -> V127
      [] v = "V128" -> V128
      [] v = "V129" -> V129
      [] v = "V130" -> V130
      [] v = "V131" -> V131
      [] v = "V132" -> V132
      [] v = "V133" -> V133
      [] v = "V134" -> V134
      [] v = "V135" -> V135
      [] v = "V136" -> V136]

\* The version of a cluster that is made without one.
DefaultVersion == "V127"
=============================================================================
