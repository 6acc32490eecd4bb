SPECIFICATION Spec
CONSTANTS
    Targets = {db, kube}
    KubeTargets = {kube}
    Invalid = Invalid
    Ports = {1, 2}
    AnyPort = AnyPort
    Names = {n1}
    MaxGateways = 3
    None = None
INVARIANT TypeOK
INVARIANT ListedGatewaysAreOpen
INVARIANT OpenGatewaysAreListed
INVARIANT OneGatewayPerKubeTarget
PROPERTY FailedPortChangeKeepsGateway
