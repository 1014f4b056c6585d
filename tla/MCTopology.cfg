SPECIFICATION Spec
CONSTANTS
    N = 3
    Nss <- MCNss
    Indices <- MCIndices
    NULL = NULL
INVARIANTS PeerSymmetric MasterTrue LinkTrue PeerTrue NoSilentLoss SameDiagram PeersDrawnOnce
CHECK_DEADLOCK FALSE
