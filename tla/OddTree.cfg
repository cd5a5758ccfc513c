SPECIFICATION Spec
CONSTANT Configs <- OddTree
PROPERTY ClusterComesUp
CHECK_DEADLOCK FALSE
