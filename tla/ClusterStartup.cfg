SPECIFICATION Spec
CONSTANT Configs <- SoundConfigs
INVARIANT NoClientStranded
PROPERTIES NoLateAbort ClusterComesUp
CHECK_DEADLOCK FALSE
