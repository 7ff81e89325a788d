--------------------------- MODULE MCSelfUpgrade ---------------------------
EXTENDS SelfUpgrade

MCManifests == {1 .. k : k \in 2 .. MaxVersion}
MCSchema == [v \in Version |-> v]

=============================================================================
