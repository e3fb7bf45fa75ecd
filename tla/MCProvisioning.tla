--------------------------- MODULE MCProvisioning ----------------------------
\* Instances of Provisioning for TLC; symmetry where no property is temporal.
EXTENDS Provisioning, TLC

TaskSymmetry == Permutations(Task)
HostSymmetry == Permutations(Host)

\* AvailableIsClean says nothing more of a node that has been robbed, so that
\* with one node the search may stop there (TargetFitsState is proved beyond).
NotRobbed == robbed = {}
=============================================================================
