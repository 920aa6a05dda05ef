---------------------------- MODULE MCController ----------------------------
EXTENDS Controller, TLC

Names == Permutations(MountpointPods) \cup Permutations(S3PAs)
=============================================================================
