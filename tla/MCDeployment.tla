---------------------------- MODULE MCDeployment ----------------------------
EXTENDS Deployment

\* A group and one of its subgroups.
GroupsInUse == {"D", "D1"}
=============================================================================
