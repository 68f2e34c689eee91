--------------------------- MODULE MCControlPlane ---------------------------
(* ControlPlane with two profiles, two config versions and a short queue.  *)
EXTENDS ControlPlane

CONSTANTS p1, p2, v1, v2

MCProfiles == {p1, p2}
MCVersions == {v1, v2}

=============================================================================
