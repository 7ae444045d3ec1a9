---------------------------- MODULE MCRtasGetVpd ----------------------------
\* Model-checking instances of RtasGetVpd: versions of different lengths, so
\* that a restart may need more or fewer buffers than the attempt before it.
EXTENDS RtasGetVpd

MCVersions == {"v1", "v2", "v3"}
MCPageCount == [v \in MCVersions |-> CASE v = "v1" -> 1 [] v = "v2" -> 2 [] v = "v3" -> 4]
=============================================================================
