-------------------------- MODULE MCMultipartUpload --------------------------
(* Small instances of MultipartUpload.                                        *)
EXTENDS MultipartUpload, TLC

CONSTANTS u1, u2, p1, p2, r1, r2, r3

MCUploads == {u1, u2}
MCPaths   == {p1, p2}
MCParts   == {r1, r2, r3}

\* Paths and requests are interchangeable in the safety properties.
MCSymmetry == Permutations(MCParts) \cup Permutations(MCPaths)
                \cup Permutations(MCUploads)
=============================================================================
