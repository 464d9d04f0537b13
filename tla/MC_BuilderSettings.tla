-------------------------- MODULE MC_BuilderSettings --------------------------
EXTENDS BuilderSettings, TLC

CONSTANTS p1, p2, k1, c1, o1, v1

MC_Protocols == {p1, p2}
\* p2 stands for a protocol of 2^32 bytes or more
MC_LongProtocols == {p2}
MC_KeyNames == {k1}
\* one key too short by a byte, one just long enough, and one too long
\* for a u32 once U32Limit is scaled down to 17 in the cfg
MC_KeyLens == {15, 16, 17}
MC_TrustCerts == {c1}
MC_Options == {o1}
MC_Values == {v1}

=============================================================================
