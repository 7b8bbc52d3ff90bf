----------------------------- MODULE MCMappings -----------------------------
EXTENDS Mappings

MCTop == 8
MCNoAddr == 15
MCRegions == {r \in [addr : 1 .. MCTop - 1, size : 1 .. MCTop - 1] : End(r) <= MCTop}
============================================================================
