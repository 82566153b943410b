---------------------------- MODULE MCRuntimeSession ----------------------------
\* Small instances of RuntimeSession for TLC.  Identifiers of one kind are only ever
\* compared with each other, so they are interchangeable.
EXTENDS RuntimeSession, TLC

Symmetry == Permutations(Gens) \cup Permutations(Creds)
            \cup Permutations(Socks) \cup Permutations(EventIds)
===============================================================================
