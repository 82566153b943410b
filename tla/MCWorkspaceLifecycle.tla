------------------------- MODULE MCWorkspaceLifecycle -------------------------
\* Small instances of WorkspaceLifecycle for TLC.
EXTENDS WorkspaceLifecycle

MCGens == {"g1"}
TwoGens == {"g1", "g2"}
OneServer == <<"web">>
TwoServers == <<"web", "api">>
MCServerGens == 1..8
===============================================================================
