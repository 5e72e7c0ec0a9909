---------------------------- MODULE MCAttemptFiles ----------------------------
(* Two paths, one of a large file.                                             *)
EXTENDS AttemptFiles

MCPaths == {"a", "b"}
MCBig == {"b"}
===============================================================================
