----------------------------- MODULE ClientApi -----------------------------
(***************************************************************************)
(* The requests of common/client_api: what a client may ask the server.    *)
(***************************************************************************)
EXTENDS FileTree, WallClock

CONSTANT Content    \* the contents clients upload

ASSUME ContentAssumption == Content \subseteq Nat \ {Torn}

\* An uploaded file carries its time by the client's clock.
Request ==
         [type : {"GetTime", "GetFileList", "GetDeletedList"}]
    \cup [type : {"GetFileByPath", "MarkAsDeleted"}, path : Path]
    \cup [type : {"SendFileToServer"}, path : Path, ts : 0 .. MaxTime,
          data : Content]
=============================================================================
