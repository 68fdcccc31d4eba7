---------------------------- MODULE MCTraceStore ----------------------------
(* Two files of the same name in two directories share a cache file.       *)
EXTENDS TraceStore

MCPaths == {"a/x", "b/x"}
MCCacheOf == [path \in MCPaths |-> "x"]
MCContents == 1 .. 3
MCSize == [c \in MCContents |-> 10 * c]
MCTraces == [c \in MCContents |-> c]

OnePath == {"a/x"}
OneCacheOf == [path \in OnePath |-> "x"]
=============================================================================
