------------------------------ MODULE MCParts ------------------------------
(* Small instances of four parts that share no state: a behaviour is one of *)
(* a single part, in which the others rest where they begin.                *)
EXTENDS ResponseCache, LogFile, Paths, Browser

\* Root prefixes as configured: none, "a", and "/a\".
Roots == {<<>>, <<"a">>, <<"/", "a", "\\">>}

VARIABLE part

PartsInit ==
  /\ part \in {"cache", "log", "paths", "browser"}
  /\ CacheInit /\ LogInit /\ PathInit /\ BrowserInit
  /\ part # "browser" => tab.urls = <<Home>>

PartsNext ==
  \/ part = "cache" /\ CacheNext /\ UNCHANGED <<part, logVars, pathVars, browserVars>>
  \/ part = "log" /\ LogNext /\ UNCHANGED <<part, cacheVars, pathVars, browserVars>>
  \/ part = "paths" /\ PathNext /\ UNCHANGED <<part, cacheVars, logVars, browserVars>>
  \/ part = "browser" /\ BrowserNext /\ UNCHANGED <<part, cacheVars, logVars, pathVars>>

PartsSpec == PartsInit /\ [][PartsNext]_<<part, cacheVars, logVars, pathVars, browserVars>>
=============================================================================
