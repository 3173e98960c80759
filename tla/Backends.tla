------------------------------- MODULE Backends -------------------------------
(***************************************************************************)
(* How the perception and the planning node come by a backend: the         *)
(* registry (backend_registry.py of either package), in which the backends *)
(* register themselves on import, and _get_backend_safe() of either node.  *)
(***************************************************************************)
CONSTANTS
  Registered, \* the names backends have registered under
  Configured  \* the name the configuration has, for any capability

\* get_backend(): a KeyError for a name nobody registered.
Found(name) == name \in Registered

\* _get_backend_safe(): the backend configured, else the default one, else
\* None, whose every call raises.
BackendOutcomes(default, outcomes) ==
  IF Found(Configured) \/ Found(default) THEN outcomes ELSE {"raises"}

===============================================================================
