------------------------ MODULE MCDataAccessSequence ------------------------
(***************************************************************************)
(* getEffectivePrevious on every nesting of five accesses (120 nestings,  *)
(* up to five levels deep) and every call the engine can make on it.      *)
(***************************************************************************)
EXTENDS DataAccessSequence

=============================================================================
