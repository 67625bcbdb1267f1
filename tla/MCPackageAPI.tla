----------------------------- MODULE MCPackageAPI -----------------------------
(***************************************************************************)
(* PackageAPI for TLC: a configuration with the metrics collector and one  *)
(* without, so that initializing again finds an object it does not want.   *)
(***************************************************************************)
EXTENDS PackageAPI

Names == {"", "lynx-app"}

WithAndWithout == {[EmptyConfig EXCEPT !.metrics = TRUE], EmptyConfig}
=============================================================================
