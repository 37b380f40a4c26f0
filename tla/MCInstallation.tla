--------------------------- MODULE MCInstallation ---------------------------
(* A small installation: two launchers, a setup and an uninstall, two of   *)
(* which take part in one run.                                             *)
EXTENDS Installation

CONSTANTS l1, l2, u1, x1, owner

=============================================================================
