------------------------------ MODULE AppTypes ------------------------------
(***************************************************************************)
(* internal/appservice/types.go: application names and the states of an    *)
(* app's record.  The upgrade states are declared there and never assigned. *)
(***************************************************************************)
EXTENDS FiniteSets

CONSTANT Apps    \* application names

Failed == {"InstallFailed", "UninstallFailed", "StopFailed", "ResumeFailed"}

Transitional ==
  {"Pending", "Downloading", "Installing", "Stopping", "Resuming", "Uninstalling"}

States == {"Running", "Stopped", "Uninstalled"} \cup Failed \cup Transitional
=============================================================================
