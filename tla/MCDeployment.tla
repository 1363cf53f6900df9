---------------------------- MODULE MCDeployment ----------------------------
(***************************************************************************)
(* Small instances of Deployment for TLC.                                  *)
(***************************************************************************)
EXTENDS Deployment

CONSTANTS hand, smart, unitFile, library

\* Files are installed and removed while nothing but the service runs; the settings and
\* the prefix are used while the installer is at rest.  A unit edited by hand makes the
\* service a foreign one to the settings program.  What follows the end of its only run is
\* what could precede its start.
AtRest == inst = IdleInstaller /\ manifest = Files /\ trouble = 0
Apart ==
    \/ AtRest /\ meddled = 0 /\ app.end = ""
    \/ AtRest /\ file[UnitFile] = "edited" /\ faults = 0 /\ app.end = ""
    \/ app.pc = "closed" /\ opens = 0 /\ changes = 0 /\ faults = 0 /\ wrap["manual"] = "none"
=============================================================================
