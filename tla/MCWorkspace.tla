---------------------------- MODULE MCWorkspace -----------------------------
(* Workspace with a sticky skill for one directory and a narrowing one for  *)
(* the other.                                                               *)
EXTENDS Workspace, TLC

CONSTANTS home, other, guide, tour

MCSkillDir == guide :> other @@ tour :> home
=============================================================================
