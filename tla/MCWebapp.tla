---- MODULE MCWebapp ----
(***************************************************************************)
(* Instances of WebappPlugin for TLC.                                      *)
(***************************************************************************)
EXTENDS WebappPlugin
====
