---------------------------- MODULE MCInstaller ----------------------------
(* TLC instance of Installer: any mix of installs and a removal. *)
EXTENDS Installer

MCWork == {[kind |-> "install", name |-> "a"], [kind |-> "install", name |-> "b"],
           [kind |-> "uninstall", name |-> "a"]}
=============================================================================
