---------------------------- MODULE MCApplication ----------------------------
(* Instances of the application loop: every command at the console, and in   *)
(* chat what tells the ways of a line apart.                                *)
EXTENDS Application

AllTyped == Commands \ Queries

AFewLines ==
  {[by |-> "friend", says |-> says] : says \in {"stop", "follow", "status"}}
    \cup {[by |-> "stranger", says |-> "stop"]}
=============================================================================
