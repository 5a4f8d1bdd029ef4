-------------------------- MODULE MCSingletonLock --------------------------
(* Instances of SingletonLock for TLC. *)
EXTENDS SingletonLock

CONSTANTS e1, e2

Two == {e1, e2}
=============================================================================
