---------------------------- MODULE MCSelfHealing ----------------------------
(* SelfHealing for TLC: which units have not joined yet when it begins. *)
EXTENDS SelfHealing

CONSTANTS u1, u2, u3

AllJoined == {{}}

AllOrNoneWaiting == {{}, {u2, u3}}

NoneJoined == {{u2, u3}}
================================================================================
