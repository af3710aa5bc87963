-------------------------- MODULE MCGroupMembership --------------------------
(***************************************************************************)
(* Three Users on a group that starts with its founder and two members.     *)
(* The founder transfers, removes, dissolves and leaves on one Device and   *)
(* re-invites and re-ranks on another; a member leaves, sends and, once     *)
(* promoted or made the owner, removes and dissolves.                       *)
(***************************************************************************)
EXTENDS GroupMembership, TLC

CONSTANTS t1, t2, t3, olga, mia, xena

Call(op, by, who, names, rank) ==
  [op |-> op, by |-> by, who |-> who, names |-> names, rank |-> rank]
Plain(op, by)    == Call(op, by, by, <<>>, "member")
Onto(op, by, who) == Call(op, by, who, <<>>, "admin")

Found == Call("create", olga, olga, <<mia, xena>>, "member")

MCRequests ==
  (t1 :> {Found, Onto("transfer", olga, mia), Onto("remove", olga, xena),
          Plain("dissolve", olga), Plain("leave", olga)}) @@
  (t2 :> {Plain("leave", mia), Plain("send", mia), Onto("transfer", mia, olga),
          Onto("remove", mia, xena)}) @@
  (t3 :> {Call("invite", olga, olga, <<xena, mia>>, "member"),
          Onto("rerank", olga, mia), Plain("dissolve", mia)})

\* mia leaves on two Devices while the founder is alone with her.
LeaveRequests ==
  (t1 :> {Found, Onto("remove", olga, xena)}) @@
  (t2 :> {Plain("leave", mia)}) @@
  (t3 :> {Plain("leave", mia)})
=============================================================================
