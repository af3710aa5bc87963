------------------------------ MODULE GroupRoles ------------------------------
(***************************************************************************)
(* What the chat service promises about the Roles of a Group Conversation,  *)
(* free of handlers and locks: from its creation to its end a group has one *)
(* owner, who is never removed or re-ranked, and hands the group over only  *)
(* to another Participant.  GroupMembership implements this specification.  *)
(***************************************************************************)
CONSTANT User

VARIABLES group,  \* "none" before creation, "live", "gone" once dissolved
          role    \* role[u]: the Role of u, "none" for a non-Participant

vars == <<group, role>>

Init == /\ group = "none"
        /\ role = [u \in User |-> "none"]

Create(o, M) ==
  /\ group = "none"
  /\ group' = "live"
  /\ role' = [u \in User |-> IF u = o THEN "owner"
                             ELSE IF u \in M THEN "member" ELSE "none"]

Admit(u) == /\ role[u] = "none"
            /\ role' = [role EXCEPT ![u] = "member"]

Part(u) == /\ role[u] \in {"admin", "member"}
           /\ role' = [role EXCEPT ![u] = "none"]

Rerank(u, r) == /\ role[u] \in {"admin", "member"}
                /\ role' = [role EXCEPT ![u] = r]

HandOver(o, u) == /\ role[o] = "owner"
                  /\ role[u] \in {"admin", "member"}
                  /\ role' = [role EXCEPT ![o] = "admin", ![u] = "owner"]

End == /\ group = "live"
       /\ group' = "gone"
       /\ role' = [u \in User |-> "none"]

Change == \/ \E u \in User : Admit(u) \/ Part(u)
          \/ \E u \in User, r \in {"admin", "member"} : Rerank(u, r)
          \/ \E o, u \in User : HandOver(o, u)

Next == \/ \E o \in User, M \in SUBSET User : Create(o, M)
        \/ group = "live" /\ UNCHANGED group /\ Change
        \/ End

Spec == Init /\ [][Next]_vars
=============================================================================
