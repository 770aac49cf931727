------------------------------ MODULE MCSessions ------------------------------
(***************************************************************************)
(* Two people, one phone, two requests and two changes at a time.          *)
(***************************************************************************)
EXTENDS Sessions, TLC

MCInvitedAs == {"OWNER"}

Update(role, status, overrides) == [role |-> role, status |-> status, overrides |-> overrides]

MCSent == {Update("same", "REMOVED", {}),
           Update("MANAGER", "same", {[grant |-> {"employee.manage"}, revoke |-> {}]})}

Alike == Permutations(Requests) \cup Permutations(Changes)
=============================================================================
