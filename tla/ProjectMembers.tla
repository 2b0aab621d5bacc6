--------------------------- MODULE ProjectMembers ---------------------------
(***************************************************************************)
(* The members of one project and what they may do: add_member(),          *)
(* remove_member(), change_member_role(), archive() and unarchive() in     *)
(* apps/api/src/routes/projects.rs under can() in domain/permissions.rs.   *)
(*                                                                         *)
(* A handler is one step here: two that overlap can each count the other's *)
(* lead (ensure_not_last_lead() and the write are two statements).         *)
(***************************************************************************)
EXTENDS Naturals, FiniteSets

CONSTANTS
    Admin,   \* users whose global role is admin
    Member,  \* users whose global role is member
    Viewer   \* users whose global role is viewer

VARIABLES
    role,      \* table project_members, "none" standing for no row
    archived   \* archived_at IS NOT NULL

vars == <<role, archived>>

User == Admin \cup Member \cup Viewer

----------------------------------------------------------------------------
ProjectRole == {"lead", "contributor", "watcher"}

Read == {"ViewProject", "ViewBoard"}
Toggle == {"ArchiveProject", "DeleteProject"}
Manage == {"EditProject", "AddProjectMember", "RemoveProjectMember",
           "ChangeProjectMemberRole", "ManageBoards", "ManageColumns"}

(* can(), for a resource that is a project. *)
Can(u, action) ==
    \/ u \in Admin
    \/ action \in Read /\ role[u] \in ProjectRole
    \/ /\ u \in Member
       /\ \/ action = "EditTask" /\ role[u] \in {"lead", "contributor"} /\ ~archived
          \/ action \in Manage /\ role[u] = "lead" /\ ~archived
          \/ action \in Toggle /\ role[u] = "lead"

Leads == {u \in User : role[u] = "lead"}

LastLeadUnlessTwo(u) == u \in Leads /\ Cardinality(Leads) < 1

(* ensure_not_last_lead() *)
LastLead(u) == u \in Leads /\ Cardinality(Leads) <= 1

(* create(): the creator becomes lead, whatever the global role allows. *)
Init ==
    /\ archived = FALSE
    /\ \E creator \in Admin \cup Member :
         role = [u \in User |-> IF u = creator THEN "lead" ELSE "none"]

----------------------------------------------------------------------------
(* ON CONFLICT DO UPDATE SET role: whoever is a member already gets the role. *)
AddMember(by, u, new) ==
    /\ Can(by, "AddProjectMember")
    /\ role' = [role EXCEPT ![u] = new]
    /\ UNCHANGED archived

RemoveMember(by, u) ==
    /\ Can(by, "RemoveProjectMember") /\ ~LastLead(u)
    /\ role' = [role EXCEPT ![u] = "none"]
    /\ UNCHANGED archived

ChangeMemberRole(by, u, new) ==
    /\ Can(by, "ChangeProjectMemberRole")
    /\ new # "lead" => ~LastLead(u)
    /\ role' = [role EXCEPT ![u] = IF @ = "none" THEN @ ELSE new]
    /\ UNCHANGED archived

Archive(by) == Can(by, "ArchiveProject") /\ archived' = TRUE /\ UNCHANGED role

Unarchive(by) == Can(by, "ArchiveProject") /\ archived' = FALSE /\ UNCHANGED role

----------------------------------------------------------------------------
Next ==
    \E by \in User :
        \/ Archive(by) \/ Unarchive(by)
        \/ \E u \in User :
             \/ RemoveMember(by, u)
             \/ \E new \in ProjectRole : AddMember(by, u, new) \/ ChangeMemberRole(by, u, new)

Spec == Init /\ [][Next]_vars

----------------------------------------------------------------------------
TypeOK == role \in [User -> ProjectRole \cup {"none"}] /\ archived \in BOOLEAN

(* A project keeps a lead, unless its only one is added again in another role:
   the one door that does not ask ensure_not_last_lead() (routes/projects.rs). *)
OnlyReaddingTakesTheLastLead ==
    [][Leads # {} /\ Leads' = {} =>
         \E by, u \in User, new \in ProjectRole : u \in Leads /\ AddMember(by, u, new)]_vars

=============================================================================
