----------------------------- MODULE ShowRoles ------------------------------
(***************************************************************************)
(* Who may do what on a show: shows with the role assignments of their     *)
(* members, and the page on which administrators manage these.             *)
(*                                                                         *)
(* All shows are of one organization: the first is made by a superuser,    *)
(* and whoever makes another gets the organization of an assignment or of  *)
(* a show that exists. A member without any assignment has none.           *)
(***************************************************************************)
EXTENDS Integers, FiniteSets

CONSTANTS
    Members,      \* User rows
    Superusers,   \* those with is_superuser
    Shows,        \* Show rows
    Assignments,  \* ShowRoleAssignment rows
    RoleCalls,    \* requests that may overlap
    Granted,      \* the roles that are picked in the form
    NoOne

ASSUME RoleConstants ==
    /\ Superusers \subseteq Members
    /\ NoOne \notin Members
    /\ Granted \subseteq {"guest", "editor", "producer", "host", "admin"}

VARIABLES
    show,        \* which shows were made and which of them deleted
    assignment,  \* the ShowRoleAssignment table
    roleCall     \* what each request is doing

roleVars == <<show, assignment, roleCall>>

----------------------------------------------------------------------------
HIERARCHY == [guest |-> 1, editor |-> 2, producer |-> 3, host |-> 4, admin |-> 5]

AssignmentRows == [show : Shows, user : Members, role : DOMAIN HIERARCHY]

\* A row that was never inserted, and one that was deleted: no other row gets its key.
Unborn == {}
Gone == {NoOne}

Waiting == [doing |-> "nothing"]

RoleInit ==
    /\ show = [s \in Shows |-> "unmade"]
    /\ assignment = [a \in Assignments |-> Unborn]
    /\ roleCall = [r \in RoleCalls |-> Waiting]

RowAt(a) == assignment[a] \ {NoOne}

AssignmentsOf(u, s) == {row \in UNION {RowAt(a) : a \in Assignments} : row.user = u /\ row.show = s}

RolesOf(u, s) == {row.role : row \in AssignmentsOf(u, s)}

highest_role(roles) ==
    CHOOSE role \in roles : \A other \in roles : HIERARCHY[other] <= HIERARCHY[role]

\* The member's role, or "none".
get_user_role_for_show(u, s) ==
    IF u \in Superusers THEN "admin"
    ELSE IF RolesOf(u, s) = {} THEN "none"
    ELSE highest_role(RolesOf(u, s))

has_role(u, s, roles) == get_user_role_for_show(u, s) \in roles

HasOrganization(u) == u \in Superusers \/ \E s \in Shows : AssignmentsOf(u, s) # {}

Does(r, call) == roleCall' = [roleCall EXCEPT ![r] = call]
Answers(r) == Does(r, Waiting)

----------------------------------------------------------------------------
(* Shows.                                                                  *)

\* The show is saved, and the row that makes its creator the administrator follows ...
ShowCreateView(r, u, s) ==
    /\ roleCall[r] = Waiting
    /\ show[s] = "unmade"
    /\ HasOrganization(u)
    /\ show' = [show EXCEPT ![s] = "made"]
    /\ Does(r, [doing |-> "assigning", who |-> u, show |-> s, user |-> u, role |-> "admin"])
    /\ UNCHANGED assignment

\* ... which the API never inserts.
ShowListCreateAPI(u, s) ==
    /\ show[s] = "unmade"
    /\ HasOrganization(u)
    /\ show' = [show EXCEPT ![s] = "made"]
    /\ UNCHANGED <<assignment, roleCall>>

\* DELETE takes the assignments of the show along.
ShowDetailAPI(u, s) ==
    /\ show[s] = "made"
    /\ HasOrganization(u)
    /\ show' = [show EXCEPT ![s] = "deleted"]
    /\ assignment' = [a \in Assignments |->
                        IF \E row \in RowAt(a) : row.show = s THEN Gone ELSE assignment[a]]
    /\ UNCHANGED roleCall

----------------------------------------------------------------------------
(* The page of roles.                                                      *)

required_roles == {"admin"}

\* Each POST checks the role of its sender when it finds the show ...
Checked(r, u, s) ==
    /\ roleCall[r] = Waiting
    /\ show[s] = "made"
    /\ has_role(u, s, required_roles)

\* ... then inserts a row for the user that was picked in the form, ...
PostRole(r, u, s, v, role) ==
    /\ Checked(r, u, s)
    /\ Does(r, [doing |-> "assigning", who |-> u, show |-> s, user |-> v, role |-> role])
    /\ UNCHANGED <<show, assignment>>

\* ... or deletes the row whose key the sender's copy of the page has.
PostRemoval(r, u, s, a) ==
    /\ Checked(r, u, s)
    /\ assignment[a] # Unborn
    /\ Does(r, [doing |-> "removing", who |-> u, show |-> s, id |-> a,
                held |-> get_user_role_for_show(u, s)])
    /\ UNCHANGED <<show, assignment>>

\* The form leaves out the show, so it does not look for a row of the same show and user:
\* the insert raises on one, as it does when the show is gone.
SaveAssignment(r) ==
    LET call == roleCall[r]
    IN  /\ call.doing = "assigning"
        /\ IF show[call.show] = "made" /\ AssignmentsOf(call.user, call.show) = {}
           THEN \E a \in Assignments :
                  /\ assignment[a] = Unborn
                  /\ assignment' = [assignment EXCEPT
                        ![a] = {[show |-> call.show, user |-> call.user, role |-> call.role]}]
           ELSE UNCHANGED assignment
        /\ Answers(r)
        /\ UNCHANGED show

\* Defect: the row is looked up by its key alone, whatever show it belongs to.
DeleteAssignment_ByKey(r) ==
    /\ roleCall[r].doing = "removing"
    /\ assignment' = [assignment EXCEPT ![roleCall[r].id] = Gone]
    /\ Answers(r)
    /\ UNCHANGED show

\* A row that is gone, or of another show, is not found; the page says it was removed.
DeleteAssignment(r) ==
    LET call == roleCall[r]
    IN  /\ call.doing = "removing"
        /\ assignment' = IF \E row \in RowAt(call.id) : row.show = call.show
                         THEN [assignment EXCEPT ![call.id] = Gone] ELSE assignment
        /\ Answers(r)
        /\ UNCHANGED show

\* The process is killed between a request's steps.
CallDies(r) ==
    /\ roleCall[r] # Waiting
    /\ Answers(r)
    /\ UNCHANGED <<show, assignment>>

----------------------------------------------------------------------------
RoleNext ==
    \/ \E r \in RoleCalls :
         \/ SaveAssignment(r) \/ DeleteAssignment(r) \/ CallDies(r)
         \/ \E u \in Members, s \in Shows :
              \/ ShowCreateView(r, u, s)
              \/ \E v \in Members, role \in Granted : PostRole(r, u, s, v, role)
              \/ \E a \in Assignments : PostRemoval(r, u, s, a)
    \/ \E u \in Members, s \in Shows : ShowListCreateAPI(u, s) \/ ShowDetailAPI(u, s)

RoleSpec == RoleInit /\ [][RoleNext]_roleVars

----------------------------------------------------------------------------
RoleTypeOK ==
    /\ show \in [Shows -> {"unmade", "made", "deleted"}]
    /\ \A a \in Assignments :
         /\ assignment[a] = Gone \/ (assignment[a] \subseteq AssignmentRows
                                       /\ Cardinality(assignment[a]) <= 1)
         /\ \A row \in RowAt(a) : show[row.show] = "made"

Led(s) == \E a \in Assignments : \E row \in RowAt(a) : row.show = s /\ row.role = "admin"

\* A request that an administrator of the show sent takes their own row, comes from a
\* superuser, or took effect after its sender had lost the role that it was allowed for.
StepsDown(r, s) ==
    /\ roleCall[r].doing = "removing"
    /\ roleCall'[r] = Waiting
    /\ \/ roleCall[r].who \in Superusers
       \/ \E row \in RowAt(roleCall[r].id) : row.user = roleCall[r].who
       \/ /\ roleCall[r].show = s
          /\ roleCall[r].held = "admin"
          /\ get_user_role_for_show(roleCall[r].who, s) # "admin"

\* A show with an administrator keeps one until it is deleted: a removal never takes the
\* last one unless a superuser asked for it, the last one did so themself, or its sender,
\* an administrator when the page checked, had been removed by an overlapping request.
AdminsStay ==
    [][\A s \in Shows : Led(s) => Led(s)' \/ show'[s] = "deleted"
                                    \/ \E r \in RoleCalls : StepsDown(r, s)]_roleVars
=============================================================================
