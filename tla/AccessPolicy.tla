----------------------------- MODULE AccessPolicy -----------------------------
(***************************************************************************)
(* authz/policy.go: who may do what to which resource.  The engine has no  *)
(* state and no handler calls it yet, so the module has operators and      *)
(* theorems about them only.  The roles of a principal, a slice in the     *)
(* code, are a set here (the loop over them returns on the first that      *)
(* grants the request, and nothing depends on their order), and so are the *)
(* classrooms of a teacher.                                                *)
(***************************************************************************)
EXTENDS TLAPS

\* The empty string of an absent field.
Absent == ""

DesktopPermissions ==
    {"desktop.read", "desktop.create", "desktop.start", "desktop.shutdown",
     "desktop.force_stop", "desktop.delete", "desktop.snapshot.create",
     "desktop.snapshot.rollback", "desktop.rebuild", "desktop.connect",
     "desktop.remote_control"}

PlatformPermissions == {"cluster.manage", "credential.manage", "identity.manage"}

knownPermissions ==
    DesktopPermissions \cup PlatformPermissions \cup
    {"infrastructure.read",
     "classroom.read", "classroom.manage", "classroom.precheck",
     "template.read", "template.manage", "template.publish",
     "terminal.read", "terminal.manage",
     "operation.read", "operation.retry_item", "operation.retry_batch",
     "audit.read"}

roleGrants(role) ==
    CASE role = "school_operator" ->
            knownPermissions \ (PlatformPermissions \cup {"desktop.connect", "audit.read"})
      [] role = "teacher" ->
            {"classroom.read", "classroom.precheck", "desktop.read", "desktop.start",
             "desktop.shutdown", "operation.read", "operation.retry_item"}
      [] role = "student" -> {"desktop.read", "desktop.connect"}
      [] role = "auditor" -> {"audit.read"}
      [] OTHER -> {}

teacherScopeAllows(principal, resource) ==
    /\ resource.classroom # Absent
    /\ resource.classroom \in principal.classrooms

studentScopeAllows(principal, permission, resource) ==
    /\ permission \in {"desktop.read", "desktop.connect"}
    /\ resource.assignment # Absent
    /\ resource.assignedSubject # Absent
    /\ resource.assignedSubject = principal.subject

\* One turn of the loop over the roles.
RoleAllows(role, principal, permission, resource) ==
    /\ permission \in roleGrants(role)
    /\ \/ role \in {"school_operator", "auditor"}
       \/ role = "teacher" /\ teacherScopeAllows(principal, resource)
       \/ role = "student" /\ studentScopeAllows(principal, permission, resource)

SameOrganization(principal, resource) ==
    /\ principal.organization # Absent
    /\ resource.organization # Absent
    /\ principal.organization = resource.organization

\* The returns of defaultAllowed, in their order.
Allowed(principal, permission, resource) ==
    IF principal.subject = Absent \/ permission \notin knownPermissions THEN FALSE
    ELSE IF permission = "operation.retry_item" /\ resource.item = Absent THEN FALSE
    ELSE IF "platform_admin" \in principal.roles THEN TRUE
    ELSE IF ~SameOrganization(principal, resource) THEN FALSE
    ELSE \E role \in principal.roles : RoleAllows(role, principal, permission, resource)

WithRoles(principal, roles) == [principal EXCEPT !.roles = roles]

\* A principal as the authentication makes it.
IsPrincipal(p) ==
    p = [subject |-> p.subject, organization |-> p.organization,
         roles |-> p.roles, classrooms |-> p.classrooms]
-----------------------------------------------------------------------------
\* Roles compose: a principal with the roles of two may do what one of the two
\* may do and nothing else, so no combination of roles opens what none of them
\* opens (TestMultipleRolesComposeWithoutBypassingRoleScope, for all roles).
THEOREM RolesCompose ==
    ASSUME NEW p, IsPrincipal(p), NEW R, NEW S, NEW permission, NEW resource
    PROVE  Allowed(WithRoles(p, R \cup S), permission, resource)
           <=> \/ Allowed(WithRoles(p, R), permission, resource)
               \/ Allowed(WithRoles(p, S), permission, resource)
<1>1. ASSUME NEW T
      PROVE  /\ WithRoles(p, T).subject = p.subject
             /\ WithRoles(p, T).organization = p.organization
             /\ WithRoles(p, T).classrooms = p.classrooms
             /\ WithRoles(p, T).roles = T
    BY DEF WithRoles, IsPrincipal
<1>2. ASSUME NEW T, NEW role
      PROVE  RoleAllows(role, WithRoles(p, T), permission, resource)
             <=> RoleAllows(role, p, permission, resource)
    BY <1>1 DEF RoleAllows, teacherScopeAllows, studentScopeAllows
<1>3. ASSUME NEW T
      PROVE  Allowed(WithRoles(p, T), permission, resource) <=>
                /\ p.subject # Absent /\ permission \in knownPermissions
                /\ ~(permission = "operation.retry_item" /\ resource.item = Absent)
                /\ \/ "platform_admin" \in T
                   \/ /\ SameOrganization(p, resource)
                      /\ \E role \in T : RoleAllows(role, p, permission, resource)
    BY <1>1, <1>2 DEF Allowed, SameOrganization
<1> QED BY <1>3

\* Default deny: whoever is allowed something has a name, asks for a permission
\* that exists, and is of the organization of the resource unless he is a
\* platform administrator, who alone manages clusters, credentials and identities.
THEOREM DefaultDeny ==
    ASSUME NEW p, NEW permission, NEW resource, Allowed(p, permission, resource)
    PROVE  /\ p.subject # Absent
           /\ permission \in knownPermissions
           /\ \/ "platform_admin" \in p.roles
              \/ SameOrganization(p, resource) /\ permission \notin PlatformPermissions
<1>1. ASSUME NEW role PROVE PlatformPermissions \cap roleGrants(role) = {}
    BY DEF PlatformPermissions, roleGrants
<1> QED BY <1>1 DEF Allowed, RoleAllows

\* A desktop is connected to by the student it is assigned to, and by nobody else
\* of the school, whatever other roles he has.
THEOREM OnlyAssignedConnects ==
    ASSUME NEW p, NEW resource, Allowed(p, "desktop.connect", resource),
           "platform_admin" \notin p.roles
    PROVE  /\ "student" \in p.roles
           /\ resource.assignment # Absent
           /\ resource.assignedSubject = p.subject
<1>1. ASSUME NEW role, "desktop.connect" \in roleGrants(role) PROVE role = "student"
    BY <1>1 DEF roleGrants
<1>2. PICK role \in p.roles : RoleAllows(role, p, "desktop.connect", resource)
    BY DEF Allowed
<1> QED BY <1>1, <1>2 DEF RoleAllows, studentScopeAllows

\* A teacher without another role only reaches classrooms he is given.
THEOREM TeacherStaysInClassrooms ==
    ASSUME NEW p, NEW permission, NEW resource, Allowed(p, permission, resource),
           p.roles = {"teacher"}
    PROVE  resource.classroom \in p.classrooms /\ permission \in roleGrants("teacher")
BY DEF Allowed, RoleAllows, teacherScopeAllows
=============================================================================
