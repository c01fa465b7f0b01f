---------------------------- MODULE AccessManager ----------------------------
(***************************************************************************)
(* The decision whether a user may do something to a resource              *)
(* (src/core/auth/access.py, gate.py, policy.py, casbin_guard.py and the   *)
(* decorators and the middleware that ask).  The user and the ability are  *)
(* fixed; what varies is what has been configured and who has which role   *)
(* and permission.  Hooks, abilities and policy methods are their answers: *)
(* anything that is neither an allowing nor a denying value is "none".     *)
(* The Casbin enforcer is external, with the built-in RBAC model.          *)
(***************************************************************************)
EXTENDS Naturals, Sequences, SequencesExt

CONSTANTS
    Roles, User,        \* subjects of permissions: the roles and the user itself
    Undefined,          \* an ability, a policy or an enforcer that is not there
    MaxHooks

AccessAssumption == User \notin Roles /\ MaxHooks \in Nat

VARIABLES
    before, after,      \* Gate: answers of the hooks, in their order
    ability,            \* Gate: the answer for the ability
    policy,             \* PolicyRegistry: answers of before() and of the method, for the model
    roles, permissions  \* CasbinGuard: roles of the user, <<subject, object>> pairs

vars == <<before, after, ability, policy, roles, permissions>>

Answers == {"allow", "deny", "none"}
Objects == {"*", "model"}
\* What is passed as resource: nothing, an instance of the model or its class.
Resources == {"nothing", "instance", "class"}

TypeOK ==
    /\ before \in Seq(Answers) /\ after \in Seq(Answers)
    /\ ability \in Answers \cup {Undefined}
    /\ policy \in [before : Answers, method : Answers \cup {Undefined}] \cup {Undefined}
    /\ roles \in SUBSET Roles \cup {Undefined}
    /\ permissions \subseteq (Roles \cup {User}) \X Objects

Init ==
    /\ before = <<>> /\ after = <<>> /\ ability = Undefined /\ policy = Undefined
    /\ roles = Undefined /\ permissions = {}

Before(a) ==
    /\ Len(before) + Len(after) < MaxHooks /\ before' = Append(before, a)
    /\ UNCHANGED <<after, ability, policy, roles, permissions>>

After(a) ==
    /\ Len(before) + Len(after) < MaxHooks /\ after' = Append(after, a)
    /\ UNCHANGED <<before, ability, policy, roles, permissions>>

Define(a) == ability' = a /\ UNCHANGED <<before, after, policy, roles, permissions>>

Register(p) == policy' = p /\ UNCHANGED <<before, after, ability, roles, permissions>>

SetCasbin ==
    /\ roles = Undefined /\ roles' = {}
    /\ UNCHANGED <<before, after, ability, policy, permissions>>

AddRoleForUser(r) ==
    /\ roles # Undefined /\ roles' = roles \cup {r}
    /\ UNCHANGED <<before, after, ability, policy, permissions>>

DeleteRoleForUser(r) ==
    /\ roles # Undefined /\ roles' = roles \ {r}
    /\ UNCHANGED <<before, after, ability, policy, permissions>>

AddPermission(s, o) ==
    /\ roles # Undefined /\ permissions' = permissions \cup {<<s, o>>}
    /\ UNCHANGED <<before, after, ability, policy, roles>>

RemovePermission(s, o) ==
    /\ roles # Undefined /\ permissions' = permissions \ {<<s, o>>}
    /\ UNCHANGED <<before, after, ability, policy, roles>>

Next ==
    \/ \E a \in Answers : Before(a) \/ After(a) \/ Define(a)
    \/ \E b \in Answers, m \in Answers \cup {Undefined} : Register([before |-> b, method |-> m])
    \/ SetCasbin
    \/ \E r \in Roles : AddRoleForUser(r) \/ DeleteRoleForUser(r)
    \/ \E s \in Roles \cup {User}, o \in Objects : AddPermission(s, o) \/ RemovePermission(s, o)

Spec == Init /\ [][Next]_vars

-----------------------------------------------------------------------------

IsAnswer(a) == a # "none"

\* After hooks of which the first to answer counts.
Overridden_First(a) == FoldLeft(LAMBDA x, y : IF IsAnswer(x) THEN x ELSE y, "none", Append(after, a))

\* Gate.inspect(): the first decisive before hook; then the ability, denied
\* when it is unknown or answers nothing; then each after hook may override.
Overridden(a) == FoldLeft(LAMBDA x, y : IF IsAnswer(y) THEN y ELSE x, a, after)

Inspect ==
    LET decisive == SelectSeq(before, IsAnswer)
    IN  IF decisive # <<>> THEN Head(decisive)
        ELSE IF ability = Undefined THEN "deny"
        ELSE Overridden(IF IsAnswer(ability) THEN ability ELSE "deny")

\* PolicyRegistry.check(): the policy is looked up by the type of the
\* resource, which for a class is not that class.
Check(resource) ==
    IF policy = Undefined \/ resource # "instance" THEN "deny"
    ELSE IF IsAnswer(policy.before) THEN policy.before
    ELSE IF policy.method = "allow" THEN "allow" ELSE "deny"

Enforce(object) ==
    IF \E s \in roles \cup {User} : <<s, object>> \in permissions THEN "allow" ELSE "deny"

ResourceName(resource) == IF resource = "nothing" THEN "*" ELSE "model"

\* AccessManager.can().
Can(resource) ==
    IF ability # Undefined THEN Inspect
    ELSE IF resource # "nothing" /\ policy # Undefined THEN Check(resource)
    ELSE IF roles # Undefined THEN Enforce(ResourceName(resource))
    ELSE "deny"

HasAnyRole(required) == roles # Undefined /\ roles \cap required # {}
HasPermission == roles # Undefined /\ Enforce("*") = "allow"

\* AuthorizationMiddleware with any of its options, None among them left out.
Admits(required, asksAbility, asksPermission) ==
    /\ required # {} => HasAnyRole(required)
    /\ asksAbility => Can("nothing") = "allow"
    /\ asksPermission => HasPermission

\* @requires_role and @requires_permission: without a manager at hand only the
\* first goes on, with the role the user says it has.
RequiresRole(found, required, own) == IF found THEN HasAnyRole(required) ELSE own \in required
RequiresPermission(found) == found /\ HasPermission

-----------------------------------------------------------------------------

\* The documented resolution order: each level that has something to say, in
\* the order before hooks, ability, policy, Casbin; deny by default.
Opinions(resource) == <<
    IF SelectSeq(before, IsAnswer) # <<>> THEN Head(SelectSeq(before, IsAnswer)) ELSE "none",
    IF ability = Undefined THEN "none"
    ELSE IF SelectSeq(after, IsAnswer) # <<>> THEN Last(SelectSeq(after, IsAnswer))
    ELSE IF ability = "allow" THEN "allow" ELSE "deny",
    IF resource = "nothing" \/ policy = Undefined THEN "none"
    ELSE IF policy.before = "allow" \/ (policy.before = "none" /\ policy.method = "allow")
         THEN "allow" ELSE "deny",
    IF roles = Undefined THEN "none"
    ELSE IF \E s \in roles \cup {User} : <<s, ResourceName(resource)>> \in permissions
         THEN "allow" ELSE "deny",
    "deny">>

\* can() decides as the resolution order says, whatever is configured at which
\* level, except that before hooks are heard for abilities the gate knows only
\* and that a class is no resource a policy could be asked about; and nobody
\* gets past the middleware or the decorators by roles or permissions that
\* Casbin does not know, but for a role of one's own where no manager is found.
DecidesAsDocumented ==
    /\ \A resource \in Resources :
        /\ ability = Undefined => SelectSeq(before, IsAnswer) = <<>>
        /\ resource = "class" => policy = Undefined \/ ability # Undefined
        => Can(resource) = Head(SelectSeq(Opinions(resource), IsAnswer))
    /\ \A required \in SUBSET Roles, asks \in BOOLEAN :
        Admits(required, asks, TRUE) \/ RequiresPermission(TRUE) => roles # Undefined
            /\ \E s \in roles \cup {User} : <<s, "*">> \in permissions
    /\ \A required \in SUBSET Roles, found \in BOOLEAN, own \in Roles :
        RequiresRole(found, required, own) =>
            \/ roles # Undefined /\ roles \cap required # {}
            \/ ~ found /\ own \in required
===============================================================================
