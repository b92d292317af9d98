---- MODULE Sandbox ----
(***************************************************************************)
(* The sandbox of shell commands: permission profiles, the manager that    *)
(* wraps a command or refuses it, and the macOS Seatbelt backend.  A       *)
(* policy grants an operation on named parameters; what the parameters     *)
(* stand for is passed beside it.  The fixed part of the policy, which     *)
(* opens the system's own directories to every command, is left out.       *)
(***************************************************************************)
EXTENDS Naturals, Sequences, SequencesExt

(* Profiles and the paths a backend needs *)

\* The other two profiles, "unrestricted" and "disabled", are a kind alone, and a
\* managed profile that restricts the network only has no roots.
Managed(readable, writable, network) ==
    [kind |-> "managed", restricted |-> TRUE,
     readable |-> readable, writable |-> writable, network |-> network]

RequiresSandbox(profile) ==
    /\ profile.kind = "managed"
    /\ profile.restricted \/ profile.network = "denied"

WorkspaceManagedProfile(root) == Managed(<<root>>, <<root>>, "denied")

PathContext(workspace, tmpdir, runtimeReadable, runtimeWritable) ==
    [workspace |-> workspace, tmpdir |-> tmpdir,
     runtimeReadable |-> runtimeReadable, runtimeWritable |-> runtimeWritable]

-----------------------------------------------------------------------------
(* The Seatbelt policy *)

\* A section of the policy allows an operation on one parameter per root; the
\* parameters are numbered from the section's own name.  They are passed as a list
\* whose order says nothing: a set.
Section(operation, name, roots) ==
    [rules |-> {[operation |-> operation, param |-> <<name, i>>] : i \in DOMAIN roots},
     params |-> {[name |-> <<name, i>>, value |-> roots[i]] : i \in DOMAIN roots}]

BuildReadableRoots(roots) == Section("read", "READABLE_ROOT", roots)
BuildWritableRoots(roots) == Section("write", "WRITABLE_ROOT", roots)
BuildRuntimeRoots(context) ==
    <<Section("read", "RUNTIME_READABLE_ROOT", context.runtimeReadable),
      Section("write", "RUNTIME_WRITABLE_ROOT", context.runtimeWritable)>>

BuildNetworkPolicy(profile) ==
    profile.kind = "managed" /\ profile.network = "allowed"

\* A root that follows itself is listed once.
Dedup(roots) ==
    FoldLeft(LAMBDA list, root : IF list # <<>> /\ Last(list) = root
                                 THEN list ELSE Append(list, root),
             <<>>, roots)

BuildSeatbeltPolicy(profile, context) ==
    LET restricted == profile.kind = "managed" /\ profile.restricted
        readable   == IF restricted THEN profile.readable ELSE <<>>
        writable   == IF restricted THEN profile.writable ELSE <<>>
        sections   == <<BuildReadableRoots(Dedup(readable \o context.workspace \o context.tmpdir)),
                        BuildWritableRoots(writable)>> \o BuildRuntimeRoots(context)
    IN  [rules   |-> UNION {sections[i].rules : i \in DOMAIN sections},
         params  |-> UNION {sections[i].params : i \in DOMAIN sections},
         network |-> BuildNetworkPolicy(profile)]

-----------------------------------------------------------------------------
(* The manager *)

Failed(reason) == [ok |-> FALSE, reason |-> reason]
Plain == [ok |-> TRUE, sandbox |-> "none"]

BackendTransform(profile, context) ==
    IF profile.kind = "managed" /\ profile.restricted
    THEN [ok |-> TRUE, sandbox |-> "seatbelt", policy |-> BuildSeatbeltPolicy(profile, context)]
    ELSE Failed("invalid_profile")

\* Mutant: a command is not wrapped where there is nothing to wrap it with.
TransformFailsOpen(backends, profile, context) ==
    IF RequiresSandbox(profile) /\ \E i \in DOMAIN backends : backends[i]
    THEN BackendTransform(profile, context)
    ELSE Plain

\* backends: for each registered backend, whether it is available.
Transform(backends, profile, context) ==
    IF ~RequiresSandbox(profile) THEN Plain
    ELSE IF \E i \in DOMAIN backends : backends[i] THEN BackendTransform(profile, context)
    ELSE Failed("backend_not_available")

\* Of several definitions of a parameter sandbox-exec is taken to use any.
Granted(policy, operation) ==
    {p.value : p \in {q \in policy.params :
                        \E r \in policy.rules : r.operation = operation /\ r.param = q.name}}
====
