------------------------------ MODULE LaunchAudit ------------------------------
(***************************************************************************)
(* audit_launch: looks through the launch files for arguments that are     *)
(* passed to a file nobody below which reads them.                         *)
(*                                                                         *)
(* files maps the name of a launch file to what the regular expressions    *)
(* find in it: vars it substitutes, args it names (declares, or passes     *)
(* on), params it loads ([from, named], a file or the argument that holds  *)
(* one), default (of the arguments that have one, the file), includes      *)
(* ([target, passed]), whether it is XML and parses, and the packages it   *)
(* refers to.  params maps parameter files to the vars in them.  A target  *)
(* is a file, the name of one that is not there, "uninstalled", or         *)
(* "dynamic" where the package is itself a variable.                       *)
(***************************************************************************)
EXTENDS Naturals, FiniteSets

MAX_DEPTH == 4

Unresolved == {"uninstalled", "dynamic"}
Found(files, target) == target \in DOMAIN files

\* The parameter files that can be told from the text.
ParamFiles(file) ==
    {p.from : p \in {q \in file.params : q.named}}
        \cup {file.default[p.from] : p \in {q \in file.params : ~q.named /\ q.from \in DOMAIN file.default}}

\* Variant for the mutation runs: what cannot be followed is taken for seen.
FollowBlindly(files, params, file, below) ==
    LET there == {i \in file.includes : Found(files, i.target)}
    IN  [names |-> file.vars \cup file.args
                \cup (UNION {params[p] : p \in ParamFiles(file) \cap DOMAIN params})
                \cup (UNION {below[i.target].names : i \in there}),
         complete |-> TRUE]

\* referenced_names, `left' files above the depth limit: the names the target
\* may read, and whether everything below it could be seen.
Follow(files, params, file, below) ==
    LET there == {i \in file.includes : Found(files, i.target)}
    IN  [names |-> file.vars \cup file.args
                \cup (UNION {params[p] : p \in ParamFiles(file) \cap DOMAIN params})
                \cup (UNION {below[i.target].names : i \in there}),
         complete |-> there = file.includes /\ \A i \in there : below[i.target].complete]

ReferencedNames(files, params, name) ==
    LET at[left \in 0..MAX_DEPTH] ==
            IF left = 0
            THEN [f \in DOMAIN files |->
                    [names |-> files[f].vars \cup files[f].args, complete |-> TRUE]]
            ELSE [f \in DOMAIN files |-> Follow(files, params, files[f], at[left - 1])]
    IN  at[MAX_DEPTH][name]

Finding(severity, what, about) == [severity |-> severity, what |-> what, about |-> about]

\* check_include_args
OfInclude(files, params, include) ==
    IF include.target = "dynamic" THEN {}
    ELSE IF include.target = "uninstalled"
    THEN {Finding("WARN", "cannot check", include.target)}
    ELSE IF ~Found(files, include.target)
    THEN {Finding("BUG", "no such file", include.target)}
    ELSE LET read == ReferencedNames(files, params, include.target)
         IN  {Finding(IF read.complete THEN "BUG" ELSE "WARN", "nobody reads", name) :
                    name \in include.passed \ read.names}

\* check_param_files, check_unused_args, check_pkg_refs
MissingParams(params, file) ==
    {Finding("BUG", "no such file", p.from) :
        p \in {q \in file.params : q.named /\ q.from \notin DOMAIN params \cup Unresolved}}

UnusedArgs(file) ==
    {Finding("INFO", "never referenced", name) :
        name \in file.args \ (file.vars \cup UNION {i.passed : i \in file.includes})}

MissingPackages(file, installed) ==
    {Finding("WARN", "not found", package) : package \in file.packages \ installed}

Audit(files, params, installed, name) ==
    LET file == files[name]
    IN  (IF file.parses THEN {} ELSE {Finding("BUG", "does not parse", name)})
        \cup (IF file.xml /\ file.parses
              THEN UNION {OfInclude(files, params, i) : i \in file.includes} ELSE {})
        \cup MissingParams(params, file) \cup UnusedArgs(file)
        \cup MissingPackages(file, installed)

AuditExit(findings) == IF \E f \in findings : f.severity = "BUG" THEN 1 ELSE 0
=============================================================================
