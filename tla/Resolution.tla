----------------------------- MODULE Resolution -----------------------------
(***************************************************************************)
(* Where `ai` looks for what it was named: tasks and their prompts, skills, *)
(* packages, system prompt hooks, modes and profiles.                      *)
(*                                                                         *)
(* A root is a pair <<base, sub>>: a directory sub below a base, which is  *)
(* the configuration directory, AISH_HOME, the user's home, the project or *)
(* a package.  A disk says which roots are directories and what they hold: *)
(*   dirs      the roots that are directories                              *)
(*   scripts   <<root, name, layout>>: files that a task can run           *)
(*   odd       <<root, name>>: an entry name.sh that is no regular file    *)
(*   prompts   <<root, name, layout>>: prompts that are readable and not   *)
(*             blank                                                       *)
(*   specs     <<root, name, layout>> -> task.toml: its skills, or broken  *)
(*   skills    <<root, name>> -> "broken" (skill.toml), "silent" (its      *)
(*             instructions) or "text"                                     *)
(*   packages  root -> the packages with a manifest, as they are listed    *)
(*   system    the packages whose system hook is readable and not blank    *)
(*   hooks     root -> whether each hook, by name, prints something and    *)
(*             succeeds                                                    *)
(*   modes     <<base, name>> -> what the mode sets, or broken             *)
(*   profiles  base -> the profiles and the default, none or broken        *)
(* An environment gives AISH_HOME and the directories from the cwd up.     *)
(***************************************************************************)
EXTENDS Integers, Sequences, FiniteSets

CONSTANTS
    Plain,     \* names of a task that TaskName::parse takes as they are
    Trimmed,   \* names with blanks around them, to what is left without
    NoHome,    \* AISH_HOME is not set
    None,      \* nothing was found, or given
    Builtin    \* the providers that need no profile

ResolutionAssumption ==
    /\ \A n \in DOMAIN Trimmed : Trimmed[n] \in Plain
    /\ DOMAIN Trimmed \cap Plain = {}
    /\ None \notin Plain

ASSUME ResolutionAssumption

Layouts == {"directory", "file"}   \* name/execute, name.sh

-----------------------------------------------------------------------------
\* StdRuntimeCatalog: the places of a kind in their order, those that exist

Given(there, x) == IF there THEN <<x>> ELSE <<>>

\* config_dir, from AISH_HOME or else the XDG directories.
ConfigBase(env) == IF env.home = NoHome THEN "xdg" ELSE env.home

\* The first directory from the cwd up that has a .aish directory.
ProjectPlaces(disk, env, sub) ==
    LET marked == SelectSeq(env.above, LAMBDA d : <<d, ".aish">> \in disk.dirs)
    IN  Given(marked # <<>>, <<Head(marked), sub>>)

Places(disk, env, kind) ==
    LET config(sub)  == <<<<ConfigBase(env), sub>>>>
        project(sub) == ProjectPlaces(disk, env, sub)
        user(sub)    == <<<<"user", sub>>>>
    IN  CASE kind = "tasks" ->
               config("config/task.d") \o Given(env.home # NoHome, <<env.home, "task.d">>)
          [] kind = "hooks" ->
               config("hooks") \o user("hooks") \o project("hooks")
          [] kind = "plugins" ->
               project("plugins") \o config("plugins") \o config("plugins.d") \o user("plugins.d")
          [] kind \in {"skills", "packages"} ->
               project(kind) \o config(kind)

Locations(disk, env, kind) ==
    SelectSeq(Places(disk, env, kind), LAMBDA r : r \in disk.dirs)

\* list_packages: location by location.
Packages(disk, env) ==
    LET roots == Locations(disk, env, "packages")
        upto[i \in 0..Len(roots)] ==
            IF i = 0 THEN <<>> ELSE upto[i - 1] \o disk.packages[roots[i]]
    IN  upto[Len(roots)]

-----------------------------------------------------------------------------
\* Tasks

\* TaskName::parse; names with a separator, "." and ".." are refused.
Parse(name) ==
    IF name \in Plain THEN name
    ELSE IF name \in DOMAIN Trimmed THEN Trimmed[name] ELSE None

\* detect_task_kind, and resolve_task_path for its path: execute before .sh.
LayoutIn(disk, root, name) ==
    IF <<root, name, "directory">> \in disk.scripts THEN "directory"
    ELSE IF <<root, name, "file">> \in disk.scripts THEN "file" ELSE None

\* The first of some roots for which something holds.
FirstRoot(roots, Holds(_)) ==
    LET having == {i \in 1..Len(roots) : Holds(roots[i])}
    IN  IF having = {} THEN None
        ELSE roots[CHOOSE i \in having : \A k \in having : i <= k]

TaskRoots(disk, env) == Locations(disk, env, "tasks")
PackageRoots(disk, env) ==
    [i \in 1..Len(Packages(disk, env)) |-> <<Packages(disk, env)[i], "tasks">>]

\* find_task_origin: the name is taken as it is.
FindOrigin(disk, env, name) ==
    LET has(r) == LayoutIn(disk, r, name) # None
        own    == FirstRoot(TaskRoots(disk, env), has)
    IN  IF own # None THEN own ELSE FirstRoot(PackageRoots(disk, env), has)

\* Slip: the packages are searched first.
ScriptRootPackagesFirst(disk, env, raw) ==
    LET has(r)   == LayoutIn(disk, r, Parse(raw)) # None
        there(r) == r \in disk.dirs /\ has(r)
        packaged == FirstRoot(PackageRoots(disk, env), there)
    IN  IF Parse(raw) = None THEN None
        ELSE IF packaged # None THEN packaged ELSE FirstRoot(TaskRoots(disk, env), has)

\* run_if_exists: the root whose script is run; a name that does not parse is no task.
ScriptRoot(disk, env, raw) ==
    LET has(r)   == LayoutIn(disk, r, Parse(raw)) # None
        there(r) == r \in disk.dirs /\ has(r)
        own      == FirstRoot(TaskRoots(disk, env), has)
    IN  IF Parse(raw) = None THEN None
        ELSE IF own # None THEN own ELSE FirstRoot(PackageRoots(disk, env), there)

\* extract_task_names: the names in a root, without a look at what name.sh is.
NamesIn(disk, root) ==
    {n \in Plain : <<root, n, "directory">> \in disk.scripts}
        \cup {Parse(n) : n \in {m \in Plain \cup DOMAIN Trimmed :
                                  <<root, m, "file">> \in disk.scripts \/ <<root, m>> \in disk.odd}}

ListNames(disk, env) ==
    LET own == {TaskRoots(disk, env)[i] : i \in 1..Len(TaskRoots(disk, env))}
        packaged == {PackageRoots(disk, env)[i] : i \in 1..Len(PackageRoots(disk, env))}
    IN  UNION {NamesIn(disk, r) : r \in own \cup (packaged \cap disk.dirs)}

-----------------------------------------------------------------------------
\* The prompt: hooks, the package's system hook, the task's prompt, its skills

\* One text for all hooks that print something and succeed, or nothing.
HookSource(disk, env) ==
    LET roots == Locations(disk, env, "hooks")
    IN  Given(\E i \in 1..Len(roots) : \E h \in 1..Len(disk.hooks[roots[i]]) :
                  disk.hooks[roots[i]][h] = "text",
              <<"hooks", "text">>)

\* load_task_spec: name/task.toml before name.toml, even if it is broken.
SkillsOf(disk, root, name) ==
    LET place == IF <<root, name, "directory">> \in DOMAIN disk.specs
                 THEN "directory" ELSE "file"
    IN  IF <<root, name, place>> \notin DOMAIN disk.specs
           \/ disk.specs[<<root, name, place>>].broken
        THEN <<>> ELSE disk.specs[<<root, name, place>>].skills

\* A broken skill.toml counts as none; the first other one decides, text or not.
SkillSource(disk, env, skill) ==
    LET roots == Locations(disk, env, "skills")
                     \o [i \in 1..Len(Packages(disk, env)) |-> <<Packages(disk, env)[i], "skills">>]
        having == {i \in 1..Len(roots) :
                     /\ <<roots[i], skill>> \in DOMAIN disk.skills
                     /\ disk.skills[<<roots[i], skill>>] # "broken"}
        first == roots[CHOOSE i \in having : \A k \in having : i <= k]
    IN  Given(having # {} /\ disk.skills[<<first, skill>>] = "text", <<"skill", skill, first>>)

SkillSources(disk, env, skills) ==
    LET upto[i \in 0..Len(skills)] ==
            IF i = 0 THEN <<>> ELSE upto[i - 1] \o SkillSource(disk, env, skills[i])
    IN  upto[Len(skills)]

\* resolve_for_task.
PromptSources(disk, env, name) ==
    LET root == FindOrigin(disk, env, name)
        kind == LayoutIn(disk, root, name)
    IN  IF root = None THEN HookSource(disk, env)
        ELSE HookSource(disk, env)
             \o Given(root[1] \in disk.system, <<"package", root[1]>>)
             \o Given(<<root, name, kind>> \in disk.prompts, <<"task", name, root, kind>>)
             \o SkillSources(disk, env, SkillsOf(disk, root, name))

-----------------------------------------------------------------------------
\* Modes and profiles

\* What the command line says goes before what the mode says.
MergeMode(given, mode) ==
    [f \in DOMAIN given |->
        IF given[f] = None /\ f \in DOMAIN mode THEN mode[f] ELSE given[f]]

\* StdResolveModeConfig: a missing file is no error.
ModeOf(disk, env, name) ==
    LET key == <<ConfigBase(env), name>>
    IN  [status |-> IF name \notin Plain THEN "invalid"
                    ELSE IF key \notin DOMAIN disk.modes THEN "missing"
                    ELSE IF disk.modes[key].broken THEN "broken" ELSE "read",
         sets   |-> IF key \in DOMAIN disk.modes THEN disk.modes[key].sets ELSE <<>>]

\* resolve_provider: the built-in names count only where there is no file.
ProviderOf(disk, env, wanted) ==
    LET file == disk.profiles[ConfigBase(env)]
        name == IF wanted # None THEN wanted
                ELSE IF file.status = "read" /\ file.default # None THEN file.default
                ELSE "gemini"
    IN  CASE file.status = "broken" -> "broken"
          [] file.status = "missing" -> IF name \in Builtin THEN name ELSE "unknown"
          [] file.status = "read"    -> IF name \in file.names THEN name ELSE "unknown"

=============================================================================
