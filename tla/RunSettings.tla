------------------------------ MODULE RunSettings ------------------------------
(***************************************************************************)
(* How a process comes to its settings: flags, configuration file,         *)
(* environment and defaults are combined and checked (loadRuntime,         *)
(* config.Load), combined again with the options of a capture              *)
(* (RunOptions.normalize, RunCapture), and turned into the database and    *)
(* the speech backends the process uses (home.Resolve, openStore,          *)
(* NewRegistry).                                                           *)
(*                                                                         *)
(* Of the settings those are kept that the rest of the program uses: the   *)
(* home directory, the path of the database, the backend, the speech mode  *)
(* and the time of the lease.  All others stand behind one flag: they are  *)
(* sound, or one of them is not.  Strings are named by what trimming and   *)
(* lower-casing tell apart.  Several processes run on one home: captures,  *)
(* and the commands that list and retry jobs.                              *)
(***************************************************************************)
EXTENDS Integers, Sequences

CONSTANTS
    Procs,      \* processes started in the same environment
    Commands,   \* what each may be started for: "run", "jobs"
    Homes,      \* values for the home directory
    Backends,   \* values for the backend
    Modes,      \* values for the mode
    Leases,     \* values for tts.lease_ttl: seconds as written, or Bad
    Nanos,      \* nanoseconds of a second
    Word,       \* values of a duration: 2^64 in the code
    Dirs        \* working directories

ASSUME SettingsAssumption ==
    /\ Commands \in [Procs -> SUBSET {"run", "jobs"}]
    /\ Nanos \in Nat \ {0} /\ Word \in Nat \ {0}

VARIABLES
    command,    \* per process: what it was started for
    flags,      \* per process: home, backend and mode, "" if not given
    file,       \* the configuration file: its fields and whether it is sound
    environ,    \* the environment: its fields
    cwd,        \* per process: working directory
    pc,         \* per process: "start", "loaded", "ready" or "failed"
    cfg,        \* per process: the configuration
    opts,       \* per process: the options of the capture
    db          \* per process: the database it has opened

inputs == <<command, flags, file, environ, cwd>>
vars   == <<command, flags, file, environ, cwd, pc, cfg, opts, db>>

-----------------------------------------------------------------------------
Unset   == "unset"  \* a field or a variable that is not there
Bad     == -1       \* a duration that does not parse, "" among them
NoLease == -2       \* a duration that is not given

(* strings.TrimSpace and strings.ToLower.                                  *)
Fold(v) == CASE v = " " -> "" [] v = " Google" -> "google" [] OTHER -> v
Trim(v) == IF v = " " THEN "" ELSE v

(* filepath.Abs: a relative path is found below the working directory.     *)
Abs(path, dir) == IF path = "rel" THEN <<dir, path>> ELSE <<path>>

(* A field of a source that may leave it out.                              *)
Or(v, fallback) == IF v = Unset THEN fallback ELSE v

(* A signed word.                                                          *)
Wrap(n) == ((n + Word \div 2) % Word) - Word \div 2

(* parseDuration: a number counts seconds, without a look at the range.    *)
ParseDuration(v) == Wrap(v * Nanos)

-----------------------------------------------------------------------------
(* config.Load                                                             *)

DefaultHome == "exe/nexis-echo-home"

Default == [home |-> DefaultHome, dbPath |-> "exe/data/echo.db",
            backend |-> "windows", mode |-> "normal", lease |-> Nanos]

(* loadRuntime: --home becomes the NEXIS_ECHO_HOME of this process.        *)
EnvHome(p) == IF flags[p].home # "" THEN flags[p].home ELSE environ.home

(* json.Unmarshal over the defaults: what the file leaves out stays.       *)
LoadFile(c) ==
    [c EXCEPT !.home = Or(file.home, @), !.dbPath = Or(file.dbPath, @),
              !.backend = Or(file.backend, @), !.mode = Or(file.mode, @)]

(* A variable that is set counts, also if it is empty.                     *)
ApplyEnvString(value, target) == Or(value, target)

ApplyEnv(c, p) ==
    [c EXCEPT !.home = ApplyEnvString(EnvHome(p), @),
              !.lease = IF environ.lease = NoLease THEN @
                        ELSE ParseDuration(environ.lease)]

(* normalize: strings are trimmed, words lower-cased, an empty home is the *)
(* default one, and paths are made absolute.                               *)
Normalize(c, p) ==
    [c EXCEPT !.home = Abs(IF Trim(@) = "" THEN DefaultHome ELSE Trim(@), cwd[p]),
              !.backend = Fold(@),
              !.mode = Fold(@)]

(* The checks of validate; all must hold.                                  *)
Validate(c) ==
    /\ c.backend \in {"windows", "google"}
    /\ c.mode \in {"concise", "normal", "heavy"}
    /\ c.lease > 0
    /\ file.sound

Load(p) == Normalize(ApplyEnv(LoadFile(Default), p), p)

-----------------------------------------------------------------------------
(* The options of a capture.                                               *)

OptionLease == 1    \* 15s, where the configuration has ten minutes

(* Mutant: a backend that is not known is replaced by the default.         *)
OptionsNormalize_Lenient(f) ==
    LET b == Fold(f.backend)
        m == Fold(f.mode)
    IN  [ok      |-> m \in {"", "normal", "concise", "heavy"},
         backend |-> IF b = "google" THEN b ELSE "windows",
         mode    |-> IF m = "" THEN "normal" ELSE m,
         lease   |-> OptionLease]

(* RunOptions.normalize: what was not given gets its default here.         *)
OptionsNormalize(f) ==
    LET b == Fold(f.backend)
        m == Fold(f.mode)
    IN  [ok      |-> /\ b \in {"", "windows", "google"}
                     /\ m \in {"", "normal", "concise", "heavy"},
         backend |-> IF b = "" THEN "windows" ELSE b,
         mode    |-> IF m = "" THEN "normal" ELSE m,
         lease   |-> OptionLease]

(* The fallbacks of RunCapture to the configuration.                       *)
Fallbacks(o, c) ==
    [o EXCEPT !.backend = IF @ = "" THEN c.backend ELSE @,
              !.mode    = IF @ = "" THEN c.mode ELSE @,
              !.lease   = IF @ <= 0 THEN c.lease ELSE @]

(* home.Resolve: the configured home, else the variable, else a default.   *)
(* app.db_path is not asked.                                               *)
Resolve(p) ==
    LET root == IF cfg[p].home # <<>> THEN cfg[p].home
                ELSE IF Trim(EnvHome(p)) \notin {"", Unset}
                     THEN Abs(Trim(EnvHome(p)), cwd[p]) ELSE <<"exe/data">>
    IN  Append(root, "echo.db")

(* NewRegistry: both backends, the Google one also without a key.          *)
Registry(p) == {"windows", "google"}

-----------------------------------------------------------------------------
Init ==
    /\ command \in {k \in [Procs -> {"run", "jobs"}] :
                      \A p \in Procs : k[p] \in Commands[p]}
    /\ flags \in [Procs -> [home : Homes \ {Unset}, backend : Backends \ {Unset},
                            mode : Modes \ {Unset}]]
    /\ \A p, q \in Procs : flags[p].home = flags[q].home
    /\ \A p \in Procs : command[p] = "jobs" =>
                          flags[p].backend = "" /\ flags[p].mode = ""
    /\ file \in [home : Homes, dbPath : {"own.db"}, backend : Backends,
                 mode : Modes, sound : BOOLEAN]
    /\ environ \in [home : Homes, lease : {NoLease} \cup Leases]
    /\ cwd \in [Procs -> Dirs]
    /\ pc = [p \in Procs |-> "start"]
    /\ cfg = [p \in Procs |-> Default]
    /\ opts = [p \in Procs |-> OptionsNormalize(flags[p])]
    /\ db = [p \in Procs |-> <<>>]

Goto(p, step) == pc' = [pc EXCEPT ![p] = step]

(* loadRuntime; a value that does not parse and a configuration that is    *)
(* not valid end the process.                                              *)
LoadRuntime(p) ==
    /\ pc[p] = "start"
    /\ IF environ.lease # Bad /\ Validate(Load(p))
       THEN cfg' = [cfg EXCEPT ![p] = Load(p)] /\ Goto(p, "loaded")
       ELSE Goto(p, "failed") /\ UNCHANGED cfg
    /\ UNCHANGED <<inputs, opts, db>>

(* RunCapture up to the opening of the database.  The repository, the      *)
(* provider's command or the database may be missing.                      *)
RunCapture(p) ==
    /\ pc[p] = "loaded" /\ command[p] = "run"
    /\ \/ /\ OptionsNormalize(flags[p]).ok
          /\ opts' = [opts EXCEPT ![p] = Fallbacks(OptionsNormalize(flags[p]), cfg[p])]
          /\ db' = [db EXCEPT ![p] = Resolve(p)]
          /\ Goto(p, "ready")
       \/ /\ Goto(p, "failed")
          /\ UNCHANGED <<opts, db>>
    /\ UNCHANGED <<inputs, cfg>>

(* Mutant: the commands open the configured path.                          *)
OpenStore_DBPath(p) ==
    /\ pc[p] = "loaded" /\ command[p] = "jobs"
    /\ db' = [db EXCEPT ![p] = <<cfg[p].dbPath>>]
    /\ Goto(p, "ready")
    /\ UNCHANGED <<inputs, cfg, opts>>

(* openStore of the commands that list and retry jobs.                     *)
OpenStore(p) ==
    /\ pc[p] = "loaded" /\ command[p] = "jobs"
    /\ db' = [db EXCEPT ![p] = Resolve(p)]
    /\ Goto(p, "ready")
    /\ UNCHANGED <<inputs, cfg, opts>>

Next == \E p \in Procs : LoadRuntime(p) \/ RunCapture(p) \/ OpenStore(p)

Spec == Init /\ [][Next]_vars

-----------------------------------------------------------------------------
Ready == {p \in Procs : pc[p] = "ready"}

(* What was said first of the home: flag, environment, file.               *)
FirstHome(p) == Trim(Or(EnvHome(p), Or(file.home, "")))

(* Whoever was told the same home works on the same database, captures as  *)
(* well as listings and retries, whatever else is configured: that of the  *)
(* flag, else of the environment, else of the file.  A blank one on the    *)
(* way hides those after it and means the default; a relative one depends  *)
(* on where the process was started (loadRuntime, applyEnv, normalize,     *)
(* home.Resolve, openStore).                                               *)
OneHome ==
    \A p \in Ready :
        /\ db[p] = Append(Abs(IF FirstHome(p) = "" THEN DefaultHome ELSE FirstHome(p),
                              cwd[p]), "echo.db")
        /\ \A q \in Ready : db[p] = db[q] \/ (FirstHome(p) = "rel" /\ cwd[p] # cwd[q])

(* The captures on a home agree: what one queues the worker of any other   *)
(* can speak, all hold the lease for the same time, and the same flags     *)
(* make the same settings.  A flag is obeyed or refused, never replaced    *)
(* (RunOptions.normalize, NewRegistry).  The configuration has no part in  *)
(* it: the options have their defaults before it is asked.                 *)
CapturesAgree ==
    \A p, q \in Ready : command[p] = "run" /\ command[q] = "run" =>
        /\ Fold(flags[p].backend) \in {"", opts[p].backend}
        /\ Fold(flags[p].mode) \in {"", opts[p].mode}
        /\ opts[p].backend \in Registry(q)
        /\ opts[p].lease = opts[q].lease
        /\ Fold(flags[p].backend) = Fold(flags[q].backend) =>
             opts[p].backend = opts[q].backend
=============================================================================
