------------------------------- MODULE Startup -------------------------------
(***************************************************************************)
(* The server process from its environment to serving (main::run): the      *)
(* .env file under the real variables, what each variable must be, the      *)
(* migrations of the database that several processes share, the services,   *)
(* the port.  Processes start, are killed and start again as another build. *)
(***************************************************************************)
EXTENDS Naturals, Sequences

CONSTANTS Process,   \* processes on one host
          Binary,    \* builds: the checksums of their embedded migrations, in order
          Varied     \* bound: the variables that differ from a sound environment

Providers == {"github", "google"}
Client(p) == IF p = "github" THEN "github_id" ELSE "google_id"
Secret(p) == IF p = "github" THEN "github_secret" ELSE "google_secret"

Ttls == {"access", "refresh", "verification", "reset"}
Urls == {"app_base", "callback_base"}
Variables == {"port", "log", "database", "jwt", "smtp"} \cup Ttls \cup Urls
             \cup {Client(p) : p \in Providers} \cup {Secret(p) : p \in Providers}

ASSUME StartupAssumption ==
  /\ Varied \subseteq Variables
  /\ Binary \subseteq Seq(STRING)

\* What a variable may hold besides nothing, blanks and bytes that are not text.
Texts(v) ==
  CASE v = "jwt" -> {"short", "long"}
    [] v \in Ttls \cup {"port", "log"} -> {"proper", "typo"}
    [] v \in Urls -> {"origin", "origin/", "host"}
    [] OTHER -> {"set"}

VARIABLES applied,   \* _sqlx_migrations: checksums in the order applied
          locked,    \* the processes that hold the migration lock
          proc       \* [Process -> where it is in run(), its build and configuration]

startupVars == <<applied, locked, proc>>
Down == [pc |-> "down"]

StartupInit == applied = <<>> /\ locked = {} /\ proc = [p \in Process |-> Down]

-----------------------------------------------------------------------------
(* Configuration. *)

\* dotenvy reads until the first line it cannot parse, and sets only what env::var cannot
\* read yet; run() drops its error.
Dotenv(real, file) ==
  LET Read(i) == \A j \in 1 .. i : file[j].v # "malformed"
      Setting(v) == {i \in DOMAIN file : Read(i) /\ file[i].v = v} IN
  [v \in Variables |->
     IF real[v] \notin {"absent", "garbled"} \/ Setting(v) = {} THEN real[v]
     ELSE file[CHOOSE i \in Setting(v) : \A j \in Setting(v) : i <= j].text]

NonEmpty(text) == IF text = "blank" THEN "absent" ELSE text
Required(text) == IF NonEmpty(text) = "absent" THEN "error" ELSE text
Parsed(text) == CASE NonEmpty(text) = "absent" -> "default" [] text = "typo" -> "error" [] OTHER -> text
AbsoluteOrigin(text) == IF text = "host" THEN "error" ELSE "origin"
BaseUrl(text) == IF NonEmpty(text) = "absent" THEN "default" ELSE AbsoluteOrigin(text)
OptionalBaseUrl(text) == IF NonEmpty(text) = "absent" THEN "absent" ELSE AbsoluteOrigin(text)

FromRaw(raw) ==
  [v \in Variables |->
     CASE v \in {"database", "jwt"} -> Required(raw[v])
       [] v \in Ttls \cup {"port", "log"} -> Parsed(raw[v])
       [] v = "app_base" -> BaseUrl(raw[v])
       [] v = "callback_base" -> OptionalBaseUrl(raw[v])
       [] OTHER -> NonEmpty(raw[v])]

\* Mutant: a client id alone makes a provider usable.
IsConfigured_by_id(config, p) == config[Client(p)] # "absent"
IsConfigured(config, p) == config[Client(p)] # "absent" /\ config[Secret(p)] # "absent"
Configured(config) == {p \in Providers : IsConfigured(config, p)}
CallbackBase(config) ==
  IF config["callback_base"] = "absent" THEN config["app_base"] ELSE config["callback_base"]

\* TokenIssuer::new refuses a secret below MIN_SECRET_BYTES.
SecretFits(config) == config["jwt"] = "long"

\* Third-party sign-in is set up when there is a provider to offer.
SignInAt(config) == IF Configured(config) = {} THEN "none" ELSE CallbackBase(config)

-----------------------------------------------------------------------------
(* run(): a step that fails ends the process, as Exit does. *)

Sound == [v \in Variables |-> CASE v = "database" -> "set" [] v = "jwt" -> "long" [] OTHER -> "absent"]
Reals ==
  {Sound} \cup UNION {{[Sound EXCEPT ![v] = t] : t \in {"absent", "blank", "garbled"} \cup Texts(v)} : v \in Varied}
EnvLines ==
  {[v |-> "malformed"]} \cup UNION {{[v |-> v, text |-> t] : t \in {"blank"} \cup Texts(v)} : v \in Varied}
Files == {<<>>} \cup {<<l>> : l \in EnvLines} \cup {<<l, m>> : l, m \in EnvLines}

\* What from_env yields: no variable is unreadable and none is refused.
FromEnv ==
  LET raws == {Dotenv(real, file) : real \in Reals, file \in Files} IN
  {config \in {FromRaw(raw) : raw \in {r \in raws : \A v \in Variables : r[v] # "garbled"}} :
     \A v \in Variables : config[v] # "error"}

Goes(p, from, to) == proc[p].pc = from /\ proc' = [proc EXCEPT ![p].pc = to]

\* Bound: one process at a time has a configuration of its own.
Load(p, build, config) ==
  /\ proc[p].pc = "down"
  /\ (\E q \in Process \ {p} : proc[q].pc # "down" /\ proc[q].config # FromRaw(Sound)) =>
       config = FromRaw(Sound)
  /\ config["smtp"] = "absent"
  /\ proc' = [proc EXCEPT ![p] = [pc |-> "configured", build |-> build, config |-> config,
                                  offered |-> {}, callback |-> "none"]]
  /\ UNCHANGED <<applied, locked>>

\* connect; then the migrator takes its lock.
Connect(p) ==
  /\ Goes(p, "configured", "migrating") /\ locked = {}
  /\ locked' = {p} /\ UNCHANGED applied

\* One migration, in its transaction: nothing unknown is applied, nothing applied differs.
Migrate(p) ==
  LET build == proc[p].build  n == Len(applied) IN
  /\ proc[p].pc = "migrating"
  /\ n <= Len(build) /\ applied = SubSeq(build, 1, n)
  /\ IF n < Len(build)
     THEN applied' = Append(applied, build[n + 1]) /\ UNCHANGED <<locked, proc>>
     ELSE Goes(p, "migrating", "migrated") /\ locked' = locked \ {p} /\ UNCHANGED applied

\* AuthServiceBuilder::build, then the other services.
Build(p) ==
  LET config == proc[p].config IN
  /\ proc[p].pc = "migrated" /\ SecretFits(config)
  /\ proc' = [proc EXCEPT ![p] = [pc |-> "built", build |-> proc[p].build, config |-> config,
                                  offered |-> Configured(config), callback |-> SignInAt(config)]]
  /\ UNCHANGED <<applied, locked>>

Port(p) == proc[p].config["port"]
Serving == {p \in Process : proc[p].pc = "serving"}

Serve(p) ==
  /\ Goes(p, "built", "serving")
  /\ \A q \in Serving : Port(q) # Port(p)
  /\ UNCHANGED <<applied, locked>>

\* A failed step, a crash, or the end of graceful shutdown.
Exit(p) ==
  /\ proc[p] # Down
  /\ proc' = [proc EXCEPT ![p] = Down] /\ locked' = locked \ {p} /\ UNCHANGED applied

StartupNext ==
  \E p \in Process :
    \/ \E build \in Binary, config \in FromEnv : Load(p, build, config)
    \/ Connect(p) \/ Migrate(p) \/ Build(p) \/ Serve(p) \/ Exit(p)

StartupTypeOK ==
  /\ \A p \in locked : proc[p].pc = "migrating"
  /\ \A p \in Process : proc[p].pc = "migrating" => locked = {p}

-----------------------------------------------------------------------------
\* Whatever processes were started, killed and replaced by another build, and whatever
\* their environments said: one that serves has the whole of its schema, unedited and in
\* order, a long secret and no mail provider; it offers a provider only with both halves
\* of its credentials, and sends the browser back to an origin without a trailing slash.
ServesOnlyWhenSound ==
  \A p \in Serving :
    LET config == proc[p].config  build == proc[p].build IN
    /\ Len(build) <= Len(applied) /\ SubSeq(applied, 1, Len(build)) = build
    /\ config["jwt"] = "long" /\ config["smtp"] = "absent"
    /\ \A r \in Providers :
         r \in proc[p].offered <=> {config[Client(r)], config[Secret(r)]} = {"set"}
    /\ proc[p].offered # {} => proc[p].callback \in {"default", "origin"}
    /\ \A v \in Ttls : config[v] \in {"default", "proper"}
    /\ \A q \in Serving : Port(q) = Port(p) => q = p
=============================================================================
