------------------------------ MODULE Startup ------------------------------
(***************************************************************************)
(* The processes on one database: instances that serve, and the operator's *)
(* commands run beside them, of one binary or of several.  Each opens the  *)
(* store and applies the migrations its binary embeds; an instance then    *)
(* checks its configuration, starts its sweepers and serves until it is    *)
(* told to stop, a command looks up what it is about and writes it.        *)
(*                                                                         *)
(* Nothing orders the starts: two processes may find the same migration    *)
(* missing, a signal or a crash may end one at any step, and what it ends  *)
(* with is started again.                                                  *)
(***************************************************************************)
EXTENDS Integers, FiniteSets

CONSTANTS
  Instance,     \* processes that run "serve"
  Shell,        \* processes that run the operator's commands
  Casts,        \* which of them take part: one cast is chosen at the start
  Binary,       \* builds, by the number of migrations each embeds
  Drops,        \* what a migration drops of what earlier ones made
  Sweeper,      \* the background sweeps, each on a ticker of its own
  Config,       \* the configurations an instance may be given
  MaxRequests,  \* bound on the requests in flight at one instance
  MaxFaults     \* bound on crashes, signals and failing statements

VARIABLES
  table,    \* schema_migrations exists
  schema,   \* migrations whose tables and columns are there
  applied,  \* versions recorded in schema_migrations
  tenant,   \* the tenant's row: none, or its Google toggle
  user,     \* the account: none, or an owner or admin with a password
  cast,     \* the processes that take part
  procs,    \* every process
  config,   \* the configuration of each instance
  faults    \* faults so far

tables == <<table, schema, applied>>
rows   == <<tenant, user>>
setup  == <<cast, config>>
vars   == <<tables, rows, procs, setup, faults>>

Process  == Instance \cup Shell
Versions == UNION {1 .. b : b \in Binary}
Commands == {"create-tenant", "create-owner", "grant-admin", "revoke-admin",
             "enable-oauth", "disable-oauth", "set-password"}
Password == {"first", "second"}

Settings  == [smtp : {"logged", "complete", "partial"}, secret : {"long", "short"},
              password : BOOLEAN, google : 0 .. 3,
              publicBase : {"unset", "absolute", "relative"},
              decayBase : {"unset", "absolute", "relative"},
              tier : {"full_guest", "email_confirmed", "registered", "other"},
              policy : {"disabled", "givers_only", "owners_allowed", "other"},
              captcha : {"none", "managed", "altcha", "other"}, captchaSecret : BOOLEAN,
              zone : {"unset", "known", "unknown"}, proxies : {"none", "listed", "malformed"},
              sweeps : BOOLEAN]
Tiers     == {"full_guest", "email_confirmed", "registered"}
Policies  == {"disabled", "givers_only", "owners_allowed"}

\* What a handler was built with, of what its requests ask.
Options   == [captcha : BOOLEAN, google : BOOLEAN, policy : Policies, tier : Tiers,
              links : {"absolute", "relative"}]

ASSUME BuildsAssumption ==
  /\ Binary # {} /\ Binary \subseteq Nat \ {0} /\ IsFiniteSet(Binary)
  /\ MaxRequests \in Nat /\ MaxFaults \in Nat /\ Instance \cap Shell = {}
  /\ Config \subseteq Settings /\ Casts \subseteq SUBSET (Instance \cup Shell)

ASSUME DropsAssumption ==
  Drops \in [Versions -> SUBSET Nat] /\ \A v \in Versions : Drops[v] \subseteq 1 .. (v - 1)

TenantRow == {"none", "off", "on"}
UserRow   == [role : {"none", "owner", "admin"}, password : Password]
PC        == {"down", "open", "ensure", "read", "migrate", "configure", "listen",
              "serve", "drain", "tenant", "user", "write"}
PState    == [pc : PC, job : Commands \cup {"serve"}, binary : Binary,
              known : SUBSET Versions, told : BOOLEAN, busy : 0 .. MaxRequests,
              passes : SUBSET Sweeper, opts : Options]

\* The zero value: everything off, as an empty Options leaves it.
AllOff == [captcha |-> FALSE, google |-> FALSE, policy |-> "disabled",
           tier |-> "full_guest", links |-> "relative"]
Down   == [pc |-> "down", job |-> "serve", binary |-> CHOOSE b \in Binary : TRUE,
           known |-> {}, told |-> FALSE, busy |-> 0, passes |-> {}, opts |-> AllOff]
NoUser == [role |-> "none", password |-> "first"]

Init ==
  /\ table = FALSE /\ schema = {} /\ applied = {}
  /\ tenant = "none" /\ user = NoUser
  /\ procs = [p \in Process |-> Down]
  /\ cast \in Casts
  /\ config \in [Instance \cap cast -> Config]
  /\ faults = 0

-----------------------------------------------------------------------------
(* Helpers *)

At(p, pc)   == procs[p].pc = pc
Go(p, next) == procs' = [procs EXCEPT ![p] = next]
To(p, pc)   == Go(p, [procs[p] EXCEPT !.pc = pc])

\* A process that ends takes its sweeps and its requests along.
Exit(p) == Go(p, Down)

\* NotifyContext: an instance that was told to stop has a cancelled context;
\* a command is not listening for signals and simply dies.
Cancelled(p) == procs[p].told

-----------------------------------------------------------------------------
(* Open and Migrate: what every process does first *)

Start(p, b) ==
  /\ At(p, "down") /\ p \in cast
  /\ Go(p, [Down EXCEPT !.pc = "open", !.binary = b])
  /\ UNCHANGED <<tables, rows, setup, faults>>

\* The ping that ends Open is made under the same context.
Open(p) ==
  /\ At(p, "open")
  /\ IF Cancelled(p) THEN Exit(p) ELSE To(p, "ensure")
  /\ UNCHANGED <<tables, rows, setup, faults>>

EnsureTable(p) ==
  /\ At(p, "ensure")
  /\ IF Cancelled(p) THEN Exit(p) /\ UNCHANGED table ELSE To(p, "read") /\ table' = TRUE
  /\ UNCHANGED <<schema, applied, rows, setup, faults>>

AppliedVersions(p) ==
  /\ At(p, "read") /\ table
  /\ IF Cancelled(p) THEN Exit(p)
     ELSE Go(p, [procs[p] EXCEPT !.pc = "migrate", !.known = applied])
  /\ UNCHANGED <<tables, rows, setup, faults>>

\* The embedded files in the order of their versions, those found skipped.
Missing(p)  == (1 .. procs[p].binary) \ procs[p].known
LastOf(S)   == CHOOSE v \in S : \A w \in S : w <= v     \* faulty: sorted the other way
FirstOf(S)  == CHOOSE v \in S : \A w \in S : v <= w
NextFile(p) == FirstOf(Missing(p))

\* One transaction runs the file and records its version.  Where somebody
\* else has applied it meanwhile, the file or the record conflicts.  No build
\* asks what a newer one has applied, and dropped, before it came.
Conflicts(v) == v \in schema \/ v \in applied
After(v)     == (schema \cup {v}) \ Drops[v]
ApplyMigration(p) ==
  LET v == NextFile(p) IN
  /\ At(p, "migrate") /\ Missing(p) # {}
  /\ IF Cancelled(p) \/ Conflicts(v)
       THEN Exit(p) /\ UNCHANGED <<schema, applied>>
       ELSE /\ schema' = After(v) /\ applied' = applied \cup {v}
            /\ Go(p, [procs[p] EXCEPT !.known = @ \cup {v}])
  /\ UNCHANGED <<table, rows, setup, faults>>

\* A transaction cut off between its statements and its commit.
HalfDone(v)   == After(v)                               \* faulty: no transaction
RolledBack(v) == schema
CutOff(p) ==
  /\ At(p, "migrate") /\ Missing(p) # {} /\ ~Conflicts(NextFile(p))
  /\ faults < MaxFaults /\ faults' = faults + 1
  /\ schema' = RolledBack(NextFile(p))
  /\ Exit(p)
  /\ UNCHANGED <<table, applied, rows, setup>>

\* Only here does it matter which command a shell was given.
Migrated(p) ==
  /\ At(p, "migrate") /\ Missing(p) = {}
  /\ IF p \in Instance THEN To(p, "configure")
     ELSE \E job \in Commands :
            Go(p, [procs[p] EXCEPT !.job = job,
                     !.pc = IF job = "create-tenant" THEN "write" ELSE "tenant"])
  /\ UNCHANGED <<tables, rows, setup, faults>>

-----------------------------------------------------------------------------
(* An instance refuses to serve with a configuration it cannot stand by *)

SenderBuilt(c)  == c.smtp \in {"logged", "complete"}
LongSecret(c)   == c.secret = "long"
AnyMethod(c)    == c.password
AuthBuilt(c)    == LongSecret(c) /\ AnyMethod(c)

\* How many of the three Google settings are there: none is off, all is on.
GoogleBuilt(c)  == c.google \in {0, 3}

\* The old name of the setting counts where the new one is not set.
LinkBase(c)     == IF c.publicBase = "unset" THEN c.decayBase ELSE c.publicBase
LinksAbsolute(c) == LinkBase(c) = "absolute"

TierKnown(c)    == c.tier \in Tiers
PolicyKnown(c)  == c.policy \in Policies
CaptchaBuilt(c) == c.captcha = "none" \/ (c.captcha \in {"managed", "altcha"} /\ c.captchaSecret)
ZoneKnown(c)    == c.zone # "unknown"
ProxiesParsed(c) == c.proxies # "malformed"

Sound(c) ==
  /\ SenderBuilt(c) /\ AuthBuilt(c) /\ GoogleBuilt(c) /\ LinksAbsolute(c)
  /\ TierKnown(c) /\ PolicyKnown(c) /\ CaptchaBuilt(c) /\ ZoneKnown(c) /\ ProxiesParsed(c)

\* What the handler is built with: a part that is not configured is off.
Offered(c) == [captcha |-> c.captcha # "none", google |-> c.google = 3,
               policy |-> c.policy, tier |-> c.tier, links |-> LinkBase(c)]

\* Discovery at the provider is the one check that needs the context.
Configure(p) ==
  /\ At(p, "configure")
  /\ IF Sound(config[p]) /\ ~(Cancelled(p) /\ config[p].google = 3)
       THEN Go(p, [procs[p] EXCEPT !.pc = "listen", !.opts = Offered(config[p])])
       ELSE Exit(p)
  /\ UNCHANGED <<tables, rows, setup, faults>>

-----------------------------------------------------------------------------
(* Sweepers and server *)

\* The tickers start before the listener does, and stop with the context.
Ticking(p) == procs[p].pc \in {"listen", "serve"} /\ ~Cancelled(p) /\ config[p].sweeps
Sweep(p, s) ==
  /\ Ticking(p) /\ s \notin procs[p].passes
  /\ Go(p, [procs[p] EXCEPT !.passes = @ \cup {s}])
  /\ UNCHANGED <<tables, rows, setup, faults>>

SweepEnds(p, s) ==
  /\ s \in procs[p].passes
  /\ Go(p, [procs[p] EXCEPT !.passes = @ \ {s}])
  /\ UNCHANGED <<tables, rows, setup, faults>>

Listen(p) ==
  /\ At(p, "listen") /\ To(p, "serve")
  /\ UNCHANGED <<tables, rows, setup, faults>>

\* What the probe of the container finds: somebody answers.
Healthy(p) == At(p, "serve")

Request(p) ==
  /\ Healthy(p) /\ procs[p].busy < MaxRequests
  /\ Go(p, [procs[p] EXCEPT !.busy = @ + 1])
  /\ UNCHANGED <<tables, rows, setup, faults>>

Answer(p) ==
  /\ procs[p].busy > 0
  /\ Go(p, [procs[p] EXCEPT !.busy = @ - 1])
  /\ UNCHANGED <<tables, rows, setup, faults>>

Shutdown(p) ==
  /\ Healthy(p) /\ Cancelled(p)
  /\ To(p, "drain")
  /\ UNCHANGED <<tables, rows, setup, faults>>

\* Shutdown returns when the last request has been answered, or when its time
\* is up; the sweeps are not waited for.  Then the store is closed.
Drained(p) ==
  /\ At(p, "drain") /\ procs[p].busy = 0
  /\ Exit(p)
  /\ UNCHANGED <<tables, rows, setup, faults>>

DrainTimeout(p) ==
  /\ At(p, "drain") /\ procs[p].busy > 0
  /\ Exit(p)
  /\ UNCHANGED <<tables, rows, setup, faults>>

-----------------------------------------------------------------------------
(* The operator's commands *)

Assumed == TRUE                                         \* faulty: not looked up
Found   == tenant # "none"
FindTenant(p) ==
  /\ At(p, "tenant")
  /\ IF ~Found THEN Exit(p)
     ELSE To(p, IF procs[p].job \in {"grant-admin", "revoke-admin", "set-password"}
                  THEN "user" ELSE "write")
  /\ UNCHANGED <<tables, rows, setup, faults>>

FindUser(p) ==
  /\ At(p, "user")
  /\ IF user = NoUser THEN Exit(p) ELSE To(p, "write")
  /\ UNCHANGED <<tables, rows, setup, faults>>

\* A subdomain is one tenant's.
OneTenant == IF tenant = "none" THEN "off" ELSE tenant
CreateTenant(p) ==
  /\ At(p, "write") /\ procs[p].job = "create-tenant"
  /\ tenant' = OneTenant
  /\ Exit(p) /\ UNCHANGED <<tables, user, setup, faults>>

\* A username is unique in its tenant.
Owner == [role |-> "owner", password |-> "first"]
CreateOwner(p) ==
  /\ At(p, "write") /\ procs[p].job = "create-owner"
  /\ user' = IF user = NoUser THEN Owner ELSE user
  /\ Exit(p) /\ UNCHANGED <<tables, tenant, setup, faults>>

SetAdmin(grant) == [user EXCEPT !.role = IF grant THEN "admin" ELSE "owner"]
GrantAdmin(p) ==
  /\ At(p, "write") /\ procs[p].job \in {"grant-admin", "revoke-admin"}
  /\ user' = SetAdmin(procs[p].job = "grant-admin")
  /\ Exit(p) /\ UNCHANGED <<tables, tenant, setup, faults>>

SetPassword(p) ==
  /\ At(p, "write") /\ procs[p].job = "set-password"
  /\ user' = [user EXCEPT !.password = "second"]
  /\ Exit(p) /\ UNCHANGED <<tables, tenant, setup, faults>>

Toggle(enabled) == IF enabled THEN "on" ELSE "off"
EnableTenantOAuth(p) ==
  /\ At(p, "write") /\ procs[p].job \in {"enable-oauth", "disable-oauth"}
  /\ tenant' = Toggle(procs[p].job = "enable-oauth")
  /\ Exit(p) /\ UNCHANGED <<tables, user, setup, faults>>

-----------------------------------------------------------------------------
(* What may happen at any time *)

\* SIGINT or SIGTERM: an upgrade, a restart.
Signal(p) ==
  /\ p \in Instance /\ ~At(p, "down") /\ ~Cancelled(p)
  /\ faults < MaxFaults /\ faults' = faults + 1
  /\ Go(p, [procs[p] EXCEPT !.told = TRUE])
  /\ UNCHANGED <<tables, rows, setup>>

\* A crash, a store that cannot be reached, a busy database, a taken port.
Crash(p) ==
  /\ ~At(p, "down")
  /\ faults < MaxFaults /\ faults' = faults + 1
  /\ Exit(p)
  /\ UNCHANGED <<tables, rows, setup>>

Steps(p) ==
  \/ Open(p) \/ EnsureTable(p) \/ AppliedVersions(p) \/ ApplyMigration(p) \/ Migrated(p)
  \/ p \in Instance /\ (Configure(p) \/ Listen(p) \/ Shutdown(p) \/ Drained(p) \/ DrainTimeout(p))
  \/ FindTenant(p) \/ FindUser(p)
  \/ CreateTenant(p) \/ CreateOwner(p) \/ GrantAdmin(p) \/ SetPassword(p) \/ EnableTenantOAuth(p)

Starts(p) == \E b \in Binary : Start(p, b)

Serving(p) == \/ Request(p) \/ Answer(p)
              \/ \E s \in Sweeper : Sweep(p, s) \/ SweepEnds(p, s)

Next ==
  \/ \E p \in Process : Starts(p) \/ Steps(p) \/ CutOff(p) \/ Signal(p) \/ Crash(p)
  \/ \E p \in Instance : Serving(p)

\* A process runs on, and whoever looks after an instance starts it again.
\* Nothing is assumed of the operator, of requests or of sweeps.
Fairness == \A p \in Process : WF_vars(Steps(p)) /\ (p \in Instance => WF_vars(Starts(p)))

Spec == Init /\ [][Next]_vars /\ Fairness

-----------------------------------------------------------------------------
(* Properties *)

\* Every variable keeps its type, and no account is without its tenant.
TypeOK ==
  /\ table \in BOOLEAN /\ schema \subseteq Versions /\ applied \subseteq Versions
  /\ tenant \in TenantRow /\ user \in UserRow
  /\ procs \in [Process -> PState] /\ cast \in Casts /\ config \in [Instance \cap cast -> Config]
  /\ faults \in 0 .. MaxFaults
  /\ user # NoUser => tenant # "none"

Acting(p) == procs[p].pc \in {"serve", "drain", "tenant", "user", "write"}
             \/ procs[p].passes # {} \/ procs[p].busy > 0
FailsClosed(p) ==
  LET c == config[p]  o == procs[p].opts IN
  /\ c.secret = "long" /\ c.password /\ o.links = "absolute"
  /\ c.captcha # "none" => o.captcha /\ c.captchaSecret
  /\ c.google > 0 => o.google
  /\ o.policy = c.policy /\ o.tier = c.tier

\* What the first n migrations leave, and what a build misses of it.
Whole(n)  == {v \in 1 .. n : \A w \in (v + 1) .. n : v \notin Drops[w]}
Misses(b) == Whole(b) \ schema

\* Migrate, NewService, captcha.New: whatever starts, crashes and conflicts
\* came before, the migrations on record are the first ones without a gap and
\* the schema is what these leave; whoever serves, sweeps or writes finds all
\* its own applied, and misses nothing but what a newer build has dropped; and
\* no instance serves with a captcha, a sign-in or a signing key that it was
\* given and silently left out.
ServesWhole ==
  /\ \E n \in Versions \cup {0} : applied = 1 .. n /\ schema = Whole(n)
  /\ \A p \in Process : Acting(p) =>
       LET own == 1 .. procs[p].binary IN
       /\ own \subseteq applied
       /\ Misses(procs[p].binary) \subseteq UNION {Drops[v] : v \in applied \ own}
       /\ p \in Instance => FailsClosed(p)

\* A soundly configured instance serves again after every crash, signal, lost
\* race for a migration and request that never ends: none of them leaves a
\* database behind on which it cannot start (though a newer build may have
\* dropped what its requests then ask for).
UpAgain == \A p \in Instance : p \in cast /\ Sound(config[p]) => []<>(Healthy(p) /\ ~Cancelled(p))
=============================================================================
