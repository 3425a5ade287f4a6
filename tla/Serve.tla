-------------------------------- MODULE Serve --------------------------------
(***************************************************************************)
(* The life of a process (internal/adapters/cli/run.go).  Every command    *)
(* but `help' reads its configuration; `serve' inspects the token file,    *)
(* logs in if it must, starts the background refresher and the HTTP        *)
(* server, and ends when it gets a signal.                                 *)
(*                                                                         *)
(* The token file and AccessToken are abstracted to what runServe and the  *)
(* refresher tell apart; AuthService has them in detail.  Other processes  *)
(* log in, log out, and time passes.                                       *)
(***************************************************************************)
EXTENDS Config, LoginCode

CONSTANTS
  Requests,     \* HTTP requests that may be in flight
  Invocations,  \* [command, env, flags, relogin, code]: how the process is started
  Lines,        \* what the operator may paste at the prompt
  Code,         \* the token that is the authorization code
  NoApp         \* no App built

Commands == {"serve", "login", "status", "logout", "validate", "help", "unknown"}

\* The environment holds what the parsers of runtime/config.go take or refuse;
\* flags exist for the settings of run.go:63-68 only; a line with the code has it
\* in one of the forms README.md:106 names.
ASSUME ServeAssumption ==
  /\ \A i \in Invocations :
       /\ i.command \in Commands
       /\ \A s \in Durations : i.env[s] \in {Blank, Malformed} \cup Int
       /\ i.env.MaxRequestBody \in {Blank, Malformed} \cup [n : Int, unit : 0..3]
       /\ DOMAIN i.flags \subseteq {"ListenAddr", "APIKey", "CostTracking"}
  /\ Code \notin {"?", "&", "#", "code="}
  /\ \A line \in Lines \cup {i.code : i \in Invocations} :
       Holds(line, Code) => line \in Seq(STRING) /\ CarriesCode(line, Code)

VARIABLES
  invoked,   \* how the process was started
  cfg,       \* its configuration
  app,       \* what NewAppWithLogger built
  main,      \* where the command stands
  exit,      \* exit code, or "none"
  file,      \* the token file
  pasted,    \* executeLoginFlow: the line with the code
  code,      \* what is exchanged for tokens
  signal,    \* whether SIGINT or SIGTERM has been received (ctx.Done)
  server,    \* http.Server: "new", "listening", "closed"
  shutdown,  \* the shutdown goroutine: "none", "waiting", "draining", "done"
  refresher, \* autoRefreshWithInterval: "none", "ticking", "refreshing", "done"
  inflight,  \* requests being served
  expired,   \* whether the 5s of shutdownCtx are over
  logins     \* history: whether this process completed a login or found a session

files   == {"absent", "unreadable", "fresh", "expired"}
process == <<invoked, cfg, app, main, exit, pasted, code, signal, server, shutdown, refresher,
             inflight, expired, logins>>
vars    == <<process, file>>

Main == {"configure", "status", "logout", "inspect", "session", "login", "prompt", "exchange",
         "start", "listen", "serving", "exited"}

Init ==
  /\ invoked \in Invocations
  /\ cfg = WithFlags(ConfigFromEnv(invoked.env), invoked.flags)
  /\ app = NoApp
  /\ main = "configure"
  /\ exit = "none"
  /\ file \in files
  /\ pasted = <<>>
  /\ code = <<>>
  /\ signal = FALSE
  /\ server = "new"
  /\ shutdown = "none"
  /\ refresher = "none"
  /\ inflight = {}
  /\ expired = FALSE
  /\ logins = FALSE

others     == <<invoked, cfg, signal, server, shutdown, refresher, inflight, expired>>
background == <<app, others>>
started    == <<invoked, cfg, app, pasted, code>>

\* serve logs in rather than start without a session; so does login, always.
AutoLogin == invoked.command = "login" \/ invoked.relogin \/ ~app.noAutoLogin

\* The exit code is not passed on.
ExitSilently(value) ==
  /\ main' = "exited"
  /\ UNCHANGED exit

\* The command returns and main calls os.Exit: every goroutine is gone.
Exit(value) ==
  /\ main' = "exited"
  /\ exit' = value

-----------------------------------------------------------------------------
(* The commands *)

\* help and a command that is not known need no configuration.
Usage ==
  /\ main = "configure"
  /\ \/ invoked.command = "help" /\ Exit("0")
     \/ invoked.command = "unknown" /\ Exit("2")
  /\ UNCHANGED <<file, pasted, code, logins, background>>

\* config validate.
Validate ==
  /\ main = "configure"
  /\ invoked.command = "validate"
  /\ Exit(IF Valid(cfg) THEN "0" ELSE "1")
  /\ UNCHANGED <<file, pasted, code, logins, background>>

NeedApp == {"serve", "login", "status", "logout"}

\* The factory: the configuration is refused ...
ConfigureFails ==
  /\ main = "configure"
  /\ invoked.command \in NeedApp
  /\ ~Builds(cfg)
  /\ Exit("1")
  /\ UNCHANGED <<file, pasted, code, logins, background>>

\* ... or the App is built.
Configure ==
  /\ main = "configure"
  /\ invoked.command \in NeedApp
  /\ Builds(cfg)
  /\ app' = NewApp(cfg)
  /\ main' = CASE invoked.command # "serve" -> invoked.command
               [] invoked.relogin           -> "login"
               [] OTHER                     -> "inspect"
  /\ UNCHANGED <<exit, file, pasted, code, logins, others>>

Status ==
  /\ main = "status"
  /\ Exit(IF file = "unreadable" THEN "1" ELSE "0")
  /\ UNCHANGED <<file, pasted, code, logins, background>>

\* A file that is not there counts as deleted.
Logout ==
  /\ main = "logout"
  /\ \/ Exit("0") /\ file' = "absent"
     \/ Exit("1") /\ UNCHANGED file
  /\ UNCHANGED <<pasted, code, logins, background>>

-----------------------------------------------------------------------------
(* Startup *)

\* A token file that exists is taken for a session.
InspectFileOnly ==
  /\ main = "inspect"
  /\ \/ file = "unreadable" /\ Exit("1")
     \/ file = "absent" /\ main' = "login" /\ UNCHANGED exit
     \/ file \in {"fresh", "expired"} /\ main' = "start" /\ UNCHANGED exit
  /\ UNCHANGED <<file, pasted, code, logins, background>>

\* Status: absent is no error, any other failure to load is one, even if the
\* process need not log in.
Inspect ==
  /\ main = "inspect"
  /\ \/ file = "unreadable" /\ Exit("1")
     \/ file = "absent" /\ main' = "login" /\ UNCHANGED exit
     \/ file \in {"fresh", "expired"} /\ main' = "session" /\ UNCHANGED exit
  /\ UNCHANGED <<file, pasted, code, logins, background>>

\* AccessToken: the saved token, a refreshed one, or an error of any kind (the
\* refresh fails, the file has gone since, the signal cancels the context).
SessionOK ==
  /\ main = "session"
  /\ \/ file = "fresh"
     \/ file = "expired" /\ ~signal
  /\ file' = "fresh"
  /\ logins' = TRUE
  /\ main' = "start"
  /\ UNCHANGED <<exit, pasted, code, background>>

SessionFails ==
  /\ main = "session"
  /\ file # "fresh"
  /\ main' = "login"
  /\ UNCHANGED <<exit, file, pasted, code, logins, background>>

\* NoAutoLogin looked at before --relogin.
SkipLoginDespiteRelogin ==
  /\ main = "login"
  /\ app.noAutoLogin
  /\ main' = "start"
  /\ UNCHANGED <<exit, file, pasted, code, logins, background>>

\* needsLogin with NoAutoLogin: serve all the same.
SkipLogin ==
  /\ main = "login"
  /\ ~AutoLogin
  /\ main' = "start"
  /\ UNCHANGED <<exit, file, pasted, code, logins, background>>

\* executeLoginFlow goes on to CompleteLogin with the code in the line.
Exchange(line) ==
  /\ pasted' = line
  /\ code' = NormalizeCode(line)
  /\ main' = "exchange"

\* The exchange is over.
Forget == pasted' = <<>> /\ code' = <<>>

\* executeLoginFlow, PrepareLogin: the URL is printed; --code skips the prompt, a
\* source of random bytes that fails ends the login.
Prepare ==
  /\ main = "login"
  /\ AutoLogin
  /\ \/ invoked.code # <<>> /\ Exchange(invoked.code) /\ UNCHANGED exit
     \/ invoked.code = <<>> /\ main' = "prompt" /\ UNCHANGED <<exit, pasted, code>>
     \/ Exit("1") /\ UNCHANGED <<pasted, code>>
  /\ UNCHANGED <<file, logins, background>>

\* readLineWithContext: the line, or the part of it that came before the end.
Paste ==
  /\ main = "prompt"
  /\ \E line \in Lines : Exchange(line)
  /\ UNCHANGED <<exit, file, logins, background>>

\* A prompt that only waits for the line.
PromptEndsDeaf ==
  /\ main = "prompt"
  /\ ~signal
  /\ Exit("1")
  /\ UNCHANGED <<file, pasted, code, logins, background>>

\* stdin cannot be read, or the signal, for which readLineWithContext waits too.
PromptEnds ==
  /\ main = "prompt"
  /\ Exit("1")
  /\ UNCHANGED <<file, pasted, code, logins, background>>

\* CompleteLogin: the exchange of the right code and the save succeed.
Login ==
  /\ main = "exchange"
  /\ ~signal
  /\ code = <<Code>>
  /\ file' = "fresh"
  /\ logins' = TRUE
  /\ Forget
  /\ IF invoked.command = "login" THEN Exit("0") ELSE main' = "start" /\ UNCHANGED exit
  /\ UNCHANGED background

\* The code is empty or wrong, or the exchange or the save fails.
LoginFails ==
  /\ main = "exchange"
  /\ Exit("1")
  /\ Forget
  /\ UNCHANGED <<file, logins, background>>

\* The two goroutines are started; the listener is not there yet.
StartGoroutines ==
  /\ main = "start"
  /\ main' = "listen"
  /\ refresher' = "ticking"
  /\ shutdown' = "waiting"
  /\ UNCHANGED <<started, exit, file, signal, server, inflight, expired, logins>>

\* ListenAndServe begins; a server that was shut down before returns at once.
Listen ==
  /\ main = "listen"
  /\ main' = "serving"
  /\ server' = IF server = "new" THEN "listening" ELSE server
  /\ UNCHANGED <<started, exit, file, signal, shutdown, refresher, inflight, expired, logins>>

ListenFails ==
  /\ main = "listen"
  /\ server = "new"
  /\ Exit("1")
  /\ UNCHANGED <<file, pasted, code, logins, background>>

-----------------------------------------------------------------------------
(* The end *)

Signal ==
  /\ main # "exited"
  /\ ~signal
  /\ signal' = TRUE
  /\ UNCHANGED <<started, main, exit, file, server, shutdown, refresher, inflight, expired, logins>>

\* Shutdown closes a listener that is there, and leaves no mark otherwise.
BeginShutdownIfListening ==
  /\ main # "exited"
  /\ shutdown = "waiting"
  /\ signal
  /\ shutdown' = "draining"
  /\ server' = IF server = "listening" THEN "closed" ELSE server
  /\ UNCHANGED <<started, main, exit, file, signal, refresher, inflight, expired, logins>>

\* The goroutine calls Shutdown, which closes the listeners ...
BeginShutdown ==
  /\ main # "exited"
  /\ shutdown = "waiting"
  /\ signal
  /\ shutdown' = "draining"
  /\ server' = "closed"
  /\ UNCHANGED <<started, main, exit, file, signal, refresher, inflight, expired, logins>>

\* Shutdown returns when no request is left, or after the 5s of its context.
EndShutdown ==
  /\ main # "exited"
  /\ shutdown = "draining"
  /\ inflight = {} \/ expired
  /\ shutdown' = "done"
  /\ UNCHANGED <<started, main, exit, file, signal, server, refresher, inflight, expired, logins>>

ShutdownTimeout ==
  /\ main # "exited"
  /\ shutdown = "draining"
  /\ ~expired
  /\ expired' = TRUE
  /\ UNCHANGED <<started, main, exit, file, signal, server, shutdown, refresher, inflight, logins>>

\* ListenAndServe returns ErrServerClosed as soon as the listeners are closed;
\* runServe does not wait for Shutdown to return.
Return ==
  /\ main = "serving"
  /\ server = "closed"
  /\ Exit("0")
  /\ UNCHANGED <<file, pasted, code, logins, background>>

-----------------------------------------------------------------------------
(* Serving *)

Accept(r) ==
  /\ main = "serving"
  /\ server = "listening"
  /\ r \notin inflight
  /\ inflight' = inflight \cup {r}
  /\ UNCHANGED <<started, main, exit, file, signal, server, shutdown, refresher, expired, logins>>

Finish(r) ==
  /\ main = "serving"
  /\ r \in inflight
  /\ inflight' = inflight \ {r}
  /\ UNCHANGED <<started, main, exit, file, signal, server, shutdown, refresher, expired, logins>>

\* A tick: AccessToken refreshes an expired token and otherwise does nothing.
Tick ==
  /\ main \in {"listen", "serving"}
  /\ refresher = "ticking"
  /\ file = "expired"
  /\ refresher' = "refreshing"
  /\ UNCHANGED <<started, main, exit, file, signal, server, shutdown, inflight, expired, logins>>

\* The refresh succeeds or fails; a later file of another process is overwritten.
TickEnds ==
  /\ main \in {"listen", "serving"}
  /\ refresher = "refreshing"
  /\ refresher' = "ticking"
  /\ \/ ~signal /\ file' = "fresh"
     \/ UNCHANGED file
  /\ UNCHANGED <<started, main, exit, signal, server, shutdown, inflight, expired, logins>>

RefresherStops ==
  /\ main \in {"listen", "serving"}
  /\ refresher = "ticking"
  /\ signal
  /\ refresher' = "done"
  /\ UNCHANGED <<started, main, exit, file, signal, server, shutdown, inflight, expired, logins>>

\* login and logout in other processes, and the clock.
FileChanges ==
  /\ \/ file' \in {"absent", "fresh"}
     \/ file = "fresh" /\ file' = "expired"
  /\ UNCHANGED process

-----------------------------------------------------------------------------
Command == Usage \/ Validate \/ ConfigureFails \/ Configure \/ Status \/ Logout
Startup == Inspect \/ SessionOK \/ SessionFails \/ SkipLogin \/ StartGoroutines
             \/ Listen \/ ListenFails
LoginFlow == Prepare \/ Login \/ LoginFails

Next ==
  \/ Command
  \/ Startup
  \/ LoginFlow
  \/ Paste
  \/ PromptEnds
  \/ Signal
  \/ BeginShutdown
  \/ EndShutdown
  \/ ShutdownTimeout
  \/ Return
  \/ \E r \in Requests : Accept(r) \/ Finish(r)
  \/ Tick
  \/ TickEnds
  \/ RefresherStops
  \/ FileChanges

Spec == Init /\ [][Next]_vars

\* Goroutines run, every call of startup and of a login is bounded by a timeout,
\* and the prompt ends once the signal is there.
FairSpec ==
  /\ Spec
  /\ WF_vars(Command)
  /\ WF_vars(Startup)
  /\ WF_vars(LoginFlow)
  /\ WF_vars(signal /\ PromptEnds)
  /\ WF_vars(BeginShutdown)
  /\ WF_vars(Return)

-----------------------------------------------------------------------------
(* Properties *)

\* Every variable stays within its type, and there is an exit code exactly when
\* the process has ended.
TypeOK ==
  /\ invoked \in Invocations /\ invoked.command \in Commands
  /\ DOMAIN cfg = Settings
  /\ app # NoApp => Builds(cfg) /\ app = NewApp(cfg)
  /\ main \in Main
  /\ exit \in {"none", "0", "1", "2"}
  /\ exit # "none" <=> main = "exited"
  /\ file \in files
  /\ pasted \in Lines \cup {<<>>, invoked.code}
  /\ main # "exchange" => pasted = <<>> /\ code = <<>>
  /\ signal \in BOOLEAN
  /\ server \in {"new", "listening", "closed"}
  /\ shutdown \in {"none", "waiting", "draining", "done"}
  /\ refresher \in {"none", "ticking", "refreshing", "done"}
  /\ inflight \subseteq Requests
  /\ expired \in BOOLEAN
  /\ logins \in BOOLEAN

\* Unless it is told not to log in, the process serves nothing before it has had
\* a session: a login it completed or a token AccessToken accepted, not just a
\* file that exists (run.go:85-106).
ServesAuthenticated ==
  server = "listening" /\ AutoLogin => logins

\* What `config validate' accepts, every other command starts with, and no accepted
\* value makes time.NewTicker panic, lets a token expire before it counts as
\* expired, or leaves no room for a body: not zero, not a negative duration, not a
\* size that wraps around (config.go:175-236, run.go:266-270, handler.go:54-57).
AcceptedSettingsWork ==
  /\ invoked.command = "validate" /\ exit = "0" =>
       Builds(cfg) /\ Limit(cfg) > 0 /\ Interval(cfg) > 0 /\ Skew(cfg) > 0
  /\ app # NoApp => app.limit > 0 /\ app.interval > 0 /\ app.skew > 0

\* Whatever form the operator copies the code in -- alone, with the state behind
\* it, as a parameter, as the whole address in either order -- the code alone is
\* exchanged (run.go:201-210, 244-264; README.md:106).
PastedCodeArrives ==
  Holds(pasted, Code) => code = <<Code>>

\* A signal ends the process, whenever it comes: during the calls of startup, at
\* the login prompt, between the start of the goroutines and the listener, or
\* while requests and a refresh are running (run.go:107-122).
SignalEnds == signal ~> main = "exited"

\* The process ends on a signal only when no request is being served or the 5s
\* for them are over.
GracefulShutdown == exit = "0" => inflight = {} \/ expired
=============================================================================
