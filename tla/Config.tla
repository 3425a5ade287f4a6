-------------------------------- MODULE Config --------------------------------
(***************************************************************************)
(* Configuration (internal/runtime/config.go, service_factory.go): what    *)
(* the environment and the flags of `serve' say, what Validate refuses,    *)
(* and what the services make of the rest.                                 *)
(*                                                                         *)
(* A text is Text or Blank; a duration is a number of seconds or           *)
(* Malformed; a byte size is [n, unit], unit 0 to 3 for bytes to GB, or    *)
(* Malformed; a switch is Truthy ("true", "1", "yes") or another text.     *)
(***************************************************************************)
EXTENDS Integers

CONSTANTS
  Blank, Text, Truthy, Malformed,
  Word,  \* the number of values of an int64: 2^64 in the code
  Kilo   \* 1024 in the code

ASSUME ConfigAssumption ==
  /\ Kilo \in Nat \ {0, 1}
  /\ Word \in Nat \ {0} /\ Word % 2 = 0

Required  == {"ListenAddr", "APIKey", "TokenFile", "AnthropicBase", "OAuthAuthURL",
              "OAuthTokenURL", "OAuthClientID", "OAuthScopes", "OAuthRedirect", "AnthropicBeta"}
Durations == {"RequestTimeout", "RefreshInterval", "RefreshSkew"}
Switches  == {"CostTracking", "NoAutoLogin"}

\* The settings that decide something: not the fingerprint, not OpenRouter's URL.
Settings == Required \cup Durations \cup Switches \cup {"SeedFile", "CORSOrigins", "MaxRequestBody"}

DefaultConfig ==
  [s \in Settings |->
    CASE s \in Required         -> Text
      [] s = "RequestTimeout"   -> 600
      [] s = "RefreshInterval"  -> 60
      [] s = "RefreshSkew"      -> 300
      [] s = "MaxRequestBody"   -> [n |-> 10, unit |-> 2]
      [] s \in Switches         -> FALSE
      [] OTHER                  -> Blank]

\* A blank variable leaves the default.
ConfigFromEnv(env) ==
  [s \in Settings |->
    CASE env[s] = Blank  -> DefaultConfig[s]
      [] s \in Switches  -> env[s] = Truthy
      [] OTHER           -> env[s]]

\* The flags that were given replace what the environment says, even by a blank.
WithFlags(cfg, flags) ==
  [s \in Settings |-> IF s \in DOMAIN flags THEN flags[s] ELSE cfg[s]]

-----------------------------------------------------------------------------
(* Validate *)

\* ParseByteSize: a size must be positive before its unit is looked at.
ParsesSize(size) == size # Malformed /\ size.n > 0

Multiplier(unit) ==
  CASE unit = 0 -> 1 [] unit = 1 -> Kilo [] unit = 2 -> Kilo * Kilo [] unit = 3 -> Kilo * Kilo * Kilo

\* int64: a product that is too large wraps around.
ByteSize(size) ==
  LET product == size.n * Multiplier(size.unit)
      half    == Word \div 2
  IN  ((product + half) % Word) - half

\* The durations are parsed by the factory only.
ValidTexts(cfg) ==
  /\ \A s \in Required : cfg[s] # Blank
  /\ ParsesSize(cfg.MaxRequestBody)

Valid(cfg) ==
  /\ \A s \in Required : cfg[s] # Blank
  /\ \A s \in Durations : cfg[s] # Malformed
  /\ ParsesSize(cfg.MaxRequestBody)

-----------------------------------------------------------------------------
(* NewAppWithLogger, and what its parts take for values they cannot use *)

\* NewAppWithLogger parses every duration and the size again.
Builds(cfg) ==
  /\ Valid(cfg)
  /\ \A s \in Durations : cfg[s] # Malformed
  /\ ParsesSize(cfg.MaxRequestBody)

\* As NewService, autoRefreshWithInterval: the default instead of 0 or less.
Skew(cfg)     == IF cfg.RefreshSkew <= 0 THEN 300 ELSE cfg.RefreshSkew
Interval(cfg) == IF cfg.RefreshInterval <= 0 THEN 60 ELSE cfg.RefreshInterval

\* withRequestTimeout: no timeout (0) instead of 0 or less.
Timeout(cfg)  == IF cfg.RequestTimeout <= 0 THEN 0 ELSE cfg.RequestTimeout

\* The handler takes the limit as it comes.
LimitAsParsed(cfg) == ByteSize(cfg.MaxRequestBody)

\* NewHandler: 10MB instead of 0 or less.
Limit(cfg) ==
  LET parsed == ByteSize(cfg.MaxRequestBody) IN
  IF parsed <= 0 THEN 10 * Kilo * Kilo ELSE parsed

NewApp(cfg) ==
  [noAutoLogin |-> cfg.NoAutoLogin, tracking |-> cfg.CostTracking,
   seeded |-> cfg.SeedFile # Blank, cors |-> cfg.CORSOrigins # Blank,
   skew |-> Skew(cfg), interval |-> Interval(cfg), timeout |-> Timeout(cfg), limit |-> Limit(cfg)]
=============================================================================
