------------------------------- MODULE MCServe -------------------------------
(* Serve with small constants for TLC. *)
EXTENDS Serve

CONSTANT State  \* the token that is the state of the login

\* Only one setting deviates from an empty environment.
Env(setting, value) == [s \in Settings |-> IF s = setting THEN value ELSE Blank]

Values(s) ==
  CASE s \in Durations        -> {Malformed, -60, 0, 60}
    [] s \in Switches         -> {Truthy, Text}
    [] s = "MaxRequestBody"   -> {Malformed} \cup [n : {-1, 0, 1, 32, 64, 65}, unit : 0..3]
    [] OTHER                  -> {Text}

Environments == UNION {{Env(s, v) : v \in Values(s) \cup {Blank}} : s \in Settings}

None == [s \in {} |-> Blank]
Flags == {None} \cup {[s \in {"ListenAddr"} |-> v] : v \in {Blank, Text}}
               \cup {[s \in {"APIKey"} |-> v] : v \in {Blank, Text}}
               \cup {[s \in {"CostTracking"} |-> b] : b \in BOOLEAN}

Start(command, env, flags, relogin, line) ==
  [command |-> command, env |-> env, flags |-> flags, relogin |-> relogin, code |-> line]

Plain == Env("APIKey", Blank)
Pod   == Env("NoAutoLogin", Truthy)

\* Every environment is validated and tried; every flag is tried with serve.
SomeInvocations ==
  {Start(c, e, None, FALSE, <<>>) : c \in {"validate", "status"}, e \in Environments}
    \cup {Start(c, Plain, None, FALSE, <<>>) : c \in {"logout", "help", "unknown", "login"}}
    \cup {Start("login", Plain, None, FALSE, <<Code, "#", State>>)}
    \cup {Start("serve", Plain, f, FALSE, <<>>) : f \in Flags}
    \cup {Start("serve", e, None, r, <<>>) : e \in {Plain, Pod}, r \in BOOLEAN}

\* The code alone, with the state, or in any part of the redirect's address.
Params == {<<"code=", Code>>, <<"code=", Code, "&", "state=", State>>,
           <<"state=", State, "&", "code=", Code>>}
SomeLines ==
  {<<Code>>, <<Code, "#", State>>, <<Code, "&", "state=", State>>}
    \cup {before \o params \o behind :
            before \in {<<>>, <<"?">>, <<"address", "?">>, <<"address", "#">>},
            params \in Params, behind \in {<<>>, <<"#", State>>}}
    \cup {<<>>, <<State>>, <<"address", "?", "error=", "text", "&", "state=", State>>}
=============================================================================
