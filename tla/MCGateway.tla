------------------------------ MODULE MCGateway ------------------------------
(* Gateway, and with it Pricing, with small constants for TLC. *)
EXTENDS Gateway

CONSTANTS r1, r2, r3

Name(vendor, family, numbers, sep) ==
  [vendor |-> vendor, model |-> family, numbers |-> numbers,
   seps |-> [i \in 1..(Len(numbers) - 1) |-> sep]]

\* claude-opus-4-6, claude-sonnet-4-20250514, anthropic/claude-haiku-3-5.
SentModel ==
  [r \in Lookups |-> CASE r = r1 -> Name(0, "opus", <<4, 6>>, "-")
                       [] r = r2 -> Name(0, "sonnet", <<4, 20250514>>, "-")
                       [] OTHER -> Name(1, "haiku", <<3, 5>>, "-")]
OpenRouter ==
  {[id |-> Name(1, "opus", <<4, 6>>, "."), parses |-> TRUE, free |-> FALSE],
   [id |-> Name(1, "haiku", <<3, 5>>, "."), parses |-> TRUE, free |-> FALSE],
   [id |-> Name(1, "opus", <<4>>, "."), parses |-> TRUE, free |-> FALSE],
   [id |-> Name(1, "sonnet", <<4, 20250514>>, "."), parses |-> FALSE, free |-> FALSE],
   [id |-> Name(1, "sonnet", <<4, 20250514>>, "-"), parses |-> TRUE, free |-> TRUE]}

Ask(path, body) ==
  [path |-> path, options |-> FALSE, origin |-> "none",
   xApiKey |-> "none", bearer |-> "right", body |-> body]

\* r1 asks with all keys for a completion, with some for the rest, from any origin
\* for one endpoint; the others are chats that need a price at the same time.
SomeKeys == {<<"none", "right">>, <<"wrong", "right">>, <<"none", "none">>}
Asks(i) ==
  LET plain == ~i.options /\ i.origin = "none" IN
  CASE i.path = "chat" /\ i.body = "chat" -> plain
    [] i.path = "chat" -> plain /\ <<i.xApiKey, i.bearer>> \in SomeKeys
    [] i.body # "chat" -> FALSE
    [] i.path = "v1" -> <<i.xApiKey, i.bearer>> \in SomeKeys
    [] OTHER -> plain /\ i.xApiKey = "none" /\ i.bearer = "none"
SomeInputs ==
  {[r \in Lookups |-> CASE r = r1 -> i
                       [] r = r2 -> Ask("chat", "chat")
                       [] OTHER -> Ask("chat", "stream")] : i \in {j \in Input : Asks(j)}}
=============================================================================
