------------------------------- MODULE Pricing -------------------------------
(***************************************************************************)
(* cost.OpenRouterSource (internal/cost/openrouter.go): the price list is  *)
(* fetched by the first Lookup, under fetchMu, while the others wait; what *)
(* the fetch brought -- a list or nothing -- is kept for the life of the   *)
(* process.  Lookups are made by the handlers' goroutines.                 *)
(*                                                                         *)
(* A model's name is [vendor, model, numbers, seps]: how many times        *)
(* "anthropic/" stands before it, the name without its version, the        *)
(* numbers of the version and what separates them, as in claude-opus-4-6.  *)
(***************************************************************************)
EXTENDS Naturals, Sequences

CONSTANTS
  Lookups,   \* goroutines that call Lookup
  NoLookup,  \* holder of a free fetchMu
  Max,       \* bound: HTTP requests to OpenRouter that are counted
  Model,     \* the name of the model that each of them looks up
  Catalogue  \* OpenRouter's list: [id, parses, free], the latter two of its prices

ASSUME ConstantsAssumption ==
  /\ NoLookup \notin Lookups
  /\ Max \in Nat \ {0}

\* A version's numbers have a separator between any two of them.  Prices are looked
\* up for models that Anthropic has answered for: "anthropic/" at most once.
ModelName ==
  {name \in [vendor : Nat, model : STRING, numbers : Seq(Nat), seps : Seq({"-", "."})] :
     Len(name.seps) = IF name.numbers = <<>> THEN 0 ELSE Len(name.numbers) - 1}

ASSUME NamesAssumption ==
  /\ Model \in [Lookups -> {name \in ModelName : name.vendor <= 1}]
  /\ \A m \in Catalogue : m.id \in ModelName

VARIABLES
  pc,       \* where each goroutine stands in Lookup
  fetchMu,  \* holder of fetchMu
  fetched,  \* s.fetched
  prices,   \* s.prices: the names that have a price
  answer,   \* the name whose price the lookup returned, {} if it found none
  sent      \* history: HTTP requests made

priceVars == <<pc, fetchMu, fetched, prices, answer, sent>>

\* fetchPrices: an entry counts if both prices are numbers and not both are 0.
Priced == {m.id : m \in {c \in Catalogue : c.parses /\ ~c.free}}

\* normalizeModelVersion: a hyphen between two digits becomes a dot.  Matches do
\* not overlap, so a digit that ended one match does not begin the next.
Normalized(name) ==
  LET n == Len(name.seps)
      dotted[i \in 0..n] ==
        /\ i > 0
        /\ name.seps[i] = "-"
        /\ ~(dotted[i - 1] /\ name.numbers[i] < 10)
  IN  [name EXCEPT !.seps = [i \in 1..n |-> IF dotted[i] THEN "." ELSE name.seps[i]]]

Prefixed(name) == [name EXCEPT !.vendor = @ + 1]

\* The names that Lookup tries, in this order.
Tried(name) == <<name, Prefixed(name), Normalized(name), Prefixed(Normalized(name))>>

\* Only the name itself and OpenRouter's prefix.
FindUnnormalized(name) ==
  LET hits == {i \in 1..2 : Tried(name)[i] \in prices} IN
  {Tried(name)[i] : i \in {j \in hits : \A k \in hits : j <= k}}

\* The first of them that has a price.
Find(name) ==
  LET hits == {i \in 1..4 : Tried(name)[i] \in prices} IN
  {Tried(name)[i] : i \in {j \in hits : \A k \in hits : j <= k}}

PC == {"idle", "begun", "locked", "fetching", "unlocked"}

Init ==
  /\ pc = [l \in Lookups |-> "idle"]
  /\ fetchMu = NoLookup
  /\ fetched = FALSE
  /\ prices = {}
  /\ answer = [l \in Lookups |-> {}]
  /\ sent = 0

Begin(l) ==
  /\ pc[l] = "idle"
  /\ pc' = [pc EXCEPT ![l] = "begun"]
  /\ answer' = [answer EXCEPT ![l] = {}]
  /\ UNCHANGED <<fetchMu, fetched, prices, sent>>

\* The flag is read before the lock is taken.
LockUnlessFetched(l) ==
  /\ pc[l] = "begun"
  /\ pc' = [pc EXCEPT ![l] = IF fetched THEN "unlocked" ELSE "fetching"]
  /\ sent' = IF fetched \/ sent = Max THEN sent ELSE sent + 1
  /\ UNCHANGED <<fetchMu, fetched, prices, answer>>

Lock(l) ==
  /\ pc[l] = "begun"
  /\ fetchMu = NoLookup
  /\ fetchMu' = l
  /\ pc' = [pc EXCEPT ![l] = "locked"]
  /\ UNCHANGED <<fetched, prices, answer, sent>>

\* Fetched already: unlock and read.
SkipFetch(l) ==
  /\ pc[l] = "locked"
  /\ fetched
  /\ fetchMu' = NoLookup
  /\ pc' = [pc EXCEPT ![l] = "unlocked"]
  /\ UNCHANGED <<fetched, prices, answer, sent>>

\* fetchPrices, with the mutex held and a timeout of 15s.
StartFetch(l) ==
  /\ pc[l] = "locked"
  /\ ~fetched
  /\ sent < Max
  /\ sent' = sent + 1
  /\ pc' = [pc EXCEPT ![l] = "fetching"]
  /\ UNCHANGED <<fetchMu, fetched, prices, answer>>

FetchSucceeds(l) ==
  /\ pc[l] = "fetching"
  /\ fetched' = TRUE
  /\ prices' = Priced
  /\ fetchMu' = NoLookup
  /\ pc' = [pc EXCEPT ![l] = "unlocked"]
  /\ UNCHANGED <<answer, sent>>

\* A failed fetch leaves the mutex locked.
FetchFailsLocked(l) ==
  /\ pc[l] = "fetching"
  /\ fetched' = TRUE
  /\ pc' = [pc EXCEPT ![l] = "unlocked"]
  /\ UNCHANGED <<fetchMu, prices, answer, sent>>

\* The 15s timeout, an error status, an unreadable answer: fetched all the same.
FetchFails(l) ==
  /\ pc[l] = "fetching"
  /\ fetched' = TRUE
  /\ fetchMu' = NoLookup
  /\ pc' = [pc EXCEPT ![l] = "unlocked"]
  /\ UNCHANGED <<prices, answer, sent>>

\* The list is read under s.mu.
Read(l) ==
  /\ pc[l] = "unlocked"
  /\ pc' = [pc EXCEPT ![l] = "idle"]
  /\ answer' = [answer EXCEPT ![l] = Find(Model[l])]
  /\ UNCHANGED <<fetchMu, fetched, prices, sent>>

Step(l) ==
  Lock(l) \/ SkipFetch(l) \/ StartFetch(l) \/ FetchSucceeds(l) \/ FetchFails(l) \/ Read(l)

Next == \E l \in Lookups : Begin(l) \/ Step(l)

Spec == Init /\ [][Next]_priceVars

-----------------------------------------------------------------------------
(* Properties *)

\* Every variable stays within its type, and fetchMu is held exactly from the
\* lock to the unlock.
TypeOK ==
  /\ pc \in [Lookups -> PC]
  /\ fetched \in BOOLEAN
  /\ prices \in {{}, Priced}
  /\ answer \in [Lookups -> {{}} \cup {{name} : name \in Priced}]
  /\ sent \in 0..Max
  /\ \A l \in Lookups : pc[l] \in {"locked", "fetching"} <=> fetchMu = l

\* OpenRouter is asked once in the life of the process, however many responses
\* need a price at the same moment and whether or not the one fetch succeeded.
FetchedOnce == sent <= 1

\* No lookup is answered from an empty list while the one fetch is on its way:
\* whoever gets past fetchMu reads what the fetch brought (openrouter.go:139-152).
NothingMissed ==
  \A l \in Lookups : pc[l] = "unlocked" => fetched /\ (\A m \in Lookups : pc[m] # "fetching")

\* Once a fetch has brought the list, a lookup returns the price of the model it
\* was asked for and of no other, and a model with a version of two numbers that
\* is listed in OpenRouter's spelling is found in Anthropic's, and in any mixture
\* of the two (openrouter.go:120-171, CHANGELOG.md:45).
Spells(a, b) == a.model = b.model /\ a.numbers = b.numbers
PriceOfTheModel ==
  \A l \in Lookups :
    /\ \A name \in answer[l] : Spells(name, Model[l])
    /\ (\E name \in prices : /\ Spells(name, Model[l])
                             /\ name.vendor = 1 /\ name.seps = <<".">>)
         => Find(Model[l]) # {}
=============================================================================
