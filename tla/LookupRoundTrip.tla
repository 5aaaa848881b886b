-------------------------- MODULE LookupRoundTrip --------------------------
(* One draft or fix call of scripts/poc_queue_runner.py: the model is asked *)
(* for a PoC and may first look symbols up in the target, over a transport  *)
(* of its own (native tool calls, or LOOKUP: lines in its text). Every      *)
(* round trip has a budget of lookups; a tool round trip that returns no    *)
(* Solidity is followed by one marker round trip; a transport failure       *)
(* repeats the whole call. PocRunner waits for what the call returns.       *)
(* Symbols and texts are abstracted to how many lookups a reply asks for    *)
(* and to whether its remainder holds any Solidity.                         *)
EXTENDS Naturals

CONSTANTS
    Provider,         \* "local" or "hosted"
    RequestedMode,    \* --lookup-protocol: "auto", "tool" or "marker"
    ToolsSupported,   \* what client.supports_tools() answers
    Ready,            \* the model answers, or the hosted key is set
    Indexed,          \* a SymbolIndex was built
    LookupBudget,     \* --lookup-budget
    RetryAttempts,    \* GEN_RETRY_ATTEMPTS
    MaxAsked          \* bound: the most lookups one reply asks for

ASSUME TripAssumption ==
    /\ Provider \in {"local", "hosted"}
    /\ RequestedMode \in {"auto", "tool", "marker"}
    /\ {ToolsSupported, Ready, Indexed} \subseteq BOOLEAN
    /\ LookupBudget \in Nat /\ MaxAsked \in Nat
    /\ RetryAttempts \in Nat \ {0}

VARIABLE trip

(* A hosted provider only speaks the marker protocol.                       *)
ResolveLookupProtocol == IF Provider = "hosted" THEN "marker" ELSE RequestedMode

(* The protocol is chosen once per run and never changes during it.         *)
SelectProtocol ==
    IF ResolveLookupProtocol = "marker" \/ ~ToolsSupported THEN "marker" ELSE "tool"

(* Requests the harness refuses at startup instead of downgrading them.     *)
StartupError ==
    \/ ~Ready
    \/ RequestedMode = "tool" /\ (Provider = "hosted" \/ ~ToolsSupported)

Modes == {"tool", "marker"}
Trips ==
    [pc: {"idle", "asking", "code", "empty", "failed", "raised"},
     mode: Modes,
     fell: BOOLEAN,               \* the fallback of this round trip was taken
     try: 1..RetryAttempts,
     used: 0..LookupBudget,       \* of this round trip's budget
     served: Nat]                 \* lookups answered for this attempt

Idle == [pc |-> "idle", mode |-> "marker", fell |-> FALSE, try |-> 1,
         used |-> 0, served |-> 0]
TripInit == trip = Idle

Fresh(try, served) ==
    [pc |-> "asking", mode |-> SelectProtocol, fell |-> FALSE, try |-> try,
     used |-> 0, served |-> served]

StartTrip == trip' = Fresh(1, 0)
EndTrip == trip' = Idle

Asking == trip.pc = "asking"

(* A reply that asks for `asked` symbols is answered up to the budget.      *)
MayLookUp(asked) == asked > 0 /\ Indexed /\ trip.used < LookupBudget

Resolved(asked) == IF asked <= LookupBudget - trip.used THEN asked ELSE LookupBudget - trip.used

LookUp(asked) ==
    /\ Asking /\ trip.mode = "marker"
    /\ MayLookUp(asked)
    /\ trip' = [trip EXCEPT !.used = @ + Resolved(asked), !.served = @ + Resolved(asked)]

(* A reply without lookups, or past the budget, is final: what it holds of  *)
(* Solidity is the PoC, and "" when it holds none.                          *)
MarkerFinal(asked, result) ==
    /\ Asking /\ trip.mode = "marker"
    /\ ~MayLookUp(asked)
    /\ trip' = [trip EXCEPT !.pc = result]

LookUpByTool(asked) ==
    /\ Asking /\ trip.mode = "tool"
    /\ MayLookUp(asked)
    /\ trip' = [trip EXCEPT !.used = @ + Resolved(asked), !.served = @ + Resolved(asked)]

(* A call written as text whose arguments are JSON, but no object, has no   *)
(* .get(): the AttributeError is no model error and nothing catches it.     *)
MalformedCall ==
    /\ Asking /\ trip.mode = "tool"
    /\ MayLookUp(1)
    /\ trip' = [trip EXCEPT !.pc = "raised"]

(* No Solidity after a tool round trip: one marker round trip, with a       *)
(* budget of its own, before the caller sees an empty reply.                *)
ToolFinal(asked, result) ==
    /\ Asking /\ trip.mode = "tool"
    /\ ~MayLookUp(asked)
    /\ trip' = IF result = "code" THEN [trip EXCEPT !.pc = "code"]
               ELSE [trip EXCEPT !.mode = "marker", !.fell = TRUE, !.used = 0]

(* A transport failure (MODEL_ERRORS) starts the whole call again, or is    *)
(* raised to the caller once the attempts are used up.                      *)
TransportFails ==
    /\ Asking
    /\ trip' = IF trip.try < RetryAttempts THEN Fresh(trip.try + 1, trip.served)
               ELSE [trip EXCEPT !.pc = "failed"]

TripStep ==
    \/ \E asked \in 0..MaxAsked :
        \/ LookUp(asked)
        \/ LookUpByTool(asked)
        \/ \E result \in {"code", "empty"} :
            MarkerFinal(asked, result) \/ ToolFinal(asked, result)
    \/ MalformedCall
    \/ TransportFails

-----------------------------------------------------------------------------
(* The lookups answered for one attempt are bounded whatever the model asks *)
(* for: a budget per round trip, two round trips where the tool protocol    *)
(* can fall back, once per try.                                             *)
LookupsBounded ==
    trip.served <= LookupBudget * RetryAttempts * (IF SelectProtocol = "tool" THEN 2 ELSE 1)

(* A malformed call is a lookup that finds nothing; no reply of the model   *)
(* ends the run (the edge cases of specs/008-agentic-tool-lookup).          *)
MalformedCallsAreHandled == trip.pc # "raised"
=============================================================================
