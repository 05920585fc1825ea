-------------------------- MODULE IdempotentCommand --------------------------
(***************************************************************************)
(* What a caller of a governed Action is promised, with no transaction,    *)
(* plan, policy or crash in sight: a call takes effect at most once, calls *)
(* that share a key take effect at most once between them, effects are     *)
(* numbered without gaps, and an answer tells the truth.  "ok" carries the *)
(* result of an effect of the caller's own request, "rejected" is a        *)
(* promise that the call has had and will have no effect, "unknown"        *)
(* promises nothing.  A call may also never be answered.                   *)
(***************************************************************************)
EXTENDS Naturals

CONSTANTS Calls, Inputs, Keys, None

VARIABLES
    asked,   \* the request of each call, None before it is made
    done,    \* the effects
    total,   \* how many effects there have been
    answer   \* the answer to each call, None while there is none

cmdVars == <<asked, done, total, answer>>

CmdInit ==
    /\ asked = [c \in Calls |-> None]
    /\ done = {}
    /\ total = 0
    /\ answer = [c \in Calls |-> None]

Ask(c) ==
    /\ asked[c] = None
    /\ \E k \in Keys \cup {None}, i \in Inputs : asked' = [asked EXCEPT ![c] = [key |-> k, input |-> i]]
    /\ UNCHANGED <<done, total, answer>>

(* The effects a call may be answered from. *)
Mine(c) == {e \in done : e.call = c \/ (e.key # None /\ e.key = asked[c].key)}

Apply(c) ==
    /\ asked[c] # None
    /\ answer[c] \in {None, [kind |-> "unknown", result |-> None]}
    /\ Mine(c) = {}
    /\ total' = total + 1
    /\ done' = done \cup {[call |-> c, key |-> asked[c].key, input |-> asked[c].input, result |-> total + 1]}
    /\ UNCHANGED <<asked, answer>>

Reply(c, a) ==
    /\ asked[c] # None
    /\ answer[c] = None
    /\ answer' = [answer EXCEPT ![c] = a]
    /\ UNCHANGED <<asked, done, total>>

Ok(c) ==
    /\ asked[c] # None
    /\ \E e \in Mine(c) : e.input = asked[c].input /\ Reply(c, [kind |-> "ok", result |-> e.result])

Rejected(c) ==
    (\A e \in done : e.call # c) /\ Reply(c, [kind |-> "rejected", result |-> None])

Unknown(c) ==
    Reply(c, [kind |-> "unknown", result |-> None])

CmdNext == \E c \in Calls : Ask(c) \/ Apply(c) \/ Ok(c) \/ Rejected(c) \/ Unknown(c)

CmdSpec == CmdInit /\ [][CmdNext]_cmdVars
=============================================================================
