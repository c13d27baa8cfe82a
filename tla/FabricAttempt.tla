--------------------------- MODULE FabricAttempt ---------------------------
(***************************************************************************)
(* What a Fabric provider promises its clients, without its ledger,        *)
(* threads, crashes or incarnations: work named by a binding runs at most  *)
(* once, is decided at most once, and everyone who is told a verdict is    *)
(* told the one that was decided.                                          *)
(***************************************************************************)
EXTENDS Integers

CONSTANTS
    Bindings,        \* what clients may ask for
    Competes(_, _),  \* two bindings of one issuer that share a nonce or an attempt
    Verdicts,        \* everything that can be decided about a binding
    Completed(_)     \* the verdicts that carry the result of an execution

VARIABLES
    runs,     \* how often the work of a binding was started
    verdict,  \* the verdict on a binding: none or one
    told      \* the verdicts that clients were sent

vars == <<runs, verdict, told>>

Init ==
    /\ runs = [b \in Bindings |-> 0]
    /\ verdict = [b \in Bindings |-> {}]
    /\ told = [b \in Bindings |-> {}]

\* Work starts once, before it is decided, and not beside a competitor's.
Start(b) ==
    /\ verdict[b] = {}
    /\ \A c \in Bindings : runs[c] > 0 => c # b /\ ~Competes(c, b)
    /\ runs' = [runs EXCEPT ![b] = 1]
    /\ UNCHANGED <<verdict, told>>

\* Verdicts become final, several at a time after a restart.  A result needs an execution.
Decide ==
    /\ verdict' = [b \in Bindings |-> verdict'[b]]
    /\ \A b \in Bindings : verdict'[b] # verdict[b] =>
          /\ verdict[b] = {}
          /\ \E v \in Verdicts : verdict'[b] = {v} /\ (Completed(v) => runs[b] = 1)
    /\ UNCHANGED <<runs, told>>

\* A client is sent the verdict, once there is one.
Tell(b) ==
    /\ verdict[b] # {}
    /\ told' = [told EXCEPT ![b] = verdict[b]]
    /\ UNCHANGED <<runs, verdict>>

Next == (\E b \in Bindings : Start(b) \/ Tell(b)) \/ Decide

Spec == Init /\ [][Next]_vars
=============================================================================
