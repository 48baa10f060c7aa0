--------------------------- MODULE SnapshotRegister ---------------------------
(***************************************************************************)
(* What a published policy snapshot promises its readers, whatever files   *)
(* it is made of: one register.  A request is answered with one set of     *)
(* weights for ever; the register holds one answered request and its       *)
(* weights; a reader that has fetched a value is served that value.        *)
(***************************************************************************)
CONSTANTS Requests, Weights, Readers

VARIABLES
    answered,   \* request -> the set of weights it was answered with
    latest,     \* the set of values in the register: none or one
    fetched     \* reader -> the set of values it has in hand: none or one

vars == <<answered, latest, fetched>>

Value == [request: Requests, weights: Weights]
Known == {v \in Value : v.weights \in answered[v.request]}

Init ==
    /\ answered = [q \in Requests |-> {}]
    /\ latest = {}
    /\ fetched = [r \in Readers |-> {}]

\* The first answer of a request is the only one.
Answer(q, w) ==
    /\ answered[q] = {}
    /\ answered' = [answered EXCEPT ![q] = {w}]
    /\ UNCHANGED <<latest, fetched>>

\* Only answered requests are published.
Publish(v) ==
    /\ v \in Known
    /\ latest' = {v}
    /\ UNCHANGED <<answered, fetched>>

Fetch(r) ==
    /\ latest # {}
    /\ fetched' = [fetched EXCEPT ![r] = latest]
    /\ UNCHANGED <<answered, latest>>

\* Readers forget what they have in hand, one or all of them.
Forget(S) ==
    /\ fetched' = [r \in Readers |-> IF r \in S THEN {} ELSE fetched[r]]
    /\ UNCHANGED <<answered, latest>>

Next ==
    \/ \E q \in Requests, w \in Weights : Answer(q, w)
    \/ \E v \in Value : Publish(v)
    \/ \E r \in Readers : Fetch(r)
    \/ \E S \in SUBSET Readers : Forget(S)

Spec == Init /\ [][Next]_vars
=============================================================================
