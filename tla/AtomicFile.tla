----------------------------- MODULE AtomicFile -----------------------------
(***************************************************************************)
(* What immutable publication promises its callers: one file that each     *)
(* call meets at one instant.  At that instant the call creates the file,  *)
(* or reads all of it and answers by what it reads; nobody replaces it.    *)
(* A call may also give up or fail, having done nothing that it says.      *)
(***************************************************************************)
CONSTANTS
    Calls, Payloads,
    Absent,       \* no file
    Irregular     \* something that is no file

VARIABLES
    payload,      \* call -> the bytes it proposes
    consistent,   \* call -> the same bytes will do, or it must create the file
    content,      \* the bytes of the file
    answer        \* call -> what it will return

vars == <<payload, consistent, content, answer>>

Init ==
    /\ payload \in [Calls -> Payloads]
    /\ consistent \in [Calls -> BOOLEAN]
    /\ content \in {Absent, Irregular}
    /\ answer = [c \in Calls |-> "none"]

\* A call is answered once.
Answer(c, how) ==
    /\ answer[c] = "none"
    /\ answer' = [answer EXCEPT ![c] = how]
    /\ UNCHANGED <<payload, consistent>>

Create(c) ==
    /\ content = Absent /\ content' = payload[c]
    /\ Answer(c, "published")

\* What a call answers to the file it reads.
Read(c) ==
    /\ \/ content = Irregular /\ Answer(c, "irregular")
       \/ /\ content \in Payloads
          /\ \/ ~consistent[c] /\ Answer(c, "exists")
             \/ consistent[c] /\ content = payload[c] /\ Answer(c, "published")
             \/ consistent[c] /\ content # payload[c] /\ Answer(c, "collision")
    /\ UNCHANGED content

GiveUp(c) == Answer(c, "race") /\ UNCHANGED content

\* An error takes the place of whatever the call would have returned.
Fail(c) ==
    /\ answer' = [answer EXCEPT ![c] = "error"]
    /\ UNCHANGED <<payload, consistent, content>>

Remove ==
    /\ content' = Absent
    /\ UNCHANGED <<payload, consistent, answer>>

Next ==
    \/ \E c \in Calls : Create(c) \/ Read(c) \/ GiveUp(c) \/ Fail(c)
    \/ Remove

Spec == Init /\ [][Next]_vars

=============================================================================
