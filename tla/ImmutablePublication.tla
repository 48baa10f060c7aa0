------------------------ MODULE ImmutablePublication ------------------------
(***************************************************************************)
(* Writers that publish one immutable file without replacing it:           *)
(* immutable_publication.py, _publish_bytes and the comparison with a file *)
(* that is already there.                                                  *)
(*                                                                         *)
(* Each writer makes one file of its own under a temporary name and links  *)
(* it to the destination, so the writer itself stands for its inode.  What *)
(* a linked inode contains never changes, but its change time does, with   *)
(* every name it gains or loses; and the destination may be removed by     *)
(* others.  A comparison takes three looks at the destination (stat, open, *)
(* and the look after the read) between which anything may happen.         *)
(***************************************************************************)
EXTENDS Integers, FiniteSets

CONSTANTS
    Writers,      \* calls that publish to the same destination
    Payloads,     \* the bytes they propose
    Retries,      \* _PUBLICATION_RACE_RETRIES
    MaxRemovals,  \* bound: removals of the destination by others
    Absent,       \* no destination
    Irregular     \* a symlink or other leaf that is no regular file

ASSUME PublicationAssumption ==
    /\ IsFiniteSet(Writers)
    /\ Retries \in Nat \ {0}
    /\ MaxRemovals \in Nat
    /\ Absent \notin Writers
    /\ Irregular \notin Writers
    /\ Absent # Irregular
    /\ Absent \notin Payloads
    /\ Irregular \notin Payloads

VARIABLES
    leaf,        \* what the destination names
    removals,    \* how often others have removed it
    unlinked,    \* the published inodes that have lost their temporary name
    pc,          \* writer -> the call it is in
    payload,     \* writer -> the bytes it proposes
    consistent,  \* writer -> content-consistent, or create-only
    linked,      \* writer -> its link succeeded
    failed,      \* writer -> attempts that did not stabilise
    found,       \* writer -> the inode its stat saw
    opened,      \* writer -> the unlinked set when it opened that inode
    outcome      \* writer -> how its call ended

destination == <<leaf, removals, unlinked>>
arguments == <<payload, consistent>>
looks == <<found, opened>>
vars == <<destination, arguments, pc, linked, failed, looks, outcome>>

Outcomes == {"published", "exists", "collision", "irregular", "race", "error"}

Init ==
    /\ leaf \in {Absent, Irregular}
    /\ removals = 0 /\ unlinked = {}
    /\ payload \in [Writers -> Payloads]
    /\ consistent \in [Writers -> BOOLEAN]
    /\ pc = [w \in Writers |-> "write"]
    /\ linked = [w \in Writers |-> FALSE]
    /\ failed = [w \in Writers |-> 0]
    /\ found = [w \in Writers |-> Absent]
    /\ opened = [w \in Writers |-> {}]
    /\ outcome = [w \in Writers |-> "none"]

-----------------------------------------------------------------------------
Goto(w, at) == pc' = [pc EXCEPT ![w] = at]

\* The call ends, with the temporary name still to be removed.
End(w, how) == /\ Goto(w, "cleanup")
               /\ outcome' = [outcome EXCEPT ![w] = how]

\* Mutant: the last attempt is not made.
AttemptFailsEarly(w) ==
    /\ failed' = [failed EXCEPT ![w] = @ + 1]
    /\ IF failed[w] + 2 >= Retries THEN End(w, "race")
                                   ELSE Goto(w, "link") /\ UNCHANGED outcome

\* Mutant: an attempt on a destination that has vanished does not count.
AttemptFailsUncounted(w) ==
    /\ failed' = IF leaf = Absent THEN failed ELSE [failed EXCEPT ![w] = @ + 1]
    /\ IF leaf # Absent /\ failed[w] + 1 = Retries
         THEN End(w, "race") ELSE Goto(w, "link") /\ UNCHANGED outcome

\* The comparison returns None: link again, or give up.
AttemptFails(w) ==
    /\ failed' = [failed EXCEPT ![w] = @ + 1]
    /\ IF failed[w] + 1 = Retries THEN End(w, "race")
                                  ELSE Goto(w, "link") /\ UNCHANGED outcome

\* The private file is written and made durable.
WriteTemporary(w) ==
    /\ pc[w] = "write"
    /\ Goto(w, "link")
    /\ UNCHANGED <<destination, arguments, linked, failed, looks, outcome>>

\* Mutant: the destination is replaced.
LinkReplacing(w) ==
    /\ pc[w] = "link"
    /\ leaf' = w
    /\ linked' = [linked EXCEPT ![w] = TRUE]
    /\ End(w, "published")
    /\ UNCHANGED <<removals, unlinked, arguments, failed, looks>>

\* os.link: the destination is created, or it exists.
Link(w) ==
    /\ pc[w] = "link"
    /\ IF leaf = Absent
       THEN /\ leaf' = w
            /\ linked' = [linked EXCEPT ![w] = TRUE]
            /\ End(w, "published")
       ELSE /\ Goto(w, "stat")
            /\ UNCHANGED <<leaf, linked, outcome>>
    /\ UNCHANGED <<removals, unlinked, arguments, failed, looks>>

\* The first look: a missing file fails the attempt, an irregular one the call.
Stat(w) ==
    /\ pc[w] = "stat"
    /\ \/ leaf = Absent /\ AttemptFails(w) /\ UNCHANGED found
       \/ leaf = Irregular /\ End(w, "irregular") /\ UNCHANGED <<failed, found>>
       \/ /\ leaf \in Writers
          /\ found' = [found EXCEPT ![w] = leaf]
          /\ Goto(w, "open")
          /\ UNCHANGED <<failed, outcome>>
    /\ UNCHANGED <<destination, arguments, linked, opened>>

\* The second: what is opened must be what was looked at.
Open(w) ==
    /\ pc[w] = "open"
    /\ \/ leaf = Irregular /\ End(w, "irregular") /\ UNCHANGED <<failed, opened>>
       \/ /\ leaf = found[w]
          /\ opened' = [opened EXCEPT ![w] = unlinked]
          /\ Goto(w, "compare")
          /\ UNCHANGED <<failed, outcome>>
       \/ /\ leaf \notin {Irregular, found[w]}
          /\ AttemptFails(w) /\ UNCHANGED opened
    /\ UNCHANGED <<destination, arguments, linked, found>>

\* What a stable file means for the call.
Verdict(w) ==
    IF ~consistent[w] THEN "exists"
    ELSE IF payload[found[w]] = payload[w] THEN "published" ELSE "collision"

\* The inode lost its temporary name after it was opened.
Touched(w) == found[w] \in unlinked \ opened[w]

\* The third, after the read.  A changed change time fails the attempt; two
\* changes within the clock's grain look like one.
Compare(w) ==
    /\ pc[w] = "compare"
    /\ \/ /\ leaf = Irregular
          /\ End(w, "irregular") /\ UNCHANGED failed
       \/ /\ leaf = found[w]
          /\ End(w, Verdict(w)) /\ UNCHANGED failed
       \/ /\ leaf # Irregular
          /\ leaf = found[w] => Touched(w)
          /\ AttemptFails(w)
    /\ UNCHANGED <<destination, arguments, linked, looks>>

\* The finally block removes the temporary name; the directory's fsync after
\* it may still raise.
RemoveTemporary(w) ==
    /\ pc[w] = "cleanup"
    /\ Goto(w, "done")
    /\ unlinked' = IF linked[w] THEN unlinked \cup {w} ELSE unlinked
    /\ outcome' \in {outcome, [outcome EXCEPT ![w] = "error"]}
    /\ UNCHANGED <<leaf, removals, arguments, linked, failed, looks>>

\* Any system call may raise; the temporary name is then removed as well.
Raise(w) ==
    /\ pc[w] \in {"write", "link", "stat", "open", "compare"}
    /\ End(w, "error")
    /\ UNCHANGED <<destination, arguments, linked, failed, looks>>

\* The process is killed; its temporary name stays.
Kill(w) ==
    /\ pc[w] # "done"
    /\ Goto(w, "done")
    /\ outcome' = [outcome EXCEPT ![w] = "error"]
    /\ UNCHANGED <<destination, arguments, linked, failed, looks>>

\* Others remove the destination.
Remove ==
    /\ leaf # Absent /\ removals < MaxRemovals
    /\ leaf' = Absent
    /\ removals' = removals + 1
    /\ UNCHANGED <<unlinked, arguments, pc, linked, failed, looks, outcome>>

-----------------------------------------------------------------------------
Publish(w) == \/ WriteTemporary(w) \/ Link(w) \/ Stat(w) \/ Open(w)
              \/ Compare(w) \/ RemoveTemporary(w)

Next == \/ \E w \in Writers : Publish(w) \/ Raise(w) \/ Kill(w)
        \/ Remove

Spec == Init /\ [][Next]_vars

-----------------------------------------------------------------------------
(* Properties.                                                             *)

TypeOK ==
    /\ leaf \in Writers \cup {Absent, Irregular}
    /\ removals \in 0..MaxRemovals
    /\ unlinked \subseteq Writers
    /\ payload \in [Writers -> Payloads]
    /\ consistent \in [Writers -> BOOLEAN]
    /\ pc \in [Writers -> {"write", "link", "stat", "open", "compare",
                           "cleanup", "done"}]
    /\ linked \in [Writers -> BOOLEAN]
    /\ failed \in [Writers -> 0..Retries]
    /\ found \in [Writers -> Writers \cup {Absent}]
    /\ opened \in [Writers -> SUBSET Writers]
    /\ outcome \in [Writers -> Outcomes \cup {"none"}]

\* A call that returns normally tells the truth as long as nobody removes the
\* file: the destination has its bytes, a create-only call has made it itself,
\* and a collision is with other bytes than its own.
OutcomesAreTrue ==
    \A w \in Writers :
        /\ removals = 0 /\ outcome[w] = "published" =>
              /\ leaf \in Writers /\ payload[leaf] = payload[w]
              /\ ~consistent[w] => leaf = w
        /\ outcome[w] = "collision" =>
              \E v \in Writers : linked[v] /\ payload[v] # payload[w]

\* A call gives up on an unstable destination only when it did change once for
\* each attempt: it was removed, or a published file lost its temporary name.
\* (Writers of the same bytes alone change it once: all of them succeed.)
OnlyInstabilityRaces ==
    \A w \in Writers :
        outcome[w] = "race" => removals + Cardinality(unlinked) >= Retries

\* The destination as a file that is only ever there as a whole.
Content == IF leaf \in Writers THEN payload[leaf] ELSE leaf

Atomic == INSTANCE AtomicFile
              WITH Calls <- Writers, content <- Content, answer <- outcome

\* Publication is linearizable: among racing writers, removals and looks at
\* different times, each call answers as if it had met the whole file at one
\* instant, and no step replaces the file (immutable_publication.py:102, :153).
ImplementsAtomicFile == Atomic!Spec

\* The steps a call may still take: four for each attempt it has left, one to
\* write its file before them and one to remove it.
StepsLeft(w) ==
    CASE pc[w] = "done" -> 0
      [] pc[w] = "cleanup" -> 1
      [] OTHER -> 4 * (Retries - failed[w])
                    + [write |-> 2, link |-> 1, stat |-> 0, open |-> -1,
                       compare |-> -2][pc[w]]

\* Every call ends within 4 * Retries + 2 steps of its own, whatever the other
\* writers and removals do meanwhile: none of them can make it take another
\* step (immutable_publication.py:100).
CallsAreWaitFree ==
    [][\A w \in Writers :
          IF pc'[w] = pc[w] THEN StepsLeft(w)' = StepsLeft(w)
                            ELSE StepsLeft(w)' \in 0 .. StepsLeft(w) - 1]_vars
=============================================================================
