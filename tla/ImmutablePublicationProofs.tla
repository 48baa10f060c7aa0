-------------------- MODULE ImmutablePublicationProofs --------------------
(***************************************************************************)
(* Proofs about immutable publication: for any number of writers, retries  *)
(* and removals, a call that returns tells the truth, and one that gives up *)
(* has seen the destination change once for each of its attempts.          *)
(***************************************************************************)
EXTENDS ImmutablePublication, TLAPS, FiniteSetTheorems

(* What the destination has been through.                                  *)
Changes == removals + Cardinality(unlinked)

(* The writers in the loop of attempts.                                    *)
Trying == {"write", "link", "stat", "open", "compare"}

(* Only linked inodes were ever at the destination, and without removals    *)
(* the first of them stays there.                                          *)
LinkedInv ==
    /\ leaf \in Writers => linked[leaf]
    /\ \A w \in Writers :
          /\ found[w] \in Writers => linked[found[w]]
          /\ pc[w] \in {"open", "compare"} => found[w] \in Writers
          /\ linked[w] /\ removals = 0 => leaf = w

(* The destination has changed since the look writer w took last.           *)
Disturbed(w) ==
    \/ pc[w] = "stat" /\ leaf = Absent
    \/ pc[w] = "open" /\ leaf # found[w]
    \/ pc[w] = "compare" /\ (leaf # found[w] \/ Touched(w))

(* Each failed attempt of a writer has a change of its own, and so has the  *)
(* attempt that is about to fail.                                          *)
CountInv ==
    \A w \in Writers :
        /\ failed[w] <= Changes
        /\ Disturbed(w) => failed[w] < Changes
        /\ pc[w] \in Trying => failed[w] < Retries /\ outcome[w] = "none"
        /\ outcome[w] = "race" => failed[w] = Retries

PublicationInv == TypeOK /\ LinkedInv /\ CountInv /\ OutcomesAreTrue

-----------------------------------------------------------------------------
(* The number of changes is a number, and grows with each of them.         *)
LEMMA ChangesCount ==
    ASSUME TypeOK
    PROVE  /\ removals \in Nat /\ Cardinality(unlinked) \in Nat
           /\ Changes \in Nat
           /\ \A w \in Writers :
                 Cardinality(unlinked \cup {w}) =
                     IF w \in unlinked THEN Cardinality(unlinked)
                                       ELSE Cardinality(unlinked) + 1
<1>1. IsFiniteSet(unlinked)
  BY PublicationAssumption, FS_Subset DEF TypeOK
<1>2. removals \in Nat
  BY PublicationAssumption DEF TypeOK
<1>3. Cardinality(unlinked) \in Nat
  BY <1>1, FS_CardinalityType
<1>4. \A w \in Writers :
          Cardinality(unlinked \cup {w}) =
              IF w \in unlinked THEN Cardinality(unlinked)
                                ELSE Cardinality(unlinked) + 1
  BY <1>1, FS_AddElement
<1>. QED
  BY <1>2, <1>3, <1>4 DEF Changes

LEMMA InitialInv == Init => PublicationInv
<1>. SUFFICES ASSUME Init PROVE PublicationInv
  OBVIOUS
<1>1. TypeOK
  BY PublicationAssumption DEF Init, TypeOK, Outcomes
<1>2. LinkedInv
  BY PublicationAssumption DEF Init, LinkedInv
<1>3. CountInv
  <2>1. Changes \in Nat
    BY <1>1, ChangesCount
  <2>. QED
    BY <2>1, PublicationAssumption DEF Init, CountInv, Disturbed, Trying
<1>4. OutcomesAreTrue
  BY DEF Init, OutcomesAreTrue
<1>. QED
  BY <1>1, <1>2, <1>3, <1>4 DEF PublicationInv

-----------------------------------------------------------------------------
(* Types.                                                                  *)

LEMMA TypeStep ==
    ASSUME TypeOK, CountInv, [Next]_vars PROVE TypeOK'
<1>. DEFINE At == {"write", "link", "stat", "open", "compare", "cleanup", "done"}
<1>1. ASSUME NEW w \in Writers, NEW at \in At, Goto(w, at)
      PROVE  pc' \in [Writers -> At]
  BY <1>1 DEF TypeOK, Goto
<1>2. ASSUME NEW w \in Writers, NEW how \in Outcomes, End(w, how)
      PROVE  /\ pc' \in [Writers -> At]
             /\ outcome' \in [Writers -> Outcomes \cup {"none"}]
  BY <1>1, <1>2 DEF TypeOK, End
<1>3. ASSUME NEW w \in Writers, AttemptFails(w), pc[w] \in Trying
      PROVE  /\ pc' \in [Writers -> At]
             /\ outcome' \in [Writers -> Outcomes \cup {"none"}]
             /\ failed' \in [Writers -> 0..Retries]
  <2>1. failed[w] \in 0..Retries /\ failed[w] < Retries
    BY <1>3 DEF TypeOK, CountInv
  <2>2. failed[w] + 1 \in 0..Retries
    BY <2>1, PublicationAssumption
  <2>3. failed' \in [Writers -> 0..Retries]
    BY <1>3, <2>2 DEF TypeOK, AttemptFails
  <2>4. CASE End(w, "race")
    BY <2>3, <2>4, <1>2 DEF Outcomes
  <2>5. CASE Goto(w, "link") /\ UNCHANGED outcome
    BY <2>3, <2>5, <1>1 DEF TypeOK
  <2>. QED
    BY <1>3, <2>4, <2>5 DEF AttemptFails
<1>4. ASSUME NEW w \in Writers, WriteTemporary(w) PROVE TypeOK'
  BY <1>4, <1>1 DEF TypeOK, WriteTemporary, destination, arguments, looks
<1>5. ASSUME NEW w \in Writers, Link(w) PROVE TypeOK'
  <2>1. CASE leaf = Absent
    BY <1>5, <2>1, <1>2 DEF TypeOK, Link, arguments, looks, Outcomes
  <2>2. CASE leaf # Absent
    BY <1>5, <2>2, <1>1 DEF TypeOK, Link, arguments, looks
  <2>. QED
    BY <2>1, <2>2
<1>6. ASSUME NEW w \in Writers, Stat(w) PROVE TypeOK'
  <2>1. CASE leaf = Absent /\ AttemptFails(w) /\ UNCHANGED found
    BY <1>6, <2>1, <1>3 DEF TypeOK, Stat, destination, arguments, Trying
  <2>2. CASE End(w, "irregular") /\ UNCHANGED <<failed, found>>
    BY <1>6, <2>2, <1>2 DEF TypeOK, Stat, destination, arguments, Outcomes
  <2>3. CASE /\ leaf \in Writers
             /\ found' = [found EXCEPT ![w] = leaf]
             /\ Goto(w, "open")
             /\ UNCHANGED <<failed, outcome>>
    BY <1>6, <2>3, <1>1 DEF TypeOK, Stat, destination, arguments
  <2>. QED
    BY <1>6, <2>1, <2>2, <2>3 DEF Stat
<1>7. ASSUME NEW w \in Writers, Open(w) PROVE TypeOK'
  <2>1. CASE AttemptFails(w) /\ UNCHANGED opened
    BY <1>7, <2>1, <1>3 DEF TypeOK, Open, destination, arguments, Trying
  <2>2. CASE End(w, "irregular") /\ UNCHANGED <<failed, opened>>
    BY <1>7, <2>2, <1>2 DEF TypeOK, Open, destination, arguments, Outcomes
  <2>3. CASE /\ opened' = [opened EXCEPT ![w] = unlinked]
             /\ Goto(w, "compare")
             /\ UNCHANGED <<failed, outcome>>
    BY <1>7, <2>3, <1>1 DEF TypeOK, Open, destination, arguments
  <2>. QED
    BY <1>7, <2>1, <2>2, <2>3 DEF Open
<1>8. ASSUME NEW w \in Writers, Compare(w) PROVE TypeOK'
  <2>1. CASE AttemptFails(w)
    BY <1>8, <2>1, <1>3 DEF TypeOK, Compare, destination, arguments, looks, Trying
  <2>2. CASE End(w, "irregular") /\ UNCHANGED failed
    BY <1>8, <2>2, <1>2 DEF TypeOK, Compare, destination, arguments, looks, Outcomes
  <2>3. CASE End(w, Verdict(w)) /\ UNCHANGED failed
    <3>1. Verdict(w) \in Outcomes
      BY DEF Verdict, Outcomes
    <3>. QED
      BY <1>8, <2>3, <3>1, <1>2 DEF TypeOK, Compare, destination, arguments, looks
  <2>. QED
    BY <1>8, <2>1, <2>2, <2>3 DEF Compare
<1>9. ASSUME NEW w \in Writers, RemoveTemporary(w) PROVE TypeOK'
  <2>1. pc' \in [Writers -> At]
    BY <1>9, <1>1 DEF RemoveTemporary
  <2>2. outcome' \in [Writers -> Outcomes \cup {"none"}]
    BY <1>9 DEF TypeOK, RemoveTemporary, Outcomes
  <2>3. unlinked' \subseteq Writers
    BY <1>9 DEF TypeOK, RemoveTemporary
  <2>. QED
    BY <1>9, <2>1, <2>2, <2>3 DEF TypeOK, RemoveTemporary, arguments, looks
<1>10. ASSUME NEW w \in Writers, Raise(w) PROVE TypeOK'
  BY <1>10, <1>2 DEF TypeOK, Raise, destination, arguments, looks, Outcomes
<1>11. ASSUME NEW w \in Writers, Kill(w) PROVE TypeOK'
  BY <1>11, <1>1 DEF TypeOK, Kill, destination, arguments, looks, Outcomes
<1>12. ASSUME Remove PROVE TypeOK'
  BY <1>12, PublicationAssumption DEF TypeOK, Remove, arguments, looks
<1>13. ASSUME UNCHANGED vars PROVE TypeOK'
  BY <1>13 DEF TypeOK, vars, destination, arguments, looks
<1>. QED
  BY <1>4, <1>5, <1>6, <1>7, <1>8, <1>9, <1>10, <1>11, <1>12, <1>13 DEF Next, Publish

-----------------------------------------------------------------------------
(* The destination.                                                        *)

(* What a step may do to the destination and to what is linked: a writer    *)
(* links its own inode, somebody removes it, or a temporary name goes.      *)
LEMMA DestinationStep ==
    ASSUME TypeOK, [Next]_vars
    PROVE  \/ /\ UNCHANGED <<leaf, removals, linked>>
              /\ \/ UNCHANGED unlinked
                 \/ \E w \in Writers : unlinked' = unlinked \cup {w} /\ pc[w] = "cleanup"
           \/ \E w \in Writers :
                 /\ leaf = Absent /\ leaf' = w /\ linked' = [linked EXCEPT ![w] = TRUE]
                 /\ pc[w] = "link"
                 /\ UNCHANGED <<removals, unlinked>>
           \/ /\ leaf # Absent /\ leaf' = Absent /\ removals' = removals + 1
              /\ UNCHANGED <<linked, unlinked>>
<1>1. ASSUME NEW w \in Writers, Link(w)
      PROVE  \/ UNCHANGED <<leaf, removals, linked, unlinked>>
             \/ /\ leaf = Absent /\ leaf' = w /\ linked' = [linked EXCEPT ![w] = TRUE]
                /\ pc[w] = "link"
                /\ UNCHANGED <<removals, unlinked>>
  BY <1>1 DEF Link
<1>2. ASSUME NEW w \in Writers, RemoveTemporary(w)
      PROVE  /\ UNCHANGED <<leaf, removals, linked>> /\ pc[w] = "cleanup"
             /\ UNCHANGED unlinked \/ unlinked' = unlinked \cup {w}
  BY <1>2 DEF RemoveTemporary
<1>3. ASSUME NEW w \in Writers,
             WriteTemporary(w) \/ Stat(w) \/ Open(w) \/ Compare(w) \/ Raise(w) \/ Kill(w)
      PROVE  UNCHANGED <<leaf, removals, linked, unlinked>>
  BY <1>3 DEF WriteTemporary, Stat, Open, Compare, Raise, Kill, destination
<1>4. ASSUME Remove
      PROVE  /\ leaf # Absent /\ leaf' = Absent /\ removals' = removals + 1
             /\ UNCHANGED <<linked, unlinked>>
  BY <1>4 DEF Remove
<1>5. ASSUME UNCHANGED vars PROVE UNCHANGED <<leaf, removals, linked, unlinked>>
  BY <1>5 DEF vars, destination
<1>. QED
  BY <1>1, <1>2, <1>3, <1>4, <1>5 DEF Next, Publish

(* What a step may do to a writer: it goes on, takes its next look, fails an *)
(* attempt that was disturbed, or ends its call.                           *)
Moves(w) ==
    \/ UNCHANGED <<pc[w], failed[w], outcome[w], found[w], opened[w]>>
    \/ /\ pc[w] = "write" /\ pc'[w] = "link"
       /\ UNCHANGED <<failed[w], outcome[w], found[w], opened[w]>>
    \/ /\ pc[w] = "link" /\ pc'[w] = "stat" /\ leaf # Absent
       /\ UNCHANGED <<leaf, failed[w], outcome[w], found[w], opened[w]>>
    \/ /\ pc[w] = "stat" /\ pc'[w] = "open"
       /\ leaf \in Writers /\ found'[w] = leaf
       /\ UNCHANGED <<leaf, linked, failed[w], outcome[w], opened[w]>>
    \/ /\ pc[w] = "open" /\ pc'[w] = "compare"
       /\ leaf = found[w] /\ opened'[w] = unlinked
       /\ UNCHANGED <<leaf, unlinked, failed[w], outcome[w], found[w]>>
    \/ /\ Disturbed(w) /\ pc[w] \in Trying /\ failed'[w] = failed[w] + 1
       /\ \/ /\ pc'[w] = "link" /\ failed[w] + 1 # Retries
             /\ UNCHANGED outcome[w]
          \/ /\ pc'[w] = "cleanup" /\ failed[w] + 1 = Retries
             /\ outcome'[w] = "race"
       /\ UNCHANGED <<found[w], opened[w]>>
    \/ /\ pc'[w] \in {"cleanup", "done"}
       /\ outcome'[w] # "race" \/ (UNCHANGED outcome[w] /\ pc[w] = "cleanup")
       /\ UNCHANGED <<failed[w], found[w], opened[w]>>

LEMMA WriterStep ==
    ASSUME TypeOK, [Next]_vars, NEW w \in Writers
    PROVE  Moves(w)
<1>1. ASSUME NEW v \in Writers, WriteTemporary(v) PROVE Moves(w)
  BY <1>1 DEF TypeOK, Moves, WriteTemporary, Goto, looks
<1>2. ASSUME NEW v \in Writers, Link(v) PROVE Moves(w)
  BY <1>2 DEF TypeOK, Moves, Link, Goto, End, looks
<1>3. ASSUME NEW v \in Writers, Stat(v) PROVE Moves(w)
  <2>1. CASE leaf = Absent /\ AttemptFails(v) /\ UNCHANGED found
    BY <1>3, <2>1 DEF TypeOK, Moves, Disturbed, Trying, Stat, AttemptFails, Goto, End
  <2>2. CASE End(v, "irregular") /\ UNCHANGED <<failed, found>>
    BY <1>3, <2>2 DEF TypeOK, Moves, Stat, End, Goto
  <2>3. CASE /\ leaf \in Writers
             /\ found' = [found EXCEPT ![v] = leaf]
             /\ Goto(v, "open")
             /\ UNCHANGED <<failed, outcome>>
    BY <1>3, <2>3 DEF TypeOK, Moves, Stat, Goto, destination
  <2>. QED
    BY <1>3, <2>1, <2>2, <2>3 DEF Stat
<1>4. ASSUME NEW v \in Writers, Open(v) PROVE Moves(w)
  <2>1. CASE leaf # found[v] /\ AttemptFails(v) /\ UNCHANGED opened
    BY <1>4, <2>1 DEF TypeOK, Moves, Disturbed, Trying, Open, AttemptFails, Goto, End
  <2>2. CASE End(v, "irregular") /\ UNCHANGED <<failed, opened>>
    BY <1>4, <2>2 DEF TypeOK, Moves, Open, End, Goto
  <2>3. CASE /\ leaf = found[v]
             /\ opened' = [opened EXCEPT ![v] = unlinked]
             /\ Goto(v, "compare")
             /\ UNCHANGED <<failed, outcome>>
    BY <1>4, <2>3 DEF TypeOK, Moves, Open, Goto, destination
  <2>. QED
    BY <1>4, <2>1, <2>2, <2>3 DEF Open
<1>5. ASSUME NEW v \in Writers, Compare(v) PROVE Moves(w)
  <2>1. CASE (leaf = found[v] => Touched(v)) /\ AttemptFails(v)
    BY <1>5, <2>1 DEF TypeOK, Moves, Disturbed, Trying, Compare, AttemptFails, Goto,
                      End, looks
  <2>2. CASE End(v, "irregular") /\ UNCHANGED failed
    BY <1>5, <2>2 DEF TypeOK, Moves, Compare, End, Goto, looks
  <2>3. CASE End(v, Verdict(v)) /\ UNCHANGED failed
    <3>1. Verdict(v) # "race"
      BY DEF Verdict
    <3>. QED
      BY <1>5, <2>3, <3>1 DEF TypeOK, Moves, Compare, End, Goto, looks
  <2>. QED
    BY <1>5, <2>1, <2>2, <2>3 DEF Compare
<1>6. ASSUME NEW v \in Writers, RemoveTemporary(v) PROVE Moves(w)
  BY <1>6 DEF TypeOK, Moves, RemoveTemporary, Goto, looks
<1>7. ASSUME NEW v \in Writers, Raise(v) PROVE Moves(w)
  BY <1>7 DEF TypeOK, Moves, Raise, Goto, End, looks
<1>8. ASSUME NEW v \in Writers, Kill(v) PROVE Moves(w)
  BY <1>8 DEF TypeOK, Moves, Kill, Goto, looks
<1>9. ASSUME Remove PROVE Moves(w)
  BY <1>9 DEF TypeOK, Moves, Remove, looks
<1>10. ASSUME UNCHANGED vars PROVE Moves(w)
  BY <1>10 DEF TypeOK, Moves, vars, looks
<1>. QED
  BY <1>1, <1>2, <1>3, <1>4, <1>5, <1>6, <1>7, <1>8, <1>9, <1>10 DEF Next, Publish

LEMMA LinkedStep ==
    ASSUME TypeOK, TypeOK', LinkedInv, [Next]_vars
    PROVE  LinkedInv'
<1>1. \A w \in Writers : linked[w] => linked'[w]
  BY DestinationStep DEF TypeOK
<1>2. leaf' \in Writers => linked'[leaf']
  BY DestinationStep, PublicationAssumption DEF TypeOK, LinkedInv
<1>3. ASSUME NEW w \in Writers
      PROVE  /\ found'[w] \in Writers => linked'[found'[w]]
             /\ pc'[w] \in {"open", "compare"} => found'[w] \in Writers
  BY <1>1, WriterStep DEF LinkedInv, Moves, Disturbed, Trying
<1>4. ASSUME NEW w \in Writers, linked'[w], removals' = 0
      PROVE  leaf' = w
  <2>1. CASE UNCHANGED <<leaf, removals, linked>>
    BY <1>4, <2>1 DEF LinkedInv
  <2>2. ASSUME NEW v \in Writers,
               leaf = Absent, leaf' = v, linked' = [linked EXCEPT ![v] = TRUE],
               UNCHANGED removals
        PROVE  leaf' = w
    <3>1. ~linked[w]
      BY <1>4, <2>2, PublicationAssumption DEF LinkedInv
    <3>. QED
      BY <1>4, <2>2, <3>1 DEF TypeOK
  <2>3. CASE removals' = removals + 1
    BY <1>4, <2>3, PublicationAssumption DEF TypeOK
  <2>. QED
    BY <2>1, <2>2, <2>3, DestinationStep
<1>. QED
  BY <1>2, <1>3, <1>4 DEF LinkedInv

-----------------------------------------------------------------------------
(* The changes.                                                            *)

(* Changes are not undone; a removal, and the loss of a temporary name that *)
(* a writer has not seen yet, is one more.                                  *)
LEMMA ChangesGrow ==
    ASSUME TypeOK, TypeOK', [Next]_vars
    PROVE  /\ Changes \in Nat /\ Changes' \in Nat /\ Changes <= Changes'
           /\ unlinked # unlinked' => Changes < Changes'
           /\ leaf # leaf' /\ leaf # Absent => Changes < Changes'
<1>0. /\ removals \in Nat /\ Cardinality(unlinked) \in Nat
      /\ \A w \in Writers :
                 Cardinality(unlinked \cup {w}) =
                     IF w \in unlinked THEN Cardinality(unlinked)
                                       ELSE Cardinality(unlinked) + 1
  BY ChangesCount
<1>1. CASE UNCHANGED <<leaf, removals, unlinked>>
  BY <1>0, <1>1 DEF Changes
<1>2. ASSUME NEW w \in Writers, unlinked' = unlinked \cup {w}, UNCHANGED <<leaf, removals>>
      PROVE  /\ Changes \in Nat /\ Changes' \in Nat /\ Changes <= Changes'
             /\ unlinked # unlinked' => Changes < Changes'
  <2>1. CASE w \in unlinked
    <3>1. unlinked' = unlinked
      BY <1>2, <2>1
    <3>. QED
      BY <1>0, <1>2, <3>1 DEF Changes
  <2>2. CASE w \notin unlinked
    <3>1. Cardinality(unlinked') = Cardinality(unlinked) + 1
      BY <1>0, <1>2, <2>2
    <3>. QED
      BY <1>0, <1>2, <3>1 DEF Changes
  <2>. QED
    BY <2>1, <2>2
<1>3. CASE leaf = Absent /\ UNCHANGED <<removals, unlinked>>
  BY <1>0, <1>3 DEF Changes
<1>4. CASE removals' = removals + 1 /\ UNCHANGED unlinked
  BY <1>0, <1>4 DEF Changes
<1>. QED
  BY <1>1, <1>2, <1>3, <1>4, DestinationStep

(* A writer that is disturbed after a step was so before it, or the step    *)
(* made a change.                                                          *)
LEMMA DisturbedStep ==
    ASSUME TypeOK, TypeOK', LinkedInv, [Next]_vars, NEW w \in Writers, Disturbed(w)'
    PROVE  /\ Disturbed(w) \/ Changes < Changes'
           /\ UNCHANGED failed[w]
<1>1. CASE UNCHANGED <<pc[w], failed[w], outcome[w], found[w], opened[w]>>
  <2>1. CASE pc[w] = "stat"
    BY <1>1, <2>1, ChangesGrow DEF Disturbed
  <2>2. CASE pc[w] = "open"
    <3>1. found[w] # Absent
      BY <2>2, PublicationAssumption DEF LinkedInv
    <3>. QED
      BY <1>1, <2>2, <3>1, ChangesGrow DEF Disturbed
  <2>3. CASE pc[w] = "compare"
    <3>1. found[w] # Absent
      BY <2>3, PublicationAssumption DEF LinkedInv
    <3>2. CASE leaf' # found[w]
      BY <1>1, <2>3, <3>1, <3>2, ChangesGrow DEF Disturbed
    <3>3. CASE Touched(w)'
      BY <1>1, <2>3, <3>3, ChangesGrow DEF Disturbed, Touched
    <3>. QED
      BY <1>1, <2>3, <3>2, <3>3 DEF Disturbed
  <2>. QED
    BY <1>1, <2>1, <2>2, <2>3 DEF Disturbed
<1>2. CASE ~UNCHANGED <<pc[w], failed[w], outcome[w], found[w], opened[w]>>
  BY <1>2, WriterStep DEF Moves, Disturbed, Touched
<1>. QED
  BY <1>1, <1>2

LEMMA CountStep ==
    ASSUME TypeOK, TypeOK', LinkedInv, CountInv, [Next]_vars
    PROVE  CountInv'
<1>. SUFFICES ASSUME NEW w \in Writers
              PROVE  /\ failed'[w] <= Changes'
                     /\ Disturbed(w)' => failed'[w] < Changes'
                     /\ pc'[w] \in Trying => failed'[w] < Retries /\ outcome'[w] = "none"
                     /\ outcome'[w] = "race" => failed'[w] = Retries
  BY DEF CountInv, Trying
<1>1. /\ Changes \in Nat /\ Changes' \in Nat /\ Changes <= Changes'
      /\ failed[w] \in Nat /\ Retries \in Nat
  BY ChangesGrow, PublicationAssumption DEF TypeOK
<1>2. /\ failed[w] <= Changes
      /\ Disturbed(w) => failed[w] < Changes
      /\ pc[w] \in Trying => failed[w] < Retries /\ outcome[w] = "none"
      /\ outcome[w] = "race" => failed[w] = Retries
  BY DEF CountInv
<1>3. failed'[w] <= Changes'
  BY <1>1, <1>2, WriterStep DEF Moves
<1>4. Disturbed(w)' => failed'[w] < Changes'
  BY <1>1, <1>2, DisturbedStep
<1>5. pc'[w] \in Trying => failed'[w] < Retries /\ outcome'[w] = "none"
  BY <1>1, <1>2, WriterStep DEF Moves, Trying
<1>6. outcome'[w] = "race" => failed'[w] = Retries
  BY <1>1, <1>2, WriterStep DEF Moves, Trying
<1>. QED
  BY <1>3, <1>4, <1>5, <1>6

-----------------------------------------------------------------------------
(* What the outcomes say.                                                  *)

LEMMA OutcomesStep ==
    ASSUME TypeOK, TypeOK', LinkedInv, CountInv, OutcomesAreTrue, [Next]_vars
    PROVE  OutcomesAreTrue'
<1>. DEFINE Published(w) == /\ leaf \in Writers /\ payload[leaf] = payload[w]
                            /\ ~consistent[w] => leaf = w
            Collides(w) == \E v \in Writers : linked[v] /\ payload[v] # payload[w]
<1>1. UNCHANGED <<payload, consistent>>
  BY DEF Next, Publish, WriteTemporary, Link, Stat, Open, Compare, RemoveTemporary,
         Raise, Kill, Remove, arguments, vars
<1>2. ASSUME NEW w \in Writers, outcome'[w] = "published", outcome[w] # "published"
      PROVE  Published(w)'
  <2>1. ASSUME Link(w), leaf = Absent PROVE Published(w)'
    BY <2>1, <1>1 DEF Link
  <2>2. ASSUME Compare(w), leaf = found[w], End(w, Verdict(w)) PROVE Published(w)'
    <3>1. Verdict(w) = "published"
      BY <1>2, <2>2 DEF TypeOK, End
    <3>2. consistent[w] /\ payload[found[w]] = payload[w]
      BY <3>1 DEF Verdict
    <3>3. found[w] \in Writers /\ leaf' = leaf
      BY <2>2 DEF LinkedInv, Compare, destination
    <3>. QED
      BY <2>2, <3>2, <3>3, <1>1
  <2>3. (Link(w) /\ leaf = Absent) \/ (Compare(w) /\ leaf = found[w] /\ End(w, Verdict(w)))
    BY <1>2 DEF TypeOK, Next, Publish, WriteTemporary, Link, Stat, Open, Compare,
                RemoveTemporary, Raise, Kill, Remove, End, AttemptFails, vars
  <2>. QED
    BY <2>1, <2>2, <2>3
<1>3. ASSUME NEW w \in Writers, outcome'[w] = "collision", outcome[w] # "collision"
      PROVE  Collides(w)'
  <2>1. Compare(w) /\ leaf = found[w] /\ End(w, Verdict(w))
    BY <1>3 DEF TypeOK, Next, Publish, WriteTemporary, Link, Stat, Open, Compare,
                RemoveTemporary, Raise, Kill, Remove, End, AttemptFails, vars
  <2>2. Verdict(w) = "collision"
    BY <1>3, <2>1 DEF TypeOK, End
  <2>3. payload[found[w]] # payload[w]
    BY <2>2 DEF Verdict
  <2>4. found[w] \in Writers /\ linked[found[w]] /\ linked' = linked
    BY <2>1 DEF LinkedInv, Compare
  <2>. QED
    BY <2>3, <2>4, <1>1
<1>4. ASSUME NEW w \in Writers, Published(w), removals' = 0
      PROVE  Published(w)' /\ removals = 0
  BY <1>4, <1>1, DestinationStep, PublicationAssumption DEF TypeOK
<1>5. ASSUME NEW w \in Writers, Collides(w)
      PROVE  Collides(w)'
  <2>1. PICK v \in Writers : linked[v] /\ payload[v] # payload[w]
    BY <1>5
  <2>2. linked'[v]
    BY <2>1, DestinationStep DEF TypeOK
  <2>. QED
    BY <2>1, <2>2, <1>1
<1>6. removals' = 0 => removals = 0
  BY DestinationStep, PublicationAssumption DEF TypeOK
<1>7. OutcomesAreTrue <=>
          \A w \in Writers : /\ removals = 0 /\ outcome[w] = "published" => Published(w)
                             /\ outcome[w] = "collision" => Collides(w)
  BY DEF OutcomesAreTrue
<1>8. OutcomesAreTrue' <=>
          \A w \in Writers : /\ removals' = 0 /\ outcome'[w] = "published" => Published(w)'
                             /\ outcome'[w] = "collision" => Collides(w)'
  BY DEF OutcomesAreTrue
<1>. HIDE DEF Published, Collides
<1>. QED
  BY <1>2, <1>3, <1>4, <1>5, <1>6, <1>7, <1>8

-----------------------------------------------------------------------------
(* How far a call is from its end.                                         *)

(* The measure of a place and a number of failed attempts.                 *)
Left(at, n) ==
    CASE at = "done" -> 0
      [] at = "cleanup" -> 1
      [] OTHER -> 4 * (Retries - n)
                    + [write |-> 2, link |-> 1, stat |-> 0, open |-> -1,
                       compare |-> -2][at]

LEMMA LeftValues ==
    ASSUME NEW n \in Nat
    PROVE  /\ Left("write", n) = 4 * (Retries - n) + 2
           /\ Left("link", n) = 4 * (Retries - n) + 1
           /\ Left("stat", n) = 4 * (Retries - n)
           /\ Left("open", n) = 4 * (Retries - n) - 1
           /\ Left("compare", n) = 4 * (Retries - n) - 2
           /\ Left("cleanup", n) = 1
           /\ Left("done", n) = 0
  BY PublicationAssumption DEF Left

(* A step of one writer: where it goes, and whether its attempt has failed. *)
Advances(w) ==
    \/ pc[w] = "write" /\ pc'[w] = "link" /\ failed'[w] = failed[w]
    \/ pc[w] = "link" /\ pc'[w] = "stat" /\ failed'[w] = failed[w]
    \/ pc[w] = "stat" /\ pc'[w] = "open" /\ failed'[w] = failed[w]
    \/ pc[w] = "open" /\ pc'[w] = "compare" /\ failed'[w] = failed[w]
    \/ /\ pc[w] \in {"stat", "open", "compare"} /\ pc'[w] = "link"
       /\ failed'[w] = failed[w] + 1
    \/ pc[w] \in Trying /\ pc'[w] = "cleanup"
    \/ pc[w] # "done" /\ pc'[w] = "done"

(* One writer moves, or none.                                              *)
LEMMA PlaceStep ==
    ASSUME TypeOK, [Next]_vars
    PROVE  \A v \in Writers : \/ pc'[v] = pc[v] /\ failed'[v] = failed[v]
                              \/ Advances(v)
<1>1. CASE UNCHANGED vars \/ Remove
  BY <1>1 DEF vars, Remove
<1>2. ASSUME NEW w \in Writers, Publish(w) \/ Raise(w) \/ Kill(w)
      PROVE  /\ Advances(w)
             /\ \A v \in Writers \ {w} : pc'[v] = pc[v] /\ failed'[v] = failed[v]
  <2>1. CASE WriteTemporary(w) \/ Link(w)
    BY <2>1 DEF TypeOK, WriteTemporary, Link, Goto, End, Advances, Trying
  <2>2. CASE Stat(w)
    BY <2>2 DEF TypeOK, Stat, AttemptFails, Goto, End, Advances, Trying
  <2>3. CASE Open(w)
    BY <2>3 DEF TypeOK, Open, AttemptFails, Goto, End, Advances, Trying
  <2>4. CASE Compare(w)
    BY <2>4 DEF TypeOK, Compare, AttemptFails, Goto, End, Advances, Trying
  <2>5. CASE RemoveTemporary(w) \/ Raise(w) \/ Kill(w)
    BY <2>5 DEF TypeOK, RemoveTemporary, Raise, Kill, Goto, End, Advances, Trying
  <2>. QED
    BY <1>2, <2>1, <2>2, <2>3, <2>4, <2>5 DEF Publish
<1>3. CASE \E w \in Writers : Publish(w) \/ Raise(w) \/ Kill(w)
  <2>1. PICK w \in Writers : Publish(w) \/ Raise(w) \/ Kill(w)
    BY <1>3
  <2>2. /\ Advances(w)
        /\ \A v \in Writers \ {w} : pc'[v] = pc[v] /\ failed'[v] = failed[v]
    BY <2>1, <1>2
  <2>3. \A v \in Writers : v = w \/ v \in Writers \ {w}
    OBVIOUS
  <2>. QED
    BY <2>2, <2>3, Zenon
<1>. QED
  BY <1>1, <1>3 DEF Next

(* What is left is a number, and each step of the writer's own uses it up.  *)
LEMMA WaitFreeStep ==
    ASSUME PublicationInv, [Next]_vars, NEW w \in Writers
    PROVE  IF pc'[w] = pc[w] THEN StepsLeft(w)' = StepsLeft(w)
                             ELSE StepsLeft(w)' \in 0 .. StepsLeft(w) - 1
<1>1. StepsLeft(w) = Left(pc[w], failed[w]) /\ StepsLeft(w)' = Left(pc'[w], failed'[w])
  BY DEF StepsLeft, Left
<1>2. TypeOK /\ TypeOK' /\ CountInv
  BY TypeStep DEF PublicationInv
<1>3. failed[w] \in Nat /\ failed'[w] \in Nat /\ failed[w] <= Retries
  BY <1>2, PublicationAssumption DEF TypeOK
<1>4. pc[w] \in Trying => failed[w] + 1 <= Retries
  BY <1>2, <1>3, PublicationAssumption DEF CountInv
<1>5. CASE pc'[w] = pc[w] /\ failed'[w] = failed[w]
  BY <1>1, <1>5
<1>6. CASE Advances(w)
  <2>1. CASE pc[w] = "write"
    BY <1>1, <1>3, <1>4, <1>6, <2>1, LeftValues, PublicationAssumption
    DEF Advances, Trying
  <2>2. CASE pc[w] = "link"
    BY <1>1, <1>3, <1>4, <1>6, <2>2, LeftValues, PublicationAssumption
    DEF Advances, Trying
  <2>3. CASE pc[w] = "stat"
    BY <1>1, <1>3, <1>4, <1>6, <2>3, LeftValues, PublicationAssumption
    DEF Advances, Trying
  <2>4. CASE pc[w] = "open"
    BY <1>1, <1>3, <1>4, <1>6, <2>4, LeftValues, PublicationAssumption
    DEF Advances, Trying
  <2>5. CASE pc[w] = "compare"
    BY <1>1, <1>3, <1>4, <1>6, <2>5, LeftValues, PublicationAssumption
    DEF Advances, Trying
  <2>6. CASE pc[w] = "cleanup"
    BY <1>1, <1>3, <1>6, <2>6, LeftValues DEF Advances, Trying
  <2>. QED
    BY <1>2, <1>6, <2>1, <2>2, <2>3, <2>4, <2>5, <2>6 DEF TypeOK, Advances, Trying
<1>7. (pc'[w] = pc[w] /\ failed'[w] = failed[w]) \/ Advances(w)
  BY <1>2, PlaceStep
<1>. QED
  BY <1>5, <1>6, <1>7

-----------------------------------------------------------------------------
(* The file without its names and looks.                                   *)

(* A call that ends is answered, one that goes on is not.                   *)
LEMMA EndIsAnswer ==
    ASSUME CountInv, NEW w \in Writers, pc[w] \in Trying, NEW how, End(w, how),
           UNCHANGED arguments
    PROVE  Atomic!Answer(w, how)
  BY DEF CountInv, End, Atomic!Answer, arguments

(* Nothing of the destination changed, so the file did not.                 *)
LEMMA ContentStays ==
    ASSUME UNCHANGED <<leaf, payload>>
    PROVE  Content' = Content
  BY DEF Content

LEMMA QuietIsAtomic ==
    ASSUME UNCHANGED <<leaf, arguments, outcome>>
    PROVE  UNCHANGED Atomic!vars
  BY ContentStays DEF arguments, Atomic!vars

(* A failed attempt says nothing, and the last one gives up.                *)
LEMMA AttemptIsAtomic ==
    ASSUME CountInv, NEW w \in Writers, pc[w] \in Trying, AttemptFails(w),
           UNCHANGED <<destination, arguments>>
    PROVE  [Atomic!Next]_(Atomic!vars)
<1>1. CASE End(w, "race")
  BY <1>1, EndIsAnswer, ContentStays
     DEF destination, arguments, Atomic!Next, Atomic!GiveUp
<1>2. CASE UNCHANGED outcome
  BY <1>2, QuietIsAtomic DEF destination
<1>. QED
  BY <1>1, <1>2 DEF AttemptFails

LEMMA IrregularIsRead ==
    ASSUME CountInv, NEW w \in Writers, pc[w] \in Trying, leaf = Irregular,
           End(w, "irregular"), UNCHANGED <<destination, arguments>>
    PROVE  [Atomic!Next]_(Atomic!vars)
<1>1. Content = Irregular /\ Content' = Content
  BY PublicationAssumption, ContentStays DEF Content, destination, arguments
<1>. QED
  BY <1>1, EndIsAnswer DEF Atomic!Next, Atomic!Read

LEMMA StepIsAtomic ==
    ASSUME PublicationInv, [Next]_vars
    PROVE  [Atomic!Next]_(Atomic!vars)
<1>. USE DEF PublicationInv
<1>1. ASSUME NEW w \in Writers, Link(w) PROVE [Atomic!Next]_(Atomic!vars)
  <2>1. pc[w] \in Trying
    BY <1>1 DEF Link, Trying
  <2>2. CASE leaf = Absent
    <3>1. Content = Absent /\ Content' = payload[w]
      BY <1>1, <2>2, PublicationAssumption DEF Link, Content, arguments
    <3>. QED
      BY <1>1, <2>1, <2>2, <3>1, EndIsAnswer DEF Link, Atomic!Next, Atomic!Create
  <2>3. CASE leaf # Absent
    BY <1>1, <2>3, QuietIsAtomic DEF Link
  <2>. QED
    BY <2>2, <2>3
<1>2. ASSUME NEW w \in Writers, Stat(w) PROVE [Atomic!Next]_(Atomic!vars)
  <2>1. pc[w] \in Trying /\ UNCHANGED <<destination, arguments>>
    BY <1>2 DEF Stat, Trying
  <2>2. CASE AttemptFails(w)
    BY <2>1, <2>2, AttemptIsAtomic
  <2>3. CASE leaf = Irregular /\ End(w, "irregular")
    BY <2>1, <2>3, IrregularIsRead
  <2>4. CASE UNCHANGED outcome
    BY <2>1, <2>4, QuietIsAtomic DEF destination
  <2>. QED
    BY <1>2, <2>2, <2>3, <2>4 DEF Stat
<1>3. ASSUME NEW w \in Writers, Open(w) PROVE [Atomic!Next]_(Atomic!vars)
  <2>1. pc[w] \in Trying /\ UNCHANGED <<destination, arguments>>
    BY <1>3 DEF Open, Trying
  <2>2. CASE AttemptFails(w)
    BY <2>1, <2>2, AttemptIsAtomic
  <2>3. CASE leaf = Irregular /\ End(w, "irregular")
    BY <2>1, <2>3, IrregularIsRead
  <2>4. CASE UNCHANGED outcome
    BY <2>1, <2>4, QuietIsAtomic DEF destination
  <2>. QED
    BY <1>3, <2>2, <2>3, <2>4 DEF Open
<1>4. ASSUME NEW w \in Writers, Compare(w) PROVE [Atomic!Next]_(Atomic!vars)
  <2>1. pc[w] \in Trying /\ UNCHANGED <<destination, arguments>>
    BY <1>4 DEF Compare, Trying
  <2>2. CASE AttemptFails(w)
    BY <2>1, <2>2, AttemptIsAtomic
  <2>3. CASE leaf = Irregular /\ End(w, "irregular")
    BY <2>1, <2>3, IrregularIsRead
  <2>4. CASE leaf = found[w] /\ End(w, Verdict(w))
    <3>1. leaf \in Writers /\ payload[leaf] \in Payloads
      BY <1>4, <2>4 DEF Compare, LinkedInv, TypeOK
    <3>2. Content = payload[found[w]] /\ Content \in Payloads /\ Content' = Content
      BY <2>1, <2>4, <3>1, ContentStays DEF Content, destination, arguments
    <3>3. Atomic!Answer(w, Verdict(w))
      BY <2>1, <2>4, EndIsAnswer
    <3>4. CASE ~consistent[w]
      BY <3>2, <3>3, <3>4 DEF Verdict, Atomic!Next, Atomic!Read
    <3>5. CASE consistent[w] /\ Content = payload[w]
      BY <3>2, <3>3, <3>5 DEF Verdict, Atomic!Next, Atomic!Read
    <3>6. CASE consistent[w] /\ Content # payload[w]
      BY <3>2, <3>3, <3>6 DEF Verdict, Atomic!Next, Atomic!Read
    <3>. QED
      BY <3>4, <3>5, <3>6
  <2>. QED
    BY <1>4, <2>2, <2>3, <2>4 DEF Compare
<1>5. ASSUME NEW w \in Writers, outcome' = [outcome EXCEPT ![w] = "error"],
             UNCHANGED <<leaf, arguments>>
      PROVE  [Atomic!Next]_(Atomic!vars)
  BY <1>5, ContentStays DEF arguments, Atomic!Next, Atomic!Fail
<1>6. ASSUME NEW w \in Writers, RemoveTemporary(w) \/ Raise(w) \/ Kill(w)
      PROVE  [Atomic!Next]_(Atomic!vars)
  <2>1. UNCHANGED <<leaf, arguments>>
    BY <1>6 DEF RemoveTemporary, Raise, Kill, destination
  <2>2. CASE outcome' = outcome
    BY <2>1, <2>2, QuietIsAtomic
  <2>3. CASE outcome' = [outcome EXCEPT ![w] = "error"]
    BY <1>5, <2>1, <2>3
  <2>. QED
    BY <1>6, <2>2, <2>3 DEF RemoveTemporary, Raise, Kill, End
<1>7. ASSUME NEW w \in Writers, WriteTemporary(w) PROVE [Atomic!Next]_(Atomic!vars)
  BY <1>7, QuietIsAtomic DEF WriteTemporary, destination
<1>8. ASSUME Remove PROVE [Atomic!Next]_(Atomic!vars)
  <2>1. Content' = Absent
    BY <1>8, PublicationAssumption DEF Remove, Content
  <2>. QED
    BY <1>8, <2>1 DEF Remove, arguments, Atomic!Next, Atomic!Remove
<1>9. ASSUME UNCHANGED vars PROVE [Atomic!Next]_(Atomic!vars)
  BY <1>9, QuietIsAtomic DEF vars, destination
<1>. QED
  BY <1>1, <1>2, <1>3, <1>4, <1>6, <1>7, <1>8, <1>9 DEF Next, Publish

LEMMA InitIsAtomic == Init => Atomic!Init
  BY PublicationAssumption DEF Init, Atomic!Init, Content

-----------------------------------------------------------------------------
(* The theorems.                                                           *)

(* The inductive invariant: types, what is linked, the count of changes and *)
(* the truth of the outcomes.                                              *)
THEOREM PublicationInvariant == Spec => []PublicationInv
<1>1. PublicationInv /\ [Next]_vars => PublicationInv'
  BY TypeStep, LinkedStep, CountStep, OutcomesStep DEF PublicationInv
<1>. QED
  BY InitialInv, <1>1, PTL DEF Spec

(* The writers' state stays well-typed.                                    *)
THEOREM PublicationTypeCorrect == Spec => []TypeOK
<1>1. PublicationInv => TypeOK
  BY DEF PublicationInv
<1>. QED
  BY <1>1, PublicationInvariant, PTL

(* A call that returns tells the truth: its bytes are at the destination, it *)
(* has made it itself if it had to, and a collision is with other bytes.   *)
THEOREM PublishedIsThere == Spec => []OutcomesAreTrue
<1>1. PublicationInv => OutcomesAreTrue
  BY DEF PublicationInv
<1>. QED
  BY <1>1, PublicationInvariant, PTL

(* A call that gives up has seen one change for each of its attempts.      *)
THEOREM RacesAreReal == Spec => []OnlyInstabilityRaces
<1>1. PublicationInv => OnlyInstabilityRaces
  <2>. SUFFICES ASSUME PublicationInv, NEW w \in Writers, outcome[w] = "race"
                PROVE  removals + Cardinality(unlinked) >= Retries
    BY DEF OnlyInstabilityRaces
  <2>1. Changes \in Nat
    BY ChangesCount DEF PublicationInv
  <2>2. failed[w] <= Changes /\ failed[w] = Retries
    BY DEF PublicationInv, CountInv
  <2>. QED
    BY <2>1, <2>2, PublicationAssumption DEF Changes
<1>. QED
  BY <1>1, PublicationInvariant, PTL

(* Publishing is wait-free: a call ends within 4 * Retries + 2 of its own   *)
(* steps, and no step of another writer or of who removes the file adds one. *)
THEOREM PublicationIsWaitFree == Spec => CallsAreWaitFree
<1>1. PublicationInv /\ [Next]_vars =>
          [\A w \in Writers :
              IF pc'[w] = pc[w] THEN StepsLeft(w)' = StepsLeft(w)
                                ELSE StepsLeft(w)' \in 0 .. StepsLeft(w) - 1]_vars
  BY WaitFreeStep
<1>. QED
  BY <1>1, PublicationInvariant, PTL DEF Spec, CallsAreWaitFree

(* Racing publications, removals included, are those of one file that each *)
(* call meets at one instant and nobody replaces                           *)
(* (immutable_publication.py:102, :153).                                   *)
THEOREM PublicationIsLinearizable == Spec => ImplementsAtomicFile
<1>1. PublicationInv /\ [Next]_vars => [Atomic!Next]_(Atomic!vars)
  BY StepIsAtomic
<1>. QED
  BY <1>1, InitIsAtomic, PublicationInvariant, PTL
     DEF Spec, ImplementsAtomicFile, Atomic!Spec
=============================================================================
