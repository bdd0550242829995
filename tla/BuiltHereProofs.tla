-------------------------- MODULE BuiltHereProofs --------------------------
(***************************************************************************)
(* Whatever the source holds at each scan, wherever a run stops and what   *)
(* the website refuses: a key names one command, the ledger of versions    *)
(* agrees with the website, and the cursor of a scan passes only what was  *)
(* delivered or filed.                                                     *)
(***************************************************************************)
EXTENDS BuiltHereRunner, FiniteSetTheorems, TLAPS

-----------------------------------------------------------------------------
(* Last and first of a set of numbers. *)

Ends(S) == (\E x \in S : \A y \in S : x <= y) /\ (\E x \in S : \A y \in S : x >= y)

\* A finite set of numbers has ends: those of the set without some member, or that member.
LEMMA EndsExist ==
  ASSUME NEW S \in SUBSET Nat, IsFiniteSet(S), S # {}
  PROVE  Ends(S)
<1> DEFINE Endless == {T \in SUBSET S : T # {} /\ ~Ends(T)}
<1>1. Endless = {}
  <2> SUFFICES ASSUME Endless # {} PROVE FALSE
    OBVIOUS
  <2>1. FiniteSubsetsOf(S) = SUBSET S
    BY FS_FiniteSubsetsOfFinite
  <2>2. PICK T \in Endless : \A U \in Endless : <<U, T>> \notin StrictSubsetOrdering(S)
    <3>1. IsWellFoundedOn(StrictSubsetOrdering(S), SUBSET S)
      BY <2>1, FS_StrictSubsetOrderingWellFounded
    <3>2. Endless \subseteq SUBSET S
      OBVIOUS
    <3> HIDE DEF Endless
    <3> QED BY <3>1, <3>2, WFMin
  <2>3. PICK x \in T : TRUE
    OBVIOUS
  <2>4. PICK U : U = T \ {x}
    OBVIOUS
  <2>5. U \notin Endless
    <3>1. U \in SUBSET S /\ T \in SUBSET S /\ U \subseteq T /\ U # T
      BY <2>3, <2>4
    <3>2. <<U, T>> \in StrictSubsetOrdering(S)
      BY <3>1 DEF StrictSubsetOrdering
    <3> QED BY <2>2, <3>2
  <2>6. T \subseteq Nat /\ x \in Nat /\ T = U \cup {x} /\ ~Ends(T)
    BY <2>3, <2>4
  <2>7. CASE U = {}
    BY <2>6, <2>7 DEF Ends
  <2>8. CASE U # {}
    <3>1. Ends(U)
      BY <2>4, <2>5, <2>8
    <3>2. PICK low \in U : \A y \in U : low <= y
      BY <3>1 DEF Ends
    <3>3. PICK high \in U : \A y \in U : high >= y
      BY <3>1 DEF Ends
    <3>4. \E z \in T : \A y \in T : z <= y
      <4>1. CASE x <= low
        BY <2>6, <3>2, <4>1
      <4>2. CASE ~(x <= low)
        BY <2>6, <3>2, <4>2
      <4> QED BY <4>1, <4>2
    <3>5. \E z \in T : \A y \in T : z >= y
      <4>1. CASE x >= high
        BY <2>6, <3>3, <4>1
      <4>2. CASE ~(x >= high)
        BY <2>6, <3>3, <4>2
      <4> QED BY <4>1, <4>2
    <3> QED BY <2>6, <3>4, <3>5 DEF Ends
  <2> QED BY <2>7, <2>8
<1> QED BY <1>1

\* The set of the ids of a page, or of some of them.
Finite(S) == S \subseteq Nat /\ IsFiniteSet(S)

LEMMA FiniteParts ==
  ASSUME NEW S, Finite(S), NEW T \in SUBSET S
  PROVE  Finite(T)
BY FS_Subset DEF Finite

LEMMA MaxOf ==
  ASSUME NEW S, Finite(S), S # {}
  PROVE  Max(S) \in S /\ \A x \in S : x <= Max(S)
<1>1. S \in SUBSET Nat /\ Ends(S)
  BY EndsExist DEF Finite
<1>2. \E x \in S : \A y \in S : x >= y
  BY <1>1 DEF Ends
<1>3. Max(S) \in S /\ \A y \in S : Max(S) >= y
  BY <1>2 DEF Max
<1> QED BY <1>1, <1>3

\* A member that no other exceeds is the last.
LEMMA MaxIs ==
  ASSUME NEW S, Finite(S), NEW m \in S, \A x \in S : x <= m
  PROVE  Max(S) = m
<1>1. Max(S) \in S /\ m <= Max(S) /\ Max(S) <= m
  BY MaxOf
<1>2. Max(S) \in Nat /\ m \in Nat
  BY <1>1 DEF Finite
<1> QED BY <1>1, <1>2

LEMMA FirstOf ==
  ASSUME NEW S, Finite(S), S # {}
  PROVE  \E x \in S : \A y \in S : x <= y
<1>1. S \in SUBSET Nat /\ Ends(S)
  BY EndsExist DEF Finite
<1> QED BY <1>1 DEF Ends

-----------------------------------------------------------------------------
(* Writes over versions. *)

Versions == [Identity -> Version \cup {None}]

\* Writes for identity i.
Of(writes, i) == {o \in DOMAIN writes : writes[o].identity = i}

LEMMA OverlaidAt ==
  ASSUME NEW versions, NEW writes, NEW i \in Identity
  PROVE  /\ Of(writes, i) = {} => Overlaid(versions, writes)[i] = versions[i]
         /\ Of(writes, i) # {} =>
              Overlaid(versions, writes)[i] = writes[Max(Of(writes, i))].version
BY DEF Overlaid, Of

LEMMA OverlaidTyped ==
  ASSUME NEW versions \in Versions, NEW writes, Finite(DOMAIN writes),
         \A o \in DOMAIN writes : writes[o] \in Record
  PROVE  Overlaid(versions, writes) \in Versions
<1>1. ASSUME NEW i \in Identity
      PROVE  Overlaid(versions, writes)[i] \in Version \cup {None}
  <2>1. CASE Of(writes, i) = {}
    BY <2>1, OverlaidAt DEF Versions
  <2>2. CASE Of(writes, i) # {}
    <3>1. Finite(Of(writes, i))
      BY FiniteParts DEF Of
    <3>2. Max(Of(writes, i)) \in DOMAIN writes
      BY <2>2, <3>1, MaxOf DEF Of
    <3>3. writes[Max(Of(writes, i))].version \in Version
      BY <3>2 DEF Record
    <3> QED BY <2>2, <3>3, OverlaidAt
  <2> QED BY <2>1, <2>2
<1>2. DOMAIN Overlaid(versions, writes) = Identity
      /\ Overlaid(versions, writes) = [i \in Identity |-> Overlaid(versions, writes)[i]]
  BY DEF Overlaid
<1> QED BY <1>1, <1>2 DEF Versions

\* No writes.
LEMMA OverlaidByNothing ==
  ASSUME NEW versions \in Versions, NEW writes, DOMAIN writes = {}
  PROVE  Overlaid(versions, writes) = versions
<1>1. \A i \in Identity : Overlaid(versions, writes)[i] = versions[i]
  BY OverlaidAt DEF Of
<1>2. Overlaid(versions, writes) = [i \in Identity |-> Overlaid(versions, writes)[i]]
  BY DEF Overlaid
<1> QED BY <1>1, <1>2 DEF Versions

\* Writes of a part, and then of a later part, are the writes of both.
LEMMA OverlaidInParts ==
  ASSUME NEW versions \in Versions, NEW writes, Finite(DOMAIN writes),
         NEW S \in SUBSET DOMAIN writes, NEW T \in SUBSET DOMAIN writes,
         \A s \in S, t \in T : s < t,
         NEW first, DOMAIN first = S, \A s \in S : first[s] = writes[s],
         NEW then, DOMAIN then = T, \A t \in T : then[t] = writes[t],
         NEW both, DOMAIN both = S \cup T, \A s \in S \cup T : both[s] = writes[s]
  PROVE  Overlaid(Overlaid(versions, first), then) = Overlaid(versions, both)
<1>1. ASSUME NEW i \in Identity
      PROVE  Overlaid(Overlaid(versions, first), then)[i] = Overlaid(versions, both)[i]
  <2> DEFINE A == Of(first, i)
             B == Of(then, i)
             AB == Of(both, i)
  <2>1. AB = A \cup B /\ A \subseteq S /\ B \subseteq T
    BY DEF Of
  <2>2. Finite(A) /\ Finite(B) /\ Finite(AB)
    <3>1. A \subseteq DOMAIN writes /\ B \subseteq DOMAIN writes /\ AB \subseteq DOMAIN writes
      BY <2>1
    <3> HIDE DEF A, B, AB
    <3> QED BY <3>1, FiniteParts
  <2>3. CASE B = {}
    <3>1. AB = A
      BY <2>1, <2>3
    <3>2. Overlaid(Overlaid(versions, first), then)[i] = Overlaid(versions, first)[i]
      BY <2>3, OverlaidAt
    <3>3. CASE A = {}
      <4>1. Overlaid(versions, first)[i] = versions[i] /\ Overlaid(versions, both)[i] = versions[i]
        BY <3>1, <3>3, OverlaidAt
      <4> QED BY <3>2, <4>1
    <3>4. CASE A # {}
      <4>1. Overlaid(versions, first)[i] = first[Max(A)].version
            /\ Overlaid(versions, both)[i] = both[Max(A)].version
        BY <3>1, <3>4, OverlaidAt
      <4>2. Max(A) \in A
        BY <2>2, <3>4, MaxOf
      <4>3. Max(A) \in S
        BY <2>1, <4>2
      <4> QED BY <3>2, <4>1, <4>3
    <3> QED BY <3>3, <3>4
  <2>4. CASE B # {}
    <3>1. Max(B) \in B /\ \A x \in B : x <= Max(B)
      BY <2>2, <2>4, MaxOf
    <3>2. Max(B) \in AB /\ AB # {} /\ Max(B) \in T
      BY <2>1, <3>1
    <3>3. \A x \in AB : x <= Max(B)
      <4>1. A \subseteq Nat /\ B \subseteq Nat
        BY <2>2 DEF Finite
      <4> QED BY <2>1, <3>1, <3>2, <4>1
    <3>4. Max(AB) = Max(B)
      BY <2>2, <3>2, <3>3, MaxIs
    <3>5. Overlaid(Overlaid(versions, first), then)[i] = then[Max(B)].version
      BY <2>4, OverlaidAt
    <3>6. Overlaid(versions, both)[i] = both[Max(B)].version
      BY <3>2, <3>4, OverlaidAt
    <3> QED BY <3>2, <3>5, <3>6
  <2> QED BY <2>3, <2>4
<1>2. /\ Overlaid(Overlaid(versions, first), then)
           = [i \in Identity |-> Overlaid(Overlaid(versions, first), then)[i]]
      /\ Overlaid(versions, both) = [i \in Identity |-> Overlaid(versions, both)[i]]
  BY DEF Overlaid
<1> QED BY <1>1, <1>2

-----------------------------------------------------------------------------
(* A page and the commands made of it. *)

Pages(ids) == [ids -> Record \cup {Malformed, Gone}]

\* The records of identity i before o.
Earlier(page, i, o) == {p \in Records(page) : page[p].identity = i /\ p < o}

LEMMA RecordsTyped ==
  ASSUME NEW ids, Finite(ids), NEW page \in Pages(ids)
  PROVE  /\ Finite(Records(page)) /\ Records(page) \subseteq ids
         /\ \A o \in Records(page) : /\ page[o] \in Record
                                     /\ page[o].identity \in Identity
                                     /\ page[o].version \in Version
<1>1. Records(page) \subseteq ids
  BY DEF Records, Pages
<1>2. \A o \in Records(page) : page[o] \in Record
  BY DEF Records, Pages
<1> QED BY <1>1, <1>2, FiniteParts DEF Record

\* What a record is compared with.
LEMMA UnchangedMeans ==
  ASSUME NEW ids, Finite(ids), NEW page \in Pages(ids), NEW versions \in Versions,
         NEW i \in Identity, NEW o \in Records(page), page[o].identity = i
  PROVE  Unchanged(versions, page, o) <=>
           page[o].version = IF Earlier(page, i, o) = {} THEN versions[i]
                             ELSE page[Max(Earlier(page, i, o))].version
<1> DEFINE before == Restrict(page, {p \in Records(page) : p < o})
<1>1. Of(before, i) = Earlier(page, i, o)
  BY DEF Of, Earlier, Restrict
<1>2. Unchanged(versions, page, o) <=> Overlaid(versions, before)[i] = page[o].version
  BY DEF Unchanged
<1>3. Finite(Earlier(page, i, o))
  BY RecordsTyped, FiniteParts DEF Earlier
<1>4. CASE Earlier(page, i, o) = {}
  <2>1. Overlaid(versions, before)[i] = versions[i]
    <3> HIDE DEF before
    <3> QED BY <1>1, <1>4, OverlaidAt
  <2> QED BY <1>2, <1>4, <2>1
<1>5. CASE Earlier(page, i, o) # {}
  <2>1. Overlaid(versions, before)[i] = before[Max(Earlier(page, i, o))].version
    <3> HIDE DEF before
    <3> QED BY <1>1, <1>5, OverlaidAt
  <2>2. Max(Earlier(page, i, o)) \in Earlier(page, i, o)
    BY <1>3, <1>5, MaxOf
  <2>3. before[Max(Earlier(page, i, o))] = page[Max(Earlier(page, i, o))]
    BY <2>2 DEF Earlier, Restrict
  <2> QED BY <1>2, <1>5, <2>1, <2>3
<1> QED BY <1>4, <1>5

\* Once the commands that are not refused are applied, an identity has the version of the
\* last of its records that is not refused: where that record had no command, the ones
\* between it and the last command, or the first, have the same version.
LEMMA PageDelivered ==
  ASSUME NEW ids, Finite(ids), NEW page \in Pages(ids), NEW versions \in Versions,
         NEW i \in Identity,
         NEW good, good = {o \in Records(page) : page[o].identity = i
                                                   /\ page[o].version \notin Refused},
         good # {},
         NEW applied, DOMAIN applied = {o \in Records(page) :
                                          /\ ~Unchanged(versions, page, o)
                                          /\ page[o].version \notin Refused},
         \A o \in DOMAIN applied : applied[o] = page[o]
  PROVE  Overlaid(versions, applied)[i] = page[Max(good)].version
<1>1. Finite(Records(page)) /\ Finite(good)
  BY RecordsTyped, FiniteParts
<1>2. PICK m \in good : m = Max(good) /\ \A x \in good : x <= m
  BY <1>1, MaxOf
<1>3. PICK v : v = page[m].version
  OBVIOUS
<1>4. m \in Records(page) /\ page[m].identity = i /\ v \notin Refused
  BY <1>2, <1>3
<1>5. Records(page) \subseteq Nat
  BY <1>1 DEF Finite
\* The records of the identity from which on, up to m, all have the version of m.
<1> DEFINE Run == {o \in Records(page) :
                     /\ page[o].identity = i /\ o <= m
                     /\ \A p \in Records(page) :
                          page[p].identity = i /\ o <= p /\ p <= m => page[p].version = v}
<1>6. m \in Run
  <2>1. \A p \in Records(page) : m <= p /\ p <= m => p = m
    BY <1>4, <1>5
  <2>2. m <= m
    BY <1>4, <1>5
  <2> QED BY <1>3, <1>4, <2>1, <2>2
<1>7. PICK n \in Run : \A o \in Run : n <= o
  <2>1. Finite(Run)
    BY <1>1, FiniteParts
  <2> HIDE DEF Run
  <2> QED BY <1>6, <2>1, FirstOf
<1>8. n \in Records(page) /\ page[n].identity = i /\ n <= m /\ page[n].version = v
  <2>1. n <= n
    BY <1>5, <1>7
  <2> QED BY <1>7, <2>1
<1>9. ASSUME NEW k \in Records(page), page[k].identity = i, n < k, k <= m
      PROVE  Unchanged(versions, page, k)
  <2>1. n \in Earlier(page, i, k)
    BY <1>8, <1>9 DEF Earlier
  <2>2. Finite(Earlier(page, i, k))
    BY <1>1, FiniteParts DEF Earlier
  <2>3. PICK q \in Earlier(page, i, k) : q = Max(Earlier(page, i, k)) /\ n <= q
    BY <2>1, <2>2, MaxOf
  <2>4. q \in Records(page) /\ page[q].identity = i /\ q < k
    BY <2>3 DEF Earlier
  <2>5. q <= m /\ n <= k
    BY <1>4, <1>5, <1>8, <1>9, <2>4
  <2>6. page[q].version = v /\ page[k].version = v
    BY <1>7, <1>9, <2>3, <2>4, <2>5
  <2>7. Earlier(page, i, k) # {} /\ page[k].version = page[Max(Earlier(page, i, k))].version
    BY <2>1, <2>3, <2>6
  <2> QED BY <1>9, <2>7, UnchangedMeans
<1>10. \A k \in Of(applied, i) : /\ k \in Records(page) /\ page[k].identity = i
                                 /\ ~Unchanged(versions, page, k) /\ k <= m /\ k <= n
  <2> SUFFICES ASSUME NEW k \in Of(applied, i)
               PROVE  /\ k \in Records(page) /\ page[k].identity = i
                      /\ ~Unchanged(versions, page, k) /\ k <= m /\ k <= n
    OBVIOUS
  <2>1. k \in Records(page) /\ page[k].identity = i /\ ~Unchanged(versions, page, k)
        /\ page[k].version \notin Refused
    BY DEF Of
  <2>2. k <= m
    BY <1>2, <2>1
  <2>3. k \in Nat /\ n \in Nat
    BY <1>5, <1>8, <2>1
  <2>4. ~(n < k)
    BY <1>9, <2>1, <2>2
  <2>5. k <= n
    BY <2>3, <2>4
  <2> QED BY <2>1, <2>2, <2>5
<1>11. CASE n \in Of(applied, i)
  <2>1. Finite(Of(applied, i))
    BY <1>1, <1>10, FiniteParts
  <2>2. Max(Of(applied, i)) = n
    BY <1>10, <1>11, <2>1, MaxIs
  <2>3. applied[n].version = v
    BY <1>8, <1>11 DEF Of
  <2>4. Overlaid(versions, applied)[i] = applied[n].version
    BY <1>11, <2>2, OverlaidAt
  <2> QED BY <1>2, <1>3, <2>3, <2>4
<1>12. CASE n \notin Of(applied, i)
  <2>1. Unchanged(versions, page, n)
    BY <1>4, <1>8, <1>12 DEF Of
  <2>2. Earlier(page, i, n) = {}
    <3> SUFFICES ASSUME Earlier(page, i, n) # {} PROVE FALSE
      OBVIOUS
    <3>1. Finite(Earlier(page, i, n))
      BY <1>1, FiniteParts DEF Earlier
    <3>2. PICK q \in Earlier(page, i, n) : /\ q = Max(Earlier(page, i, n))
                                           /\ \A x \in Earlier(page, i, n) : x <= q
      BY <3>1, MaxOf
    <3>3. q \in Records(page) /\ page[q].identity = i /\ q < n
      BY <3>2 DEF Earlier
    <3>4. page[q].version = v
      BY <1>8, <2>1, <3>2, UnchangedMeans
    <3>5. q <= m
      BY <1>4, <1>5, <1>8, <3>3
    <3>6. ASSUME NEW p \in Records(page), page[p].identity = i, q <= p, p <= m
          PROVE  page[p].version = v
      <4>1. CASE n <= p
        BY <1>7, <3>6, <4>1
      <4>2. CASE ~(n <= p)
        <5>1. p \in Nat /\ n \in Nat /\ q \in Nat
          BY <1>5, <1>8, <3>3
        <5>2. p < n
          BY <4>2, <5>1
        <5>3. p \in Earlier(page, i, n)
          BY <3>6, <5>2 DEF Earlier
        <5>4. p <= q
          BY <3>2, <5>3
        <5>5. p = q
          BY <3>6, <5>1, <5>4
        <5> QED BY <3>4, <5>5
      <4> QED BY <4>1, <4>2
    <3>7. q \in Run
      BY <3>3, <3>5, <3>6
    <3>8. n <= q
      BY <1>7, <3>7
    <3> QED BY <1>5, <1>8, <3>3, <3>8
  <2>3. versions[i] = v
    BY <1>8, <2>1, <2>2, UnchangedMeans
  <2>4. Of(applied, i) = {}
    <3> SUFFICES ASSUME NEW k \in Of(applied, i) PROVE FALSE
      OBVIOUS
    <3>1. k \in Records(page) /\ page[k].identity = i /\ ~Unchanged(versions, page, k) /\ k <= n
      BY <1>10
    <3>2. k # n
      BY <2>1, <3>1
    <3>3. k < n
      BY <1>5, <1>8, <3>1, <3>2
    <3>4. k \in Earlier(page, i, n)
      BY <3>1, <3>3 DEF Earlier
    <3> QED BY <2>2, <3>4
  <2> QED BY <1>2, <1>3, <2>3, <2>4, OverlaidAt
<1> QED BY <1>11, <1>12

-----------------------------------------------------------------------------
(* The invariant. *)

\* A checkpoint.
Shaped(d) ==
  /\ DOMAIN d = {"cycle", "ids", "cursor", "pending", "versions"}
  /\ d.cycle \in Nat /\ d.ids \in Seq(Nat) /\ d.cursor \in 0..Len(d.ids)
  /\ \A i, j \in 1..Len(d.ids) : i < j => d.ids[i] < d.ids[j]
  /\ d.versions \in Versions

\* A page of the ids after the cursor.
PageOf(page, d) == page \in Pages(BatchIds(d)) /\ ~Scanned(d)

Passed(d) == {d.ids[k] : k \in 1..d.cursor}
Accepted(commands) == {o \in DOMAIN commands : commands[o].version \notin Refused}
CommandsOf(c) == disk[c].pending.commands

\* What is applied of the pending batch of a city.
Done(c) == {o \in DOMAIN CommandsOf(c) : <<c, disk[c].cycle, o>> \in DOMAIN sent}

\* A key of this scan is of an id that the cursor passed, or of a pending command.
KeysInv(c) ==
  \A k \in DOMAIN sent : k[1] = c =>
    /\ k = <<c, k[2], k[3]>> /\ k[2] \in 0..disk[c].cycle
    /\ k[2] = disk[c].cycle =>
         \/ k[3] \in Passed(disk[c])
         \/ k[3] \in DOMAIN CommandsOf(c) /\ sent[k] = CommandsOf(c)[k[3]]

\* The website has what the checkpoint's versions and the applied commands come to, and the
\* applied ones are the first of those it does not refuse.
DeliveryInv(c) ==
  /\ Done(c) \subseteq Accepted(CommandsOf(c))
  /\ \A o \in Done(c), q \in Accepted(CommandsOf(c)) : q < o => q \in Done(c)
  /\ ledgerOf[c] = Overlaid(disk[c].versions, Restrict(CommandsOf(c), Done(c)))

\* The pending batch was made of the page that was acquired for it.
BatchInv(c) ==
  Pending(disk[c]) => /\ PageOf(fetched[c], disk[c])
                      /\ disk[c].pending = Batch(disk[c], fetched[c])

CityInv(c) ==
  /\ Shaped(disk[c]) /\ scans[c] = disk[c].cycle
  /\ KeysInv(c) /\ DeliveryInv(c) /\ BatchInv(c)

\* The stages that are complete.
HasAcquired == {"acquire"}
HasTransformed == {"acquire", "transform"}
HasReviewed == {"acquire", "transform", "review"}

InBatch == pc \in {"batch", "isolating", "checkpoint"}

\* Commands are answered in their order, by what the website does with them.
ReceiptsInv ==
  /\ DOMAIN receipts \subseteq DOMAIN Commands
  /\ \A o \in DOMAIN receipts :
       IF o \in Accepted(Commands) THEN receipts[o] = "applied" /\ o \in Done(C)
       ELSE receipts[o] = "rejected"
  /\ \A o \in DOMAIN receipts, q \in DOMAIN Commands : q < o => q \in DOMAIN receipts

\* The ids of the page without a record are in a review file.
Filed ==
  \A o \in DOMAIN fetched[C] \ Records(fetched[C]) :
    \E r \in reviews : /\ r.city = C /\ r.cycle = state.cycle /\ r.start = state.cursor
                       /\ o \in r.quarantine \cup r.missing

\* What the stages hand on.
StagesInv ==
  /\ state = disk[C]
  /\ complete = HasAcquired /\ ~Pending(state) =>
       acquired = fetched[C] /\ PageOf(fetched[C], state)
  /\ complete = HasTransformed /\ Pending(state) => acquired = state.pending
  /\ complete = HasTransformed /\ ~Pending(state) =>
       PageOf(fetched[C], state) /\ acquired = Batch(state, fetched[C])
  /\ complete = HasReviewed => Pending(state) /\ ReceiptsInv
  /\ pc = "checkpoint" => AllAnswered /\ Filed

TablesInv ==
  /\ DOMAIN disk = City /\ DOMAIN ledgerOf = City /\ DOMAIN scans = City
  /\ DOMAIN fetched = City

MemoryInv ==
  /\ city \in 1..Len(Cities)
  /\ pc \in {"idle", "city", "batch", "isolating", "checkpoint", "tips"}
  /\ complete \in {{}, HasAcquired, HasTransformed, HasReviewed}
  /\ ~InBatch => complete = {}
  /\ complete # HasReviewed => receipts = Empty /\ pc \notin {"isolating", "checkpoint"}
  /\ InBatch => StagesInv

RunnerInv == TablesInv /\ MemoryInv /\ \A c \in City : CityInv(c)

-----------------------------------------------------------------------------
(* What follows from it. *)

\* The stages run in the order of the definition.
LEMMA StageOrder ==
  ASSUME complete \in {{}, HasAcquired, HasTransformed, HasReviewed}
  PROVE  /\ At("acquire") => complete = {}
         /\ At("transform") => complete = HasAcquired
         /\ At("review") => complete = HasTransformed
         /\ At("publish") => complete = HasReviewed
<1>1. /\ DependsOn["transform"] = {"acquire"} /\ DependsOn["review"] = {"transform"}
      /\ DependsOn["publish"] = {"review"}
  <2>1. ToSet(Stages) = {"acquire", "transform", "review", "publish"}
    <3>1. \A x : x \in {"acquire", "transform", "review", "publish"} => x \in ToSet(Stages)
      <4>1. DOMAIN Stages = 1..4 /\ Stages[1] = "acquire" /\ Stages[2] = "transform"
            /\ Stages[3] = "review" /\ Stages[4] = "publish"
        BY DEF Stages
      <4> QED BY <4>1 DEF ToSet
    <3>2. \A x \in ToSet(Stages) : x \in {"acquire", "transform", "review", "publish"}
      BY DEF ToSet, Stages
    <3> QED BY <3>1, <3>2
  <2> QED BY <2>1 DEF DependsOn
<1>2. \A s : At(s) => s \notin complete /\ DependsOn[s] \subseteq complete
  BY DEF At, IsNext, Ready
<1>3. At("acquire") => "acquire" \notin complete
  BY <1>2
<1>4. At("transform") => "transform" \notin complete /\ "acquire" \in complete
  BY <1>1, <1>2
<1>5. At("review") => "review" \notin complete /\ "transform" \in complete
  BY <1>1, <1>2
<1>6. At("publish") => "review" \in complete
  BY <1>1, <1>2
<1> QED BY <1>3, <1>4, <1>5, <1>6 DEF HasAcquired, HasTransformed, HasReviewed

LEMMA CityTyped ==
  ASSUME MemoryInv
  PROVE  C \in City
<1>1. C = Cities[city] /\ city \in DOMAIN Cities
  BY RunnerAssumption DEF MemoryInv, C
<1> QED BY <1>1 DEF City, ToSet

\* The next ids lie behind the cursor.
LEMMA EndTyped ==
  ASSUME NEW d, Shaped(d), ~Scanned(d)
  PROVE  End(d) \in Nat /\ d.cursor < End(d) /\ End(d) <= Len(d.ids)
<1>1. PICK n \in Nat : n = d.cursor
  BY DEF Shaped
<1>2. PICK l \in Nat : l = Len(d.ids)
  BY DEF Shaped
<1>3. n < l
  BY <1>1, <1>2 DEF Shaped, Scanned
<1> QED BY <1>1, <1>2, <1>3, RunnerAssumption DEF End

LEMMA BatchIdsTyped ==
  ASSUME NEW d, Shaped(d), ~Scanned(d)
  PROVE  /\ Finite(BatchIds(d))
         /\ BatchIds(d) \cap Passed(d) = {}
         /\ BatchIds(d) \subseteq {d.ids[k] : k \in 1..End(d)}
<1>1. PICK n \in Nat : n = d.cursor
  BY DEF Shaped
<1>2. PICK e \in Nat : e = End(d) /\ n < e /\ e <= Len(d.ids)
  BY <1>1, EndTyped
<1>3. PICK l \in Nat : l = Len(d.ids) /\ DOMAIN d.ids = 1..l
  BY DEF Shaped
<1>4. \A k \in 1..l : d.ids[k] \in Nat
  BY <1>3 DEF Shaped
<1>5. BatchIds(d) = {d.ids[k] : k \in (n + 1)..e} /\ Passed(d) = {d.ids[k] : k \in 1..n}
  BY <1>1, <1>2 DEF BatchIds, Passed
<1>6. \A k \in (n + 1)..e : k \in 1..l /\ k \in 1..e
  BY <1>2, <1>3
<1>7. IsFiniteSet(BatchIds(d))
  <2>1. IsFiniteSet((n + 1)..e)
    BY FS_Interval
  <2>2. PICK f : f = [k \in (n + 1)..e |-> d.ids[k]]
    OBVIOUS
  <2>3. f \in Surjection((n + 1)..e, BatchIds(d))
    BY <1>5, <2>2 DEF Surjection
  <2> QED BY <2>1, <2>3, FS_Surjection
<1>8. BatchIds(d) \cap Passed(d) = {}
  <2> SUFFICES ASSUME NEW j \in (n + 1)..e, NEW k \in 1..n, d.ids[j] = d.ids[k]
               PROVE  FALSE
    BY <1>5
  <2>1. j \in 1..l /\ k \in 1..l /\ k < j
    BY <1>2, <1>3
  <2>2. d.ids[k] < d.ids[j]
    BY <1>3, <2>1 DEF Shaped
  <2>3. d.ids[k] \in Nat
    BY <1>4, <2>1
  <2> QED BY <2>2, <2>3
<1> QED BY <1>2, <1>4, <1>5, <1>6, <1>7, <1>8 DEF Finite

LEMMA CommandsTyped ==
  ASSUME NEW c, CityInv(c)
  PROVE  /\ Finite(DOMAIN CommandsOf(c))
         /\ \A o \in DOMAIN CommandsOf(c) : CommandsOf(c)[o] \in Record
         /\ DOMAIN CommandsOf(c) \cap Passed(disk[c]) = {}
<1>1. CASE ~Pending(disk[c])
  <2>1. CommandsOf(c) = Empty
    BY <1>1 DEF Pending, CommandsOf, NoBatch
  <2>2. DOMAIN CommandsOf(c) = {}
    BY <2>1 DEF Empty
  <2> QED BY <2>2, FS_EmptySet DEF Finite
<1>2. CASE Pending(disk[c])
  <2>1. Shaped(disk[c]) /\ PageOf(fetched[c], disk[c])
        /\ disk[c].pending = Batch(disk[c], fetched[c])
    BY <1>2 DEF CityInv, BatchInv
  <2>2. /\ Finite(BatchIds(disk[c])) /\ BatchIds(disk[c]) \cap Passed(disk[c]) = {}
        /\ fetched[c] \in Pages(BatchIds(disk[c]))
    BY <2>1, BatchIdsTyped DEF PageOf
  <2>3. DOMAIN CommandsOf(c) \subseteq Records(fetched[c])
        /\ \A o \in DOMAIN CommandsOf(c) : CommandsOf(c)[o] = fetched[c][o]
    BY <2>1 DEF CommandsOf, Batch, Restrict
  <2>4. /\ Finite(Records(fetched[c])) /\ Records(fetched[c]) \subseteq BatchIds(disk[c])
        /\ \A o \in Records(fetched[c]) : fetched[c][o] \in Record
    BY <2>2, RecordsTyped
  <2>5. Finite(DOMAIN CommandsOf(c))
    BY <2>3, <2>4, FiniteParts
  <2> QED BY <2>2, <2>3, <2>4, <2>5
<1> QED BY <1>1, <1>2

\* A city of which nothing changes.
LEMMA CityStays ==
  ASSUME NEW c, CityInv(c),
         disk'[c] = disk[c], ledgerOf'[c] = ledgerOf[c], scans'[c] = scans[c],
         Pending(disk[c]) => fetched'[c] = fetched[c],
         \A k : k[1] = c => k \in DOMAIN sent' <=> k \in DOMAIN sent,
         \A k \in DOMAIN sent : k[1] = c => sent'[k] = sent[k]
  PROVE  CityInv(c)' /\ Done(c)' = Done(c)
<1>1. Done(c)' = Done(c) /\ CommandsOf(c)' = CommandsOf(c)
  <2>1. CommandsOf(c)' = CommandsOf(c)
    BY DEF CommandsOf
  <2>2. \A o : <<c, disk[c].cycle, o>>[1] = c
    OBVIOUS
  <2>3. \A o : <<c, disk[c].cycle, o>> \in DOMAIN sent' <=> <<c, disk[c].cycle, o>> \in DOMAIN sent
    BY <2>2
  <2> QED BY <2>1, <2>3 DEF Done
<1>2. KeysInv(c)'
  BY <1>1 DEF CityInv, KeysInv
<1>3. DeliveryInv(c)'
  BY <1>1 DEF CityInv, DeliveryInv
<1>4. BatchInv(c)'
  BY DEF CityInv, BatchInv
<1> QED BY <1>1, <1>2, <1>3, <1>4 DEF CityInv

-----------------------------------------------------------------------------
(* What the steps do to the cities. *)

\* Nothing that cities consist of changes.
LEMMA CitiesStay ==
  ASSUME \A c \in City : CityInv(c), UNCHANGED <<disk, ledgerOf, sent, scans, fetched>>
  PROVE  \A c \in City : CityInv(c)' /\ Done(c)' = Done(c)
BY CityStays

\* Applying the next commands, of those that the website does not refuse.
LEMMA Applies ==
  ASSUME TablesInv, MemoryInv, InBatch, complete = HasReviewed, \A c \in City : CityInv(c),
         NEW commands, DOMAIN commands \subseteq Accepted(Commands),
         \A o \in DOMAIN commands : commands[o] = Commands[o],
         \A o \in DOMAIN commands, q \in Accepted(Commands) :
           q < o => q \in Done(C) \cup DOMAIN commands,
         Applied(commands), UNCHANGED <<disk, scans, fetched, city, state>>
  PROVE  /\ \A c \in City : CityInv(c)'
         /\ Done(C)' = Done(C) \cup DOMAIN commands
<1>1. C \in City /\ C' = C /\ state = disk[C] /\ Pending(state)
  BY CityTyped DEF MemoryInv, StagesInv, C
<1>2. CityInv(C) /\ Shaped(disk[C]) /\ KeysInv(C) /\ DeliveryInv(C) /\ BatchInv(C)
      /\ scans[C] = disk[C].cycle
  BY <1>1 DEF CityInv
<1>3. PICK n : n = disk[C].cycle
  OBVIOUS
<1>4. PICK all : all = CommandsOf(C)
  OBVIOUS
<1>5. Commands = all /\ CommandsOf(C)' = all /\ \A o : Key(o) = <<C, n, o>>
  BY <1>1, <1>3, <1>4 DEF Commands, CommandsOf, Key
<1>6. /\ Finite(DOMAIN all) /\ DOMAIN all \cap Passed(disk[C]) = {}
      /\ \A o \in DOMAIN all : all[o] \in Record
  BY <1>1, <1>2, <1>4, CommandsTyped
<1>7. n \in Nat
  BY <1>2, <1>3 DEF Shaped
<1> DEFINE new == {o \in DOMAIN commands : Key(o) \notin DOMAIN sent}
<1>8. new = DOMAIN commands \ Done(C) /\ DOMAIN commands \subseteq DOMAIN all
  BY <1>1, <1>3, <1>4, <1>5 DEF Done, Accepted
<1>9. PICK fresh : fresh = Restrict(commands, new)
  OBVIOUS
<1>10. DOMAIN fresh = new /\ \A o \in new : fresh[o] = all[o]
  BY <1>5, <1>9 DEF Restrict
<1>11. /\ ledgerOf' = [ledgerOf EXCEPT ![C] = Overlaid(ledgerOf[C], fresh)]
       /\ sent' = [k \in DOMAIN sent \cup {Key(o) : o \in DOMAIN fresh} |->
                     IF k \in DOMAIN sent THEN sent[k] ELSE fresh[k[3]]]
  BY <1>9 DEF Applied
<1> HIDE DEF new
<1>12. PICK keys : keys = {<<C, n, o>> : o \in new}
  OBVIOUS
<1>13. sent' = [k \in DOMAIN sent \cup keys |-> IF k \in DOMAIN sent THEN sent[k] ELSE fresh[k[3]]]
  BY <1>5, <1>10, <1>11, <1>12
<1>14. Done(C)' = Done(C) \cup DOMAIN commands
  <2>1. \A o \in DOMAIN all : <<C, n, o>> \in DOMAIN sent' <=> <<C, n, o>> \in DOMAIN sent \/ o \in new
    BY <1>12, <1>13
  <2>2. Done(C)' = {o \in DOMAIN all : <<C, n, o>> \in DOMAIN sent'}
        /\ Done(C) = {o \in DOMAIN all : <<C, n, o>> \in DOMAIN sent}
    BY <1>1, <1>3, <1>4, <1>5 DEF Done
  <2> QED BY <1>8, <2>1, <2>2
<1>15. ASSUME NEW c \in City, c # C PROVE CityInv(c)'
  <2>1. \A k : k[1] = c => k \notin keys
    BY <1>12, <1>15
  <2>2. /\ \A k : k[1] = c => (k \in DOMAIN sent' <=> k \in DOMAIN sent)
        /\ \A k \in DOMAIN sent : sent'[k] = sent[k]
    BY <1>13, <2>1
  <2>3. ledgerOf'[c] = ledgerOf[c]
    BY <1>11, <1>15
  <2> QED BY <2>2, <2>3, CityStays
<1>16. CityInv(C)'
  <2>1. KeysInv(C)'
    <3> SUFFICES ASSUME NEW k \in DOMAIN sent', k[1] = C
                 PROVE  /\ k = <<C, k[2], k[3]>> /\ k[2] \in 0..n
                        /\ k[2] = n => \/ k[3] \in Passed(disk[C])
                                       \/ k[3] \in DOMAIN all /\ sent'[k] = all[k[3]]
      BY <1>1, <1>3, <1>5 DEF KeysInv
    <3>1. CASE k \in DOMAIN sent
      BY <1>2, <1>3, <1>4, <1>13, <3>1 DEF KeysInv
    <3>2. CASE k \notin DOMAIN sent
      <4>1. PICK o \in new : k = <<C, n, o>>
        BY <1>12, <1>13, <3>2
      <4>2. sent'[k] = fresh[o]
        BY <1>13, <3>2, <4>1
      <4> QED BY <1>7, <1>8, <1>10, <4>1, <4>2
    <3> QED BY <3>1, <3>2
  <2>2. DeliveryInv(C)'
    <3>1. Done(C) \subseteq Accepted(all)
          /\ (\A o \in Done(C), q \in Accepted(all) : q < o => q \in Done(C))
          /\ ledgerOf[C] = Overlaid(disk[C].versions, Restrict(all, Done(C)))
      BY <1>2, <1>4 DEF DeliveryInv
    <3>2. Done(C)' \subseteq Accepted(all)
      BY <1>5, <1>14, <3>1
    <3>3. \A o \in Done(C)', q \in Accepted(all) : q < o => q \in Done(C)'
      BY <1>5, <1>14, <3>1
    <3>4. \A s \in Done(C), t \in new : s < t
      <4> SUFFICES ASSUME NEW s \in Done(C), NEW t \in new PROVE s < t
        OBVIOUS
      <4>1. s \in DOMAIN all /\ t \in DOMAIN all /\ t \in Accepted(all) /\ t \notin Done(C)
        BY <1>4, <1>5, <1>8 DEF Done
      <4>2. s \in Nat /\ t \in Nat
        BY <1>6, <4>1 DEF Finite
      <4>3. ~(t < s) /\ t # s
        BY <3>1, <4>1
      <4> QED BY <4>2, <4>3
    <3>5. PICK first : first = Restrict(all, Done(C))
      OBVIOUS
    <3>6. PICK both : both = Restrict(all, Done(C) \cup new)
      OBVIOUS
    <3>7. /\ DOMAIN first = Done(C) /\ \A s \in Done(C) : first[s] = all[s]
          /\ DOMAIN both = Done(C) \cup new /\ \A s \in Done(C) \cup new : both[s] = all[s]
      BY <3>5, <3>6 DEF Restrict
    <3>8. Done(C) \subseteq DOMAIN all /\ new \subseteq DOMAIN all
      BY <1>4, <1>8 DEF Done
    <3>9. disk[C].versions \in Versions
      BY <1>2 DEF Shaped
    <3>10. Overlaid(Overlaid(disk[C].versions, first), fresh) = Overlaid(disk[C].versions, both)
      BY <1>6, <1>10, <3>4, <3>7, <3>8, <3>9, OverlaidInParts
    <3>11. ledgerOf'[C] = Overlaid(ledgerOf[C], fresh)
      BY <1>1, <1>11 DEF TablesInv
    <3>12. ledgerOf'[C] = Overlaid(disk[C].versions, both)
      BY <3>1, <3>5, <3>10, <3>11
    <3>13. Done(C)' = Done(C) \cup new
      BY <1>8, <1>14
    <3> QED BY <1>1, <1>5, <3>2, <3>3, <3>6, <3>12, <3>13 DEF DeliveryInv
  <2>3. BatchInv(C)'
    BY <1>1, <1>2 DEF BatchInv
  <2> QED BY <1>1, <1>2, <2>1, <2>2, <2>3 DEF CityInv
<1>17. ASSUME NEW c \in City PROVE CityInv(c)'
  BY <1>1, <1>15, <1>16, <1>17
<1> QED BY <1>14, <1>17

-----------------------------------------------------------------------------
(* The steps of a run. *)

LEMMA InitHolds == Init => RunnerInv
<1> SUFFICES ASSUME Init PROVE RunnerInv
  OBVIOUS
<1>1. TablesInv
  BY DEF Init, TablesInv
<1>2. MemoryInv
  <2>1. Len(Cities) \in Nat \ {0}
    BY RunnerAssumption
  <2> QED BY <2>1 DEF Init, MemoryInv, InBatch, HasReviewed
<1>3. ASSUME NEW c \in City PROVE CityInv(c)
  <2>1. disk[c] = NoScan /\ ledgerOf[c] = [i \in Identity |-> None] /\ scans[c] = 0
        /\ DOMAIN sent = {}
    BY DEF Init, Empty
  <2>2. [i \in Identity |-> None] \in Versions
    BY DEF Versions
  <2>3. Shaped(disk[c]) /\ disk[c].cycle = 0
    BY <2>1, <2>2 DEF Shaped, NoScan
  <2>4. DOMAIN CommandsOf(c) = {} /\ disk[c].versions = [i \in Identity |-> None]
        /\ ~Pending(disk[c])
    BY <2>1 DEF CommandsOf, NoScan, NoBatch, Empty, Pending
  <2>5. Done(c) = {}
    BY <2>4 DEF Done
  <2>6. DeliveryInv(c)
    <3>1. DOMAIN Restrict(CommandsOf(c), {}) = {}
      BY DEF Restrict
    <3>2. Overlaid([i \in Identity |-> None], Restrict(CommandsOf(c), {}))
            = [i \in Identity |-> None]
      BY <2>2, <3>1, OverlaidByNothing
    <3> QED BY <2>1, <2>4, <2>5, <3>2 DEF DeliveryInv
  <2> QED BY <2>1, <2>3, <2>4, <2>6 DEF CityInv, KeysInv, BatchInv
<1> QED BY <1>1, <1>2, <1>3 DEF RunnerInv

\* The run is between two batches, in a city or not.
LEMMA Rests ==
  ASSUME RunnerInv, UNCHANGED <<disk, ledgerOf, sent, scans, fetched>>,
         city' \in 1..Len(Cities), pc' \in {"idle", "city", "tips"},
         complete' = {}, receipts' = Empty
  PROVE  RunnerInv'
<1>1. TablesInv'
  BY DEF RunnerInv, TablesInv
<1>2. MemoryInv'
  BY DEF MemoryInv, InBatch, HasReviewed
<1>3. \A c \in City : CityInv(c)'
  BY CitiesStay DEF RunnerInv
<1> QED BY <1>1, <1>2, <1>3 DEF RunnerInv

LEMMA RestingSteps ==
  ASSUME RunnerInv, \/ BeginRun \/ Defer \/ LeaveCity \/ PublishTips
                    \/ Approve \/ RefreshDue \/ Stop
  PROVE  RunnerInv'
<1>1. Len(Cities) \in Nat \ {0} /\ city \in 1..Len(Cities)
  BY RunnerAssumption DEF RunnerInv, MemoryInv
<1>2. ~InBatch => complete = {} /\ receipts = Empty
  BY DEF RunnerInv, MemoryInv, HasReviewed
<1>3. CASE BeginRun
  BY <1>1, <1>2, <1>3, Rests DEF BeginRun, InBatch, disks, website
<1>4. CASE Defer \/ LeaveCity
  <2>1. city' \in 1..Len(Cities) /\ pc' \in {"idle", "city", "tips"} /\ complete' = {}
        /\ receipts' = Empty
    BY <1>1, <1>4 DEF Defer, LeaveCity, NextCity, Forget
  <2>2. UNCHANGED <<disk, ledgerOf, sent, scans, fetched>>
    BY <1>4 DEF Defer, LeaveCity, disks, website
  <2> QED BY <2>1, <2>2, Rests
<1>5. CASE PublishTips
  <2>1. complete = {} /\ receipts = Empty
    <3>1. pc = "tips"
      BY <1>5 DEF PublishTips
    <3> QED BY <1>2, <3>1 DEF InBatch
  <2>2. UNCHANGED <<disk, ledgerOf, sent, scans, fetched, city, complete, receipts>> /\ pc' = "idle"
    BY <1>5 DEF PublishTips, disks
  <2> QED BY <1>1, <2>1, <2>2, Rests
<1>6. CASE Approve \/ RefreshDue
  <2>1. pc = "idle" /\ UNCHANGED memory /\ UNCHANGED <<disk, ledgerOf, sent, scans, fetched>>
    BY <1>6 DEF Approve, RefreshDue, disks, website
  <2>2. complete = {} /\ receipts = Empty
    BY <1>2, <2>1 DEF InBatch
  <2> QED BY <1>1, <2>1, <2>2, Rests DEF memory
<1>7. CASE Stop
  BY <1>1, <1>7, Rests DEF Stop, Forget, disks, website
<1> QED BY <1>3, <1>4, <1>5, <1>6, <1>7

\* A new scan finds its predecessor delivered.
LEMMA DiscoverStep ==
  ASSUME RunnerInv, Discover
  PROVE  RunnerInv'
<1>1. MemoryInv /\ pc = "city" /\ complete = {} /\ receipts = Empty /\ C \in City /\ C' = C
  BY CityTyped DEF RunnerInv, MemoryInv, Discover, InBatch, C, HasReviewed
<1>2. CityInv(C) /\ Idling(disk[C])
  BY <1>1 DEF RunnerInv, Discover
<1>i. PICK ids \in SUBSET Obj[C] :
        \E sorted \in Ascending(ids) : state' = Scan(C, sorted, disk[C].versions)
  BY DEF Discover
<1>3. PICK sorted \in Ascending(ids) : state' = Scan(C, sorted, disk[C].versions)
  BY <1>i
<1>4. PICK n \in Nat : n = scans[C] /\ n = disk[C].cycle
  BY <1>2 DEF CityInv, Shaped
<1>5. PICK v \in Versions : v = disk[C].versions
  BY <1>2 DEF CityInv, Shaped
<1>6. state' = [cycle |-> n + 1, ids |-> sorted, cursor |-> 0, pending |-> NoBatch,
                versions |-> v]
  BY <1>3, <1>4, <1>5 DEF Scan
<1>7. /\ disk' = [disk EXCEPT ![C] = state'] /\ scans' = [scans EXCEPT ![C] = n + 1]
      /\ pc' = "batch"
      /\ UNCHANGED <<ledgerOf, sent, city, complete, acquired, receipts, fetched>>
  BY <1>4 DEF Discover, website
<1>8. TablesInv'
  BY <1>7 DEF RunnerInv, TablesInv
<1>9. disk'[C] = state' /\ scans'[C] = n + 1
  BY <1>1, <1>7 DEF RunnerInv, TablesInv
<1>10. MemoryInv'
  <2>1. StagesInv'
    BY <1>1, <1>7, <1>9 DEF StagesInv, HasAcquired, HasTransformed, HasReviewed
  <2> QED BY <1>1, <1>7, <2>1 DEF MemoryInv, InBatch, C
<1>11. ASSUME NEW c \in City, c # C PROVE CityInv(c)'
  <2>1. disk'[c] = disk[c] /\ scans'[c] = scans[c]
    BY <1>7, <1>11
  <2>2. CityInv(c)
    BY DEF RunnerInv
  <2> QED BY <1>7, <2>1, <2>2, CityStays
<1>12. CityInv(C)'
  <2>1. Shaped(state')
    <3>1. ids \subseteq Nat /\ Cardinality(ids) \in Nat
      <4>1. Obj[C] \subseteq Nat /\ IsFiniteSet(Obj[C])
        BY <1>1, RunnerAssumption
      <4>2. IsFiniteSet(ids)
        BY <4>1, FS_Subset
      <4> QED BY <4>1, <4>2, FS_CardinalityType
    <3>2. PICK m \in Nat : m = Cardinality(ids)
      BY <3>1
    <3>3. sorted \in [1..m -> ids] /\ \A i, j \in DOMAIN sorted : i < j => sorted[i] < sorted[j]
      BY <3>2 DEF Ascending
    <3>4. sorted \in Seq(Nat) /\ Len(sorted) = m /\ DOMAIN sorted = 1..m
      <4>1. sorted \in [1..m -> Nat]
        BY <3>1, <3>3
      <4> QED BY <3>2, <4>1
    <3>5. \A i, j \in 1..Len(sorted) : i < j => sorted[i] < sorted[j]
      BY <3>3, <3>4
    <3>6. 0 \in 0..Len(sorted) /\ n + 1 \in Nat
      BY <3>4
    <3> QED BY <1>6, <3>4, <3>5, <3>6 DEF Shaped
  <2>2. DOMAIN CommandsOf(C)' = {} /\ ~Pending(state') /\ state'.versions = v /\ state'.cycle = n + 1
    BY <1>1, <1>6, <1>9 DEF CommandsOf, NoBatch, Empty, Pending
  <2>3. KeysInv(C)'
    <3>1. \A k \in DOMAIN sent : k[1] = C => k = <<C, k[2], k[3]>> /\ k[2] \in 0..n
      BY <1>2, <1>4 DEF CityInv, KeysInv
    <3>2. \A k \in DOMAIN sent : k[1] = C => k[2] \in 0..(n + 1) /\ k[2] # n + 1
      BY <3>1
    <3> QED BY <1>1, <1>7, <1>9, <2>2, <3>1, <3>2 DEF KeysInv
  <2>4. DeliveryInv(C)'
    <3>1. ledgerOf[C] = v
      <4>1. DOMAIN CommandsOf(C) = {}
        BY <1>2 DEF CommandsOf, Idling, Pending, NoBatch, Empty
      <4>2. Done(C) = {}
        BY <4>1 DEF Done
      <4>3. DOMAIN Restrict(CommandsOf(C), {}) = {}
        BY DEF Restrict
      <4>4. Overlaid(v, Restrict(CommandsOf(C), {})) = v
        BY <4>3, OverlaidByNothing
      <4> QED BY <1>2, <1>5, <4>2, <4>4 DEF CityInv, DeliveryInv
    <3>2. Done(C)' = {}
      BY <1>1, <2>2 DEF Done
    <3>3. DOMAIN Restrict(CommandsOf(C)', {}) = {}
      BY DEF Restrict
    <3>4. Overlaid(v, Restrict(CommandsOf(C)', {})) = v
      BY <3>3, OverlaidByNothing
    <3> QED BY <1>1, <1>7, <1>9, <2>2, <3>1, <3>2, <3>4 DEF DeliveryInv
  <2>5. BatchInv(C)'
    BY <1>1, <1>9, <2>2 DEF BatchInv
  <2> QED BY <1>1, <1>9, <2>1, <2>2, <2>3, <2>4, <2>5 DEF CityInv
<1>13. ASSUME NEW c \in City PROVE CityInv(c)'
  BY <1>1, <1>11, <1>12
<1> QED BY <1>8, <1>10, <1>13 DEF RunnerInv

LEMMA ResumeStep ==
  ASSUME RunnerInv, Resume
  PROVE  RunnerInv'
<1>1. pc = "city" /\ complete = {} /\ receipts = Empty /\ state' = disk[C] /\ pc' = "batch"
      /\ UNCHANGED <<disk, ledgerOf, sent, scans, fetched, city, complete, receipts>>
  BY DEF RunnerInv, MemoryInv, Resume, InBatch, HasReviewed, disks, website
<1>2. TablesInv'
  BY <1>1 DEF RunnerInv, TablesInv
<1>3. MemoryInv'
  <2>1. C' = C
    BY <1>1 DEF C
  <2>2. StagesInv'
    BY <1>1, <2>1 DEF StagesInv, HasAcquired, HasTransformed, HasReviewed
  <2> QED BY <1>1, <2>2 DEF RunnerInv, MemoryInv, InBatch
<1>4. \A c \in City : CityInv(c)'
  BY <1>1, CitiesStay DEF RunnerInv
<1> QED BY <1>2, <1>3, <1>4 DEF RunnerInv

-----------------------------------------------------------------------------
(* The stages of a batch. *)

\* What holds in a batch.
LEMMA InABatch ==
  ASSUME RunnerInv, InBatch, city' = city
  PROVE  /\ C \in City /\ C' = C /\ state = disk[C] /\ CityInv(C)
         /\ Shaped(state) /\ TablesInv /\ MemoryInv /\ StagesInv
         /\ complete \in {{}, HasAcquired, HasTransformed, HasReviewed}
BY CityTyped DEF RunnerInv, MemoryInv, StagesInv, CityInv, C

\* The cities and where the run is.
LEMMA Goes ==
  ASSUME RunnerInv, InBatch, TablesInv', \A c \in City : CityInv(c)', StagesInv', city' = city,
         pc' \in {"batch", "isolating", "checkpoint"},
         complete' \in {{}, HasAcquired, HasTransformed, HasReviewed},
         complete' # HasReviewed => receipts' = Empty /\ pc' = "batch"
  PROVE  RunnerInv'
<1>1. MemoryInv'
  BY DEF RunnerInv, MemoryInv, InBatch
<1> QED BY <1>1 DEF RunnerInv

LEMMA AcquireStep ==
  ASSUME RunnerInv, Acquire
  PROVE  RunnerInv'
<1>1. InBatch /\ At("acquire") /\ ~Scanned(state) /\ city' = city /\ pc = "batch"
  BY DEF Acquire, At, InBatch
<1>2. /\ C \in City /\ C' = C /\ state = disk[C] /\ CityInv(C) /\ TablesInv /\ MemoryInv
      /\ complete = {}
  BY <1>1, InABatch, StageOrder
<1>3. /\ complete' = HasAcquired /\ receipts' = Empty /\ pc' = "batch" /\ state' = state
      /\ UNCHANGED <<disk, ledgerOf, sent, scans>>
  <2>1. complete' = HasAcquired
    BY <1>2 DEF Acquire, HasAcquired
  <2>2. receipts = Empty
    BY <1>2 DEF MemoryInv, HasReviewed
  <2> QED BY <1>1, <2>1, <2>2 DEF Acquire, disks, website
<1>4. CASE Pending(state)
  <2>1. UNCHANGED <<disk, ledgerOf, sent, scans, fetched>>
    BY <1>3, <1>4 DEF Acquire
  <2>2. StagesInv'
    BY <1>2, <1>3, <1>4 DEF StagesInv, HasAcquired, HasTransformed, HasReviewed, Pending
  <2>3. \A c \in City : CityInv(c)'
    BY <2>1, CitiesStay DEF RunnerInv
  <2>4. TablesInv'
    BY <1>2, <2>1 DEF TablesInv
  <2> QED BY <1>1, <1>3, <2>2, <2>3, <2>4, Goes
<1>5. CASE ~Pending(state)
  <2>1. acquired' \in Pages(BatchIds(state)) /\ fetched' = [fetched EXCEPT ![C] = acquired']
    BY <1>5 DEF Acquire, Pages
  <2>2. fetched'[C] = acquired' /\ TablesInv'
    BY <1>2, <1>3, <2>1 DEF TablesInv
  <2>3. PageOf(acquired', state)
    BY <1>1, <2>1 DEF PageOf
  <2>4. StagesInv'
    BY <1>2, <1>3, <2>2, <2>3 DEF StagesInv, HasAcquired, HasTransformed, HasReviewed
  <2>5. ASSUME NEW c \in City PROVE CityInv(c)'
    <3>1. Pending(disk[c]) => c # C
      BY <1>2, <1>5
    <3>2. Pending(disk[c]) => fetched'[c] = fetched[c]
      BY <2>1, <3>1
    <3>3. CityInv(c)
      BY DEF RunnerInv
    <3> QED BY <1>3, <3>2, <3>3, CityStays
  <2> QED BY <1>1, <1>3, <2>2, <2>4, <2>5, Goes
<1> QED BY <1>4, <1>5

LEMMA TransformStep ==
  ASSUME RunnerInv, Transform
  PROVE  RunnerInv'
<1>1. InBatch /\ At("transform") /\ city' = city /\ pc = "batch"
  BY DEF Transform, At, InBatch
<1>2. /\ C \in City /\ C' = C /\ state = disk[C] /\ TablesInv /\ MemoryInv /\ StagesInv
      /\ complete = HasAcquired
  BY <1>1, InABatch, StageOrder
<1>3. /\ complete' = HasTransformed /\ receipts' = Empty /\ pc' = "batch" /\ state' = state
      /\ UNCHANGED <<disk, ledgerOf, sent, scans, fetched>>
      /\ acquired' = IF Pending(state) THEN state.pending ELSE Batch(state, acquired)
  <2>1. complete' = HasTransformed
    BY <1>2 DEF Transform, HasAcquired, HasTransformed
  <2>2. receipts = Empty
    BY <1>2 DEF MemoryInv, HasAcquired, HasReviewed
  <2> QED BY <1>1, <2>1, <2>2 DEF Transform, disks, website
<1>4. StagesInv'
  <2>1. ~Pending(state) => acquired = fetched[C] /\ PageOf(fetched[C], state)
    BY <1>2 DEF StagesInv
  <2>2. complete' # HasAcquired /\ complete' # HasReviewed /\ pc' # "checkpoint"
    BY <1>3 DEF HasAcquired, HasTransformed, HasReviewed
  <2> QED BY <1>2, <1>3, <2>1, <2>2 DEF StagesInv
<1>5. \A c \in City : CityInv(c)'
  BY <1>3, CitiesStay DEF RunnerInv
<1>6. TablesInv'
  BY <1>2, <1>3 DEF TablesInv
<1> QED BY <1>1, <1>3, <1>4, <1>5, <1>6, Goes

\* The batch is on disk, and nothing of it is at the website.
LEMMA ReviewStep ==
  ASSUME RunnerInv, Review
  PROVE  RunnerInv'
<1>1. InBatch /\ At("review") /\ city' = city /\ pc = "batch"
  BY DEF Review, At, InBatch
<1>2. /\ C \in City /\ C' = C /\ state = disk[C] /\ CityInv(C) /\ Shaped(state)
      /\ TablesInv /\ MemoryInv /\ StagesInv /\ complete = HasTransformed
  BY <1>1, InABatch, StageOrder
<1>3. /\ complete' = HasReviewed /\ receipts' = Empty /\ receipts = Empty /\ pc' = "batch"
      /\ UNCHANGED <<ledgerOf, sent, scans, fetched>>
      /\ state' = [state EXCEPT !.pending = acquired]
      /\ disk' = [disk EXCEPT ![C] = state']
  <2>1. complete' = HasReviewed
    BY <1>2 DEF Review, HasTransformed, HasReviewed
  <2>2. receipts = Empty
    BY <1>2 DEF MemoryInv, HasTransformed, HasReviewed
  <2> QED BY <1>1, <2>1, <2>2 DEF Review, website, SavedBatch
<1>4. TablesInv' /\ disk'[C] = state'
  BY <1>2, <1>3 DEF TablesInv
<1>5. PICK d : d = state
  OBVIOUS
<1>6. PICK e : e = state'
  OBVIOUS
<1>7. DOMAIN e = {"cycle", "ids", "cursor", "pending", "versions"}
      /\ e.cycle = d.cycle /\ e.ids = d.ids /\ e.cursor = d.cursor /\ e.versions = d.versions
      /\ e.pending = acquired
  BY <1>2, <1>3, <1>5, <1>6 DEF Shaped
<1>8. Shaped(e)
  BY <1>2, <1>5, <1>7 DEF Shaped
<1>9. /\ BatchIds(e) = BatchIds(d) /\ (Scanned(e) <=> Scanned(d)) /\ Passed(e) = Passed(d)
      /\ \A page : Batch(e, page) = Batch(d, page)
  BY <1>7 DEF BatchIds, End, Scanned, Passed, Batch
<1>10. PageOf(fetched[C], d) /\ acquired = Batch(d, fetched[C])
  BY <1>2, <1>5 DEF StagesInv, CityInv, BatchInv
<1>11. PageOf(fetched[C], e) /\ e.pending = Batch(e, fetched[C])
  BY <1>7, <1>9, <1>10 DEF PageOf
<1>12. Pending(e)
  <2>1. ~Scanned(e)
    BY <1>11 DEF PageOf
  <2>2. e.pending.end = End(e) /\ End(e) \in Nat /\ e.cursor < End(e) /\ e.cursor \in Nat
    BY <1>8, <1>11, <2>1, EndTyped DEF Batch, Shaped
  <2>3. e.pending.end # 0
    BY <2>2
  <2> QED BY <2>3 DEF Pending, NoBatch
<1>13. StagesInv'
  <2>1. ReceiptsInv'
    BY <1>3 DEF ReceiptsInv, Empty
  <2>2. complete' # HasAcquired /\ complete' # HasTransformed /\ pc' # "checkpoint"
    BY <1>3 DEF HasAcquired, HasTransformed, HasReviewed
  <2> QED BY <1>2, <1>4, <1>6, <1>12, <2>1, <2>2 DEF StagesInv, Pending
<1>14. ASSUME NEW c \in City, c # C PROVE CityInv(c)'
  <2>1. disk'[c] = disk[c]
    BY <1>3, <1>14
  <2>2. CityInv(c)
    BY DEF RunnerInv
  <2> QED BY <1>3, <2>1, <2>2, CityStays
<1>15. CityInv(C)'
  <2>1. disk[C] = d /\ disk'[C] = e /\ CommandsOf(C) = d.pending.commands
        /\ CommandsOf(C)' = e.pending.commands
    BY <1>2, <1>4, <1>5, <1>6 DEF CommandsOf
  <2>2. BatchInv(C)'
    BY <1>2, <1>3, <1>11, <2>1 DEF BatchInv
  <2>3. CASE Pending(d)
    <3>1. e.pending = d.pending
      BY <1>2, <1>5, <1>7, <2>3 DEF StagesInv
    <3>2. CommandsOf(C)' = CommandsOf(C) /\ Done(C)' = Done(C)
      BY <1>2, <1>3, <1>7, <2>1, <3>1 DEF Done
    <3>3. KeysInv(C)'
      BY <1>2, <1>3, <1>7, <1>9, <2>1, <3>2 DEF CityInv, KeysInv
    <3>4. DeliveryInv(C)'
      BY <1>2, <1>3, <1>7, <2>1, <3>2 DEF CityInv, DeliveryInv
    <3> QED BY <1>2, <1>3, <1>7, <1>8, <2>1, <2>2, <3>3, <3>4 DEF CityInv
  <2>4. CASE ~Pending(d)
    <3>1. DOMAIN CommandsOf(C) = {} /\ Done(C) = {}
      BY <2>1, <2>4 DEF Pending, NoBatch, Empty, Done
    <3>2. \A k \in DOMAIN sent : k[1] = C => /\ k = <<C, k[2], k[3]>> /\ k[2] \in 0..d.cycle
                                             /\ k[2] = d.cycle => k[3] \in Passed(d)
      BY <1>2, <2>1, <3>1 DEF CityInv, KeysInv
    <3>3. KeysInv(C)'
      BY <1>2, <1>3, <1>7, <1>9, <2>1, <3>2 DEF KeysInv
    <3>4. DOMAIN e.pending.commands \cap Passed(e) = {}
      <4>1. ~Scanned(e) /\ fetched[C] \in Pages(BatchIds(e))
        BY <1>11 DEF PageOf
      <4>2. BatchIds(e) \cap Passed(e) = {} /\ Finite(BatchIds(e))
        BY <1>8, <4>1, BatchIdsTyped
      <4>3. DOMAIN e.pending.commands \subseteq Records(fetched[C])
        BY <1>11 DEF Batch, Restrict
      <4>4. Records(fetched[C]) \subseteq BatchIds(e)
        BY <4>1, <4>2, RecordsTyped
      <4> QED BY <4>2, <4>3, <4>4
    <3>5. Done(C)' = {}
      <4> SUFFICES ASSUME NEW o \in DOMAIN e.pending.commands,
                          <<C, e.cycle, o>> \in DOMAIN sent
                   PROVE  FALSE
        BY <1>2, <1>3, <2>1 DEF Done
      <4>1. o \in Passed(d)
        BY <1>7, <3>2
      <4> QED BY <1>9, <3>4, <4>1
    <3>6. DeliveryInv(C)'
      <4>1. d.versions \in Versions
        BY <1>2, <1>5 DEF Shaped
      <4>2. ledgerOf[C] = Overlaid(d.versions, Restrict(CommandsOf(C), {}))
        BY <1>2, <2>1, <3>1 DEF CityInv, DeliveryInv
      <4>3. DOMAIN Restrict(CommandsOf(C), {}) = {} /\ DOMAIN Restrict(CommandsOf(C)', {}) = {}
        BY DEF Restrict
      <4>4. ledgerOf[C] = d.versions
            /\ Overlaid(d.versions, Restrict(CommandsOf(C)', {})) = d.versions
        BY <4>1, <4>2, <4>3, OverlaidByNothing
      <4> QED BY <1>2, <1>3, <1>7, <2>1, <3>5, <4>4 DEF DeliveryInv
    <3> QED BY <1>2, <1>3, <1>7, <1>8, <2>1, <2>2, <3>3, <3>6 DEF CityInv
  <2> QED BY <2>3, <2>4
<1>16. ASSUME NEW c \in City PROVE CityInv(c)'
  BY <1>2, <1>14, <1>15
<1> QED BY <1>1, <1>3, <1>4, <1>13, <1>16, Goes

-----------------------------------------------------------------------------
(* Publication. *)

\* The last stage has a batch of the page that was acquired for it.
LEMMA InPublication ==
  ASSUME RunnerInv, InBatch, complete = HasReviewed, city' = city
  PROVE  /\ C \in City /\ C' = C /\ state = disk[C] /\ CityInv(C) /\ Shaped(state)
         /\ TablesInv /\ MemoryInv /\ Pending(state) /\ ReceiptsInv
         /\ PageOf(fetched[C], state) /\ state.pending = Batch(state, fetched[C])
         /\ Commands = CommandsOf(C) /\ Finite(DOMAIN Commands)
         /\ \A o \in DOMAIN Commands : Commands[o] \in Record
<1>1. /\ C \in City /\ C' = C /\ state = disk[C] /\ CityInv(C) /\ Shaped(state)
      /\ TablesInv /\ MemoryInv /\ Pending(state) /\ ReceiptsInv
  BY InABatch DEF StagesInv
<1>2. PageOf(fetched[C], state) /\ state.pending = Batch(state, fetched[C])
  BY <1>1 DEF CityInv, BatchInv
<1>3. Commands = CommandsOf(C)
  BY <1>1 DEF Commands, CommandsOf
<1> QED BY <1>1, <1>2, <1>3, CommandsTyped

LEMMA SendStep ==
  ASSUME RunnerInv, Send
  PROVE  RunnerInv'
<1>1. InBatch /\ At("publish") /\ city' = city /\ pc = "batch"
  BY DEF Send, At, InBatch
<1>2. complete = HasReviewed
  BY <1>1, StageOrder DEF RunnerInv, MemoryInv
<1>3. /\ C \in City /\ C' = C /\ state = disk[C] /\ TablesInv /\ MemoryInv
      /\ Pending(state) /\ ReceiptsInv /\ Commands = CommandsOf(C)
  BY <1>1, <1>2, InPublication
<1>4. UNCHANGED <<disk, scans, fetched, state, complete>> /\ Commands' = Commands
      /\ disk'[C] = disk[C]
  BY DEF Send, disks, Commands
<1>5. complete' # HasAcquired /\ complete' # HasTransformed
  BY <1>2, <1>4 DEF HasAcquired, HasTransformed, HasReviewed
<1>6. CASE \E o \in DOMAIN Commands : Commands[o].version \in Refused
  <2>1. pc' = "isolating" /\ UNCHANGED <<ledgerOf, sent, receipts>>
    BY <1>6 DEF Send, website
  <2>2. \A c \in City : CityInv(c)' /\ Done(c)' = Done(c)
    BY <1>4, <2>1, CitiesStay DEF RunnerInv
  <2>3. ReceiptsInv'
    BY <1>3, <1>4, <2>1, <2>2 DEF ReceiptsInv
  <2>4. StagesInv'
    BY <1>3, <1>4, <1>5, <2>1, <2>3 DEF StagesInv, Pending
  <2>5. TablesInv'
    BY <1>3, <1>4, <2>1 DEF TablesInv
  <2> QED BY <1>1, <1>2, <1>4, <2>1, <2>2, <2>4, <2>5, Goes
<1>7. CASE ~ \E o \in DOMAIN Commands : Commands[o].version \in Refused
  <2>1. Applied(Commands) /\ receipts' = [o \in DOMAIN Commands |-> "applied"] /\ pc' = pc
    BY <1>7 DEF Send
  <2>2. Accepted(Commands) = DOMAIN Commands
    BY <1>7 DEF Accepted
  <2>3. (\A c \in City : CityInv(c)') /\ Done(C)' = Done(C) \cup DOMAIN Commands
    BY <1>1, <1>2, <1>3, <1>4, <2>1, <2>2, Applies DEF RunnerInv
  <2>4. ReceiptsInv'
    BY <1>3, <1>4, <2>1, <2>2, <2>3 DEF ReceiptsInv
  <2>5. StagesInv'
    BY <1>1, <1>3, <1>4, <1>5, <2>1, <2>4 DEF StagesInv, Pending
  <2>6. TablesInv'
    BY <1>3, <1>4, <2>1 DEF TablesInv, Applied
  <2> QED BY <1>1, <1>2, <1>4, <2>1, <2>3, <2>5, <2>6, Goes
<1> QED BY <1>6, <1>7

LEMMA IsolateStep ==
  ASSUME RunnerInv, Isolate
  PROVE  RunnerInv'
<1>1. InBatch /\ city' = city /\ pc = "isolating"
  BY DEF Isolate, InBatch
<1>2. complete = HasReviewed
  BY <1>1 DEF RunnerInv, MemoryInv
<1>3. /\ C \in City /\ C' = C /\ state = disk[C] /\ TablesInv /\ MemoryInv
      /\ Pending(state) /\ ReceiptsInv /\ Commands = CommandsOf(C) /\ Finite(DOMAIN Commands)
  BY <1>1, <1>2, InPublication
<1>4. UNCHANGED <<disk, scans, fetched, state, complete>> /\ Commands' = Commands
      /\ disk'[C] = disk[C] /\ pc' \in {"batch", "isolating"}
  BY <1>1 DEF Isolate, disks, Commands
<1>5. complete' # HasAcquired /\ complete' # HasTransformed
  BY <1>2, <1>4 DEF HasAcquired, HasTransformed, HasReviewed
<1>6. PICK o \in DOMAIN Commands \ DOMAIN receipts :
        /\ \A q \in DOMAIN Commands \ DOMAIN receipts : o <= q
        /\ IF Commands[o].version \in Refused
           THEN Receive(o, "rejected") /\ UNCHANGED website
           ELSE Receive(o, "applied") /\ Applied(Restrict(Commands, {o})) /\ UNCHANGED tips
  BY DEF Isolate
<1>7. \A q \in DOMAIN Commands : q < o => q \in DOMAIN receipts
  <2>1. DOMAIN Commands \subseteq Nat
    BY <1>3 DEF Finite
  <2> QED BY <1>6, <2>1
<1>8. DOMAIN receipts \subseteq DOMAIN Commands
  BY <1>3 DEF ReceiptsInv
<1>9. CASE Commands[o].version \in Refused
  <2>1. Receive(o, "rejected") /\ UNCHANGED <<ledgerOf, sent>>
    BY <1>6, <1>9 DEF website
  <2>2. \A c \in City : CityInv(c)' /\ Done(c)' = Done(c)
    BY <1>4, <2>1, CitiesStay DEF RunnerInv
  <2>3. o \notin Accepted(Commands)
    BY <1>9 DEF Accepted
  <2>4. ReceiptsInv'
    <3>1. DOMAIN receipts' = DOMAIN receipts \cup {o} /\ receipts'[o] = "rejected"
          /\ \A p \in DOMAIN receipts : receipts'[p] = receipts[p]
      BY <1>6, <2>1 DEF Receive
    <3> QED BY <1>3, <1>4, <1>6, <1>7, <1>8, <2>2, <2>3, <3>1 DEF ReceiptsInv
  <2>5. StagesInv'
    BY <1>3, <1>4, <1>5, <2>4 DEF StagesInv, Pending
  <2>6. TablesInv'
    BY <1>3, <1>4, <2>1 DEF TablesInv
  <2> QED BY <1>1, <1>2, <1>4, <2>2, <2>5, <2>6, Goes
<1>10. CASE Commands[o].version \notin Refused
  <2>1. Receive(o, "applied") /\ Applied(Restrict(Commands, {o}))
    BY <1>6, <1>10
  <2>2. PICK one : one = Restrict(Commands, {o})
    OBVIOUS
  <2>3. DOMAIN one = {o} /\ one[o] = Commands[o] /\ o \in Accepted(Commands)
    BY <1>6, <1>10, <2>2 DEF Restrict, Accepted
  <2>4. \A q \in Accepted(Commands) : q < o => q \in Done(C)
    <3> SUFFICES ASSUME NEW q \in Accepted(Commands), q < o PROVE q \in Done(C)
      OBVIOUS
    <3>1. q \in DOMAIN receipts
      BY <1>7 DEF Accepted
    <3> QED BY <1>3, <3>1 DEF ReceiptsInv
  <2>5. (\A c \in City : CityInv(c)') /\ Done(C)' = Done(C) \cup {o}
    <3>1. Applied(one)
      BY <2>1, <2>2
    <3>2. DOMAIN one \subseteq Accepted(Commands)
          /\ \A p \in DOMAIN one : one[p] = Commands[p]
      BY <2>3
    <3>3. \A p \in DOMAIN one, q \in Accepted(Commands) :
            q < p => q \in Done(C) \cup DOMAIN one
      BY <2>3, <2>4
    <3> QED BY <1>1, <1>2, <1>3, <1>4, <2>3, <3>1, <3>2, <3>3, Applies DEF RunnerInv
  <2>6. ReceiptsInv'
    <3>1. DOMAIN receipts' = DOMAIN receipts \cup {o} /\ receipts'[o] = "applied"
          /\ \A p \in DOMAIN receipts : receipts'[p] = receipts[p]
      BY <1>6, <2>1 DEF Receive
    <3> QED BY <1>3, <1>4, <1>6, <1>7, <1>8, <2>3, <2>5, <3>1 DEF ReceiptsInv
  <2>7. StagesInv'
    BY <1>3, <1>4, <1>5, <2>6 DEF StagesInv, Pending
  <2>8. TablesInv'
    BY <1>3, <1>4, <2>1 DEF TablesInv, Applied
  <2> QED BY <1>1, <1>2, <1>4, <2>5, <2>7, <2>8, Goes
<1> QED BY <1>9, <1>10

\* What has no record is filed before the cursor moves.
LEMMA ArchiveStep ==
  ASSUME RunnerInv, Archive
  PROVE  RunnerInv'
<1>1. InBatch /\ At("publish") /\ city' = city /\ AllAnswered
  BY DEF Archive, At, InBatch
<1>2. complete = HasReviewed
  BY <1>1, StageOrder DEF RunnerInv, MemoryInv
<1>3. /\ C \in City /\ C' = C /\ state = disk[C] /\ TablesInv /\ MemoryInv
      /\ Pending(state) /\ ReceiptsInv
      /\ PageOf(fetched[C], state) /\ state.pending = Batch(state, fetched[C])
  BY <1>1, <1>2, InPublication
<1>4. UNCHANGED <<disk, ledgerOf, sent, scans, fetched, state, complete, receipts>>
      /\ pc' = "checkpoint" /\ Commands' = Commands /\ fetched'[C] = fetched[C]
      /\ disk'[C] = disk[C]
  BY DEF Archive, website, Commands
<1>5. complete' # HasAcquired /\ complete' # HasTransformed
  BY <1>2, <1>4 DEF HasAcquired, HasTransformed, HasReviewed
<1>6. \A c \in City : CityInv(c)' /\ Done(c)' = Done(c)
  BY <1>4, CitiesStay DEF RunnerInv
<1>7. PICK b : b = state.pending
  OBVIOUS
<1>8. /\ b.start = state.cursor
      /\ b.quarantine = {o \in DOMAIN fetched[C] : fetched[C][o] = Malformed}
      /\ b.missing = {o \in DOMAIN fetched[C] : fetched[C][o] = Gone}
  BY <1>3, <1>7 DEF Batch
<1>9. reviews' = IF b.commands = Empty /\ b.quarantine = {} /\ b.missing = {} THEN reviews
                 ELSE reviews \cup {[city |-> C, cycle |-> state.cycle, start |-> b.start,
                                     quarantine |-> b.quarantine \cup With("rejected"),
                                     missing |-> b.missing]}
  BY <1>7 DEF Archive
<1>10. Filed'
  <2> SUFFICES ASSUME NEW o \in DOMAIN fetched[C] \ Records(fetched[C])
               PROVE  \E r \in reviews' :
                        /\ r.city = C /\ r.cycle = state.cycle /\ r.start = state.cursor
                        /\ o \in r.quarantine \cup r.missing
    BY <1>3, <1>4 DEF Filed
  <2>1. o \in b.quarantine \/ o \in b.missing
    BY <1>8 DEF Records
  <2>2. PICK r : r = [city |-> C, cycle |-> state.cycle, start |-> b.start,
                      quarantine |-> b.quarantine \cup With("rejected"),
                      missing |-> b.missing]
    OBVIOUS
  <2>3. r \in reviews'
    BY <1>9, <2>1, <2>2
  <2>4. r.city = C /\ r.cycle = state.cycle /\ r.start = state.cursor
        /\ o \in r.quarantine \cup r.missing
    BY <1>8, <2>1, <2>2
  <2> QED BY <2>3, <2>4
<1>11. ReceiptsInv'
  BY <1>3, <1>4, <1>6 DEF ReceiptsInv
<1>12. StagesInv'
  <2>1. AllAnswered'
    BY <1>1, <1>4 DEF AllAnswered
  <2> QED BY <1>3, <1>4, <1>5, <1>10, <1>11, <2>1 DEF StagesInv, Pending
<1>13. TablesInv'
  BY <1>3, <1>4 DEF TablesInv
<1> QED BY <1>1, <1>2, <1>4, <1>6, <1>12, <1>13, Goes

-----------------------------------------------------------------------------
(* The cursor moves, and what the project checks of it. *)

\* Then every command is answered, and the versions to keep are the website's.
LEMMA AtCheckpoint ==
  ASSUME RunnerInv, pc = "checkpoint", city' = city
  PROVE  /\ complete = HasReviewed /\ InBatch /\ Filed
         /\ Done(C) = Accepted(Commands) /\ With("applied") = Accepted(Commands)
         /\ Ledger = ledgerOf[C]
<1>1. InBatch /\ complete = HasReviewed
  BY DEF RunnerInv, MemoryInv, InBatch
<1>2. /\ C \in City /\ state = disk[C] /\ CityInv(C) /\ ReceiptsInv /\ MemoryInv
      /\ Commands = CommandsOf(C)
  BY <1>1, InPublication
<1>3. AllAnswered /\ Filed
  BY <1>1, <1>2 DEF MemoryInv, StagesInv
<1>4. With("applied") = Accepted(Commands)
  <2>1. \A o \in DOMAIN Commands : receipts[o] = "applied" <=> o \in Accepted(Commands)
    BY <1>2, <1>3 DEF ReceiptsInv, AllAnswered
  <2> QED BY <2>1 DEF With, Accepted
<1>5. Done(C) = Accepted(Commands)
  <2>1. Accepted(Commands) \subseteq Done(C)
    BY <1>2, <1>3 DEF ReceiptsInv, AllAnswered, Accepted
  <2>2. Done(C) \subseteq Accepted(Commands)
    BY <1>2 DEF CityInv, DeliveryInv
  <2> QED BY <2>1, <2>2
<1>6. Ledger = ledgerOf[C]
  <2>1. ledgerOf[C] = Overlaid(disk[C].versions, Restrict(Commands, Done(C)))
    BY <1>2 DEF CityInv, DeliveryInv
  <2> QED BY <1>2, <1>4, <1>5, <2>1 DEF Ledger
<1> QED BY <1>1, <1>3, <1>4, <1>5, <1>6

LEMMA CheckpointStep ==
  ASSUME RunnerInv, Checkpoint
  PROVE  RunnerInv'
<1>1. InBatch /\ city' = city /\ pc = "checkpoint" /\ complete = HasReviewed
      /\ Ledger = ledgerOf[C]
  <2>1. pc = "checkpoint" /\ city' = city
    BY DEF Checkpoint
  <2> QED BY <2>1, AtCheckpoint
<1>2. /\ C \in City /\ C' = C /\ state = disk[C] /\ CityInv(C) /\ Shaped(state)
      /\ TablesInv /\ MemoryInv /\ Commands = CommandsOf(C)
      /\ PageOf(fetched[C], state) /\ state.pending = Batch(state, fetched[C])
  BY <1>1, InPublication
<1>3. /\ complete' = {} /\ receipts' = Empty /\ pc' = "batch"
      /\ UNCHANGED <<ledgerOf, sent, scans>>
      /\ state' = [state EXCEPT !.cursor = state.pending.end, !.pending = NoBatch,
                                !.versions = Ledger]
      /\ disk' = [disk EXCEPT ![C] = state']
      /\ fetched' = [fetched EXCEPT ![C] = None]
  BY DEF Checkpoint, website
<1>4. TablesInv' /\ disk'[C] = state'
  BY <1>2, <1>3 DEF TablesInv
<1>5. PICK d : d = state
  OBVIOUS
<1>6. PICK e : e = state'
  OBVIOUS
<1>7. /\ DOMAIN e = {"cycle", "ids", "cursor", "pending", "versions"}
      /\ e.cycle = d.cycle /\ e.ids = d.ids /\ e.cursor = End(d) /\ e.pending = NoBatch
      /\ e.versions = ledgerOf[C]
  <2>1. d.pending.end = End(d)
    BY <1>2, <1>5 DEF Batch
  <2>2. DOMAIN d = {"cycle", "ids", "cursor", "pending", "versions"}
    BY <1>2, <1>5 DEF Shaped
  <2>3. e = [d EXCEPT !.cursor = End(d), !.pending = NoBatch, !.versions = ledgerOf[C]]
    BY <1>1, <1>3, <1>5, <1>6, <2>1
  <2> QED BY <2>2, <2>3
<1>8. d.cursor < End(d) /\ End(d) \in 0..Len(d.ids) /\ d.cursor \in Nat
  <2>1. Shaped(d) /\ ~Scanned(d)
    BY <1>2, <1>5 DEF PageOf
  <2>2. End(d) \in Nat /\ d.cursor < End(d) /\ End(d) <= Len(d.ids)
    BY <2>1, EndTyped
  <2>3. Len(d.ids) \in Nat /\ d.cursor \in Nat
    BY <2>1 DEF Shaped
  <2> QED BY <2>2, <2>3
<1>9. ledgerOf[C] \in Versions
  <2>1. ledgerOf[C] = Overlaid(d.versions, Restrict(Commands, Done(C)))
    BY <1>2, <1>5 DEF CityInv, DeliveryInv
  <2>2. /\ Finite(DOMAIN Commands) /\ \A o \in DOMAIN Commands : Commands[o] \in Record
        /\ Done(C) \subseteq DOMAIN Commands
    BY <1>2, CommandsTyped DEF Done
  <2>3. PICK w : w = Restrict(Commands, Done(C))
    OBVIOUS
  <2>4. DOMAIN w = Done(C) /\ \A o \in DOMAIN w : w[o] = Commands[o]
    BY <2>3 DEF Restrict
  <2>5. Finite(DOMAIN w) /\ \A o \in DOMAIN w : w[o] \in Record
    BY <2>2, <2>4, FiniteParts
  <2>6. d.versions \in Versions
    BY <1>2, <1>5 DEF Shaped
  <2> QED BY <2>1, <2>3, <2>5, <2>6, OverlaidTyped
<1>10. Shaped(e) /\ ~Pending(e)
  <2>1. Shaped(d)
    BY <1>2, <1>5
  <2> QED BY <1>7, <1>8, <1>9, <2>1 DEF Shaped, Pending
<1>11. StagesInv'
  BY <1>2, <1>3, <1>4 DEF StagesInv, HasAcquired, HasTransformed, HasReviewed
<1>12. ASSUME NEW c \in City, c # C PROVE CityInv(c)'
  <2>1. disk'[c] = disk[c] /\ fetched'[c] = fetched[c]
    BY <1>3, <1>12
  <2>2. CityInv(c)
    BY DEF RunnerInv
  <2> QED BY <1>3, <2>1, <2>2, CityStays
<1>13. CityInv(C)'
  <2>1. disk[C] = d /\ disk'[C] = e /\ DOMAIN CommandsOf(C)' = {}
    BY <1>2, <1>4, <1>5, <1>6, <1>7 DEF CommandsOf, NoBatch, Empty
  <2>2. KeysInv(C)'
    <3>1. Passed(d) \subseteq Passed(e)
      BY <1>7, <1>8 DEF Passed
    <3>2. DOMAIN Commands \subseteq Passed(e)
      <4>1. /\ Shaped(d) /\ ~Scanned(d) /\ fetched[C] \in Pages(BatchIds(d))
            /\ d.pending = Batch(d, fetched[C])
        BY <1>2, <1>5 DEF PageOf
      <4>2. Finite(BatchIds(d)) /\ BatchIds(d) \subseteq Passed(e)
        BY <1>7, <4>1, BatchIdsTyped DEF Passed
      <4>3. DOMAIN Commands \subseteq Records(fetched[C])
        BY <1>5, <4>1 DEF Commands, Batch, Restrict
      <4>4. Records(fetched[C]) \subseteq BatchIds(d)
        BY <4>1, <4>2, RecordsTyped
      <4> QED BY <4>2, <4>3, <4>4
    <3>3. \A k \in DOMAIN sent : k[1] = C =>
            /\ k = <<C, k[2], k[3]>> /\ k[2] \in 0..e.cycle
            /\ k[2] = e.cycle => k[3] \in Passed(e)
      BY <1>2, <1>7, <2>1, <3>1, <3>2 DEF CityInv, KeysInv
    <3> QED BY <1>2, <1>3, <2>1, <3>3 DEF KeysInv
  <2>3. DeliveryInv(C)'
    <3>1. Done(C)' = {}
      BY <1>2, <2>1 DEF Done
    <3>2. DOMAIN Restrict(CommandsOf(C)', {}) = {}
      BY DEF Restrict
    <3>3. Overlaid(e.versions, Restrict(CommandsOf(C)', {})) = ledgerOf[C]
      BY <1>7, <1>9, <3>2, OverlaidByNothing
    <3> QED BY <1>2, <1>3, <2>1, <3>1, <3>3 DEF DeliveryInv
  <2>4. BatchInv(C)'
    BY <1>2, <1>10, <2>1 DEF BatchInv
  <2>5. scans'[C] = disk'[C].cycle
    BY <1>2, <1>3, <1>5, <1>7, <2>1 DEF CityInv
  <2> QED BY <1>2, <1>10, <2>1, <2>2, <2>3, <2>4, <2>5 DEF CityInv
<1>14. ASSUME NEW c \in City PROVE CityInv(c)'
  BY <1>2, <1>12, <1>13
<1> QED BY <1>1, <1>3, <1>4, <1>11, <1>14, Goes

\* The invariant, that the versions kept, with the commands of the pending batch that are
\* applied, are the website's, holds for every source, every stop and every refusal.
THEOREM RunnerInvariant == Spec => []RunnerInv
<1>1. RunnerInv /\ [Next]_vars => RunnerInv'
  <2> SUFFICES ASSUME RunnerInv, [Next]_vars PROVE RunnerInv'
    OBVIOUS
  <2>1. CASE BeginRun \/ Defer \/ LeaveCity \/ PublishTips \/ Approve \/ RefreshDue \/ Stop
    BY <2>1, RestingSteps
  <2>2. CASE Discover
    BY <2>2, DiscoverStep
  <2>3. CASE Resume
    BY <2>3, ResumeStep
  <2>4. CASE Acquire
    BY <2>4, AcquireStep
  <2>5. CASE Transform
    BY <2>5, TransformStep
  <2>6. CASE Review
    BY <2>6, ReviewStep
  <2>7. CASE Send
    BY <2>7, SendStep
  <2>8. CASE Isolate
    BY <2>8, IsolateStep
  <2>9. CASE Archive
    BY <2>9, ArchiveStep
  <2>10. CASE Checkpoint
    BY <2>10, CheckpointStep
  <2>11. CASE UNCHANGED vars
    <3>1. UNCHANGED <<disk, reviews, ledgerOf, sent, scans, fetched>> /\ UNCHANGED memory
      BY <2>11 DEF vars, disks, website
    <3>2. /\ UNCHANGED <<pc, city, complete, state, acquired, receipts>>
          /\ C' = C /\ Commands' = Commands
      BY <3>1 DEF memory, C, Commands
    <3>3. \A c \in City : CityInv(c)' /\ Done(c)' = Done(c)
      BY <3>1, CitiesStay DEF RunnerInv
    <3>4. TablesInv'
      BY <3>1 DEF RunnerInv, TablesInv
    <3>5. CASE InBatch
      <4>1. C \in City /\ StagesInv
        BY <3>2, <3>5, InABatch
      <4>2. ReceiptsInv => ReceiptsInv'
        BY <3>2, <3>3, <4>1 DEF ReceiptsInv
      <4>3. Filed => Filed'
        BY <3>1, <3>2 DEF Filed
      <4>4. StagesInv'
        BY <3>1, <3>2, <4>1, <4>2, <4>3 DEF StagesInv, AllAnswered
      <4>5. MemoryInv'
        BY <3>2, <4>4 DEF RunnerInv, MemoryInv, InBatch
      <4> QED BY <3>3, <3>4, <4>5 DEF RunnerInv
    <3>6. CASE ~InBatch
      <4>1. MemoryInv'
        BY <3>2, <3>6 DEF RunnerInv, MemoryInv, InBatch
      <4> QED BY <3>3, <3>4, <4>1 DEF RunnerInv
    <3> QED BY <3>5, <3>6
  <2> QED BY <2>1, <2>2, <2>3, <2>4, <2>5, <2>6, <2>7, <2>8, <2>9, <2>10, <2>11
          DEF Next, RunStep
<1> QED BY <1>1, InitHolds, PTL DEF Spec

\* What a stopped run sends again is, key by key, what was sent before: a key of the scan is
\* of an id that the cursor passed, which no batch proposes again, or of the saved batch.
THEOREM KeysNameOneCommand == Spec => []KeyNamesOneCommand
<1>1. RunnerInv => KeyNamesOneCommand
  <2> SUFFICES ASSUME RunnerInv, InBatch, NEW o \in DOMAIN Commands, Key(o) \in DOMAIN sent
               PROVE  sent[Key(o)] = Commands[o]
    BY DEF KeyNamesOneCommand, InBatch
  <2>1. C \in City /\ state = disk[C] /\ CityInv(C)
    BY CityTyped DEF RunnerInv, MemoryInv, StagesInv
  <2>2. Commands = CommandsOf(C) /\ Key(o) = <<C, disk[C].cycle, o>>
    BY <2>1 DEF Commands, CommandsOf, Key
  <2>3. o \notin Passed(disk[C])
    BY <2>1, <2>2, CommandsTyped
  <2>4. PICK k \in DOMAIN sent : k = Key(o) /\ k[1] = C /\ k[2] = disk[C].cycle /\ k[3] = o
    BY <2>2
  <2> QED BY <2>1, <2>2, <2>3, <2>4 DEF CityInv, KeysInv
<1> QED BY <1>1, RunnerInvariant, PTL

\* With no batch pending, nothing is applied beyond the versions kept.
THEOREM LedgerAgrees == Spec => []LedgerIsWebsite
<1>1. RunnerInv => LedgerIsWebsite
  <2> SUFFICES ASSUME RunnerInv, NEW c \in City, ~Pending(disk[c])
               PROVE  disk[c].versions = ledgerOf[c]
    BY DEF LedgerIsWebsite
  <2>1. CityInv(c)
    BY DEF RunnerInv
  <2>2. DOMAIN CommandsOf(c) = {}
    BY DEF CommandsOf, Pending, NoBatch, Empty
  <2>3. Done(c) = {}
    BY <2>2 DEF Done
  <2>4. DOMAIN Restrict(CommandsOf(c), {}) = {}
    BY DEF Restrict
  <2>5. Overlaid(disk[c].versions, Restrict(CommandsOf(c), {})) = disk[c].versions
    BY <2>1, <2>4, OverlaidByNothing DEF CityInv, Shaped
  <2> QED BY <2>1, <2>3, <2>5 DEF CityInv, DeliveryInv
<1> QED BY <1>1, RunnerInvariant, PTL

\* Only the checkpoint of a batch moves the cursor of a scan.
LEMMA CursorMoves ==
  ASSUME RunnerInv, [Next]_vars, NEW c \in City,
         disk'[c].cycle = disk[c].cycle, disk'[c].cursor # disk[c].cursor
  PROVE  Checkpoint /\ c = C
<1>1. TablesInv /\ CityInv(c)
  BY DEF RunnerInv
<1>2. disk' # disk
  OBVIOUS
<1>3. Discover \/ Review \/ Checkpoint
  <2>1. ~(BeginRun \/ Defer \/ LeaveCity \/ PublishTips \/ Approve \/ RefreshDue \/ Stop)
    BY <1>2 DEF BeginRun, Defer, LeaveCity, PublishTips, Approve, RefreshDue, Stop, disks
  <2>2. ~(Resume \/ Acquire \/ Transform \/ Send \/ Isolate \/ Archive)
    BY <1>2 DEF Resume, Acquire, Transform, Send, Isolate, Archive, disks
  <2>3. ~UNCHANGED vars
    BY <1>2 DEF vars, disks
  <2> QED BY <2>1, <2>2, <2>3 DEF Next, RunStep
<1>4. CASE Discover
  <2>i. PICK ids \in SUBSET Obj[C] :
          \E sorted \in Ascending(ids) : state' = Scan(C, sorted, disk[C].versions)
    BY <1>4 DEF Discover
  <2>1. PICK sorted \in Ascending(ids) : state' = Scan(C, sorted, disk[C].versions)
    BY <2>i
  <2>2. disk' = [disk EXCEPT ![C] = state'] /\ state'.cycle = scans[C] + 1
    BY <1>4, <2>1 DEF Discover, Scan
  <2>3. c = C
    BY <1>1, <2>2
  <2>4. disk'[c].cycle = scans[c] + 1 /\ scans[c] = disk[c].cycle /\ disk[c].cycle \in Nat
    BY <1>1, <2>2, <2>3 DEF TablesInv, CityInv, Shaped
  <2> QED BY <2>4
<1>5. CASE Review
  <2>1. InBatch /\ city' = city
    BY <1>5 DEF Review, At, InBatch
  <2>2. state = disk[C] /\ C \in City /\ Shaped(state)
    BY <2>1, InABatch
  <2>3. disk' = [disk EXCEPT ![C] = state'] /\ state' = [state EXCEPT !.pending = acquired]
    BY <1>5 DEF Review, SavedBatch
  <2>4. c = C
    BY <1>1, <2>3
  <2>5. disk'[c].cursor = state.cursor
    BY <1>1, <2>2, <2>3, <2>4 DEF TablesInv, Shaped
  <2> QED BY <2>2, <2>4, <2>5
<1>6. CASE Checkpoint
  <2>1. disk' = [disk EXCEPT ![C] = state']
    BY <1>6 DEF Checkpoint
  <2>2. c = C
    BY <1>1, <2>1
  <2> QED BY <1>6, <2>2
<1> QED BY <1>3, <1>4, <1>5, <1>6

\* When the cursor passes a batch, the website has for each identity the version of the last
\* of its acceptable records, and each id without a record is filed.
THEOREM CursorIsHonest == Spec => CursorPassesDelivered
<1>1. RunnerInv /\ [Next]_vars =>
        [\A c \in City : disk'[c].cycle = disk[c].cycle /\ disk'[c].cursor # disk[c].cursor
                         => BatchDelivered(c)]_vars
  <2> SUFFICES ASSUME RunnerInv, [Next]_vars, NEW c \in City,
                      disk'[c].cycle = disk[c].cycle, disk'[c].cursor # disk[c].cursor
               PROVE  BatchDelivered(c)
    OBVIOUS
  <2>1. Checkpoint /\ c = C
    BY CursorMoves
  <2>2. pc = "checkpoint" /\ city' = city
    BY <2>1 DEF Checkpoint
  <2>3. /\ complete = HasReviewed /\ InBatch /\ Filed /\ Ledger = ledgerOf[C]
        /\ With("applied") = Accepted(Commands)
    BY <2>2, AtCheckpoint
  <2>4. /\ state = disk[C] /\ Shaped(state) /\ PageOf(fetched[C], state)
        /\ state.pending = Batch(state, fetched[C])
    BY <2>2, <2>3, InPublication
  <2>5. PICK page : page = fetched[C]
    OBVIOUS
  <2>6. PICK v \in Versions : v = state.versions
    BY <2>4 DEF Shaped
  <2>7. Finite(BatchIds(state)) /\ page \in Pages(BatchIds(state))
    BY <2>4, <2>5, BatchIdsTyped DEF PageOf
  <2>8. PICK applied : applied = Restrict(Commands, Accepted(Commands))
    OBVIOUS
  <2>9. ledgerOf[C] = Overlaid(v, applied)
    BY <2>3, <2>6, <2>8 DEF Ledger
  <2>10. /\ DOMAIN applied = {o \in Records(page) : /\ ~Unchanged(v, page, o)
                                                    /\ page[o].version \notin Refused}
         /\ \A o \in DOMAIN applied : applied[o] = page[o]
    <3>1. Commands = Restrict(page, {o \in Records(page) : ~Unchanged(v, page, o)})
      BY <2>4, <2>5, <2>6 DEF Commands, Batch
    <3>2. /\ DOMAIN Commands = {o \in Records(page) : ~Unchanged(v, page, o)}
          /\ \A o \in DOMAIN Commands : Commands[o] = page[o]
      BY <3>1 DEF Restrict
    <3>3. DOMAIN applied = Accepted(Commands)
          /\ \A o \in Accepted(Commands) : applied[o] = Commands[o]
      BY <2>8 DEF Restrict
    <3> HIDE DEF Unchanged
    <3> QED BY <3>2, <3>3 DEF Accepted
  <2>11. ASSUME NEW i \in Identity,
                NEW good, good = {o \in Records(page) : page[o].identity = i
                                                          /\ page[o].version \notin Refused},
                good # {}
         PROVE  ledgerOf[C][i] = page[Max(good)].version
    BY <2>7, <2>9, <2>10, <2>11, PageDelivered
  <2>12. \A o \in DOMAIN page \ Records(page) :
           \E r \in reviews : /\ r.city = C /\ r.cycle = disk[C].cycle /\ r.start = disk[C].cursor
                              /\ o \in r.quarantine \cup r.missing
    BY <2>3, <2>4, <2>5 DEF Filed
  <2> QED BY <2>1, <2>5, <2>11, <2>12 DEF BatchDelivered
<1> QED BY <1>1, RunnerInvariant, PTL DEF Spec, CursorPassesDelivered
=============================================================================
