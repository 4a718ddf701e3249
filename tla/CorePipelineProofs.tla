------------------------- MODULE CorePipelineProofs -------------------------
(***************************************************************************)
(* CorePipeline proved for any number of integrations, timer threads,      *)
(* payloads and crashes: its types; that buffer.db overshoots its cap by   *)
(* less than the number of its writers; that the payloads become rows in   *)
(* the order in which they joined the list, each at most once; and that    *)
(* one vanishes only for a head that add popped while it was handed over.  *)
(* LocationManager beside it, for any fixes, attempts, failing calls and   *)
(* restarts: its types, that a position confirmed is a fix, and that it    *)
(* leaves the pipeline alone.                                              *)
(***************************************************************************)
EXTENDS LocationManager, SequenceTheorems, FiniteSetTheorems, WellFoundedInduction,
        TLAPS

(* A set of naturals that is not empty has a least element.                *)
LEMMA LeastElement ==
  ASSUME NEW S \in SUBSET Nat, S # {}
  PROVE  \E i \in S : \A j \in S : i <= j
<1>1. PICK i \in S : \A j \in S : ~ (<<j, i>> \in OpToRel(<, Nat))
  BY NatLessThanWellFounded, WFMin, Zenon
<1>2. \A j \in S : ~ (j < i)
  BY <1>1, Zenon DEF OpToRel
<1> QED BY <1>2

(* What is left of a sequence without its first n elements.                *)
LEMMA Dropped ==
  ASSUME NEW S, NEW s \in Seq(S), NEW n \in 0 .. Len(s)
  PROVE  /\ SubSeq(s, n + 1, Len(s)) \in Seq(S)
         /\ Len(SubSeq(s, n + 1, Len(s))) = Len(s) - n
         /\ \A i \in 1 .. Len(s) - n : SubSeq(s, n + 1, Len(s))[i] = s[i + n]
<1>1. \A i \in n + 1 .. Len(s) : s[i] \in S
  BY ElementOfSeq
<1>2. /\ SubSeq(s, n + 1, Len(s)) \in Seq(S)
      /\ Len(SubSeq(s, n + 1, Len(s))) = IF n + 1 <= Len(s) THEN Len(s) - (n + 1) + 1 ELSE 0
      /\ \A i \in 1 .. Len(s) - (n + 1) + 1 : SubSeq(s, n + 1, Len(s))[i] = s[(n + 1) + i - 1]
  BY <1>1, LenProperties, SubSeqProperties
<1> QED BY <1>2, LenProperties

Without(s, i) == SubSeq(s, 1, i - 1) \o SubSeq(s, i + 1, Len(s))

(* What is left of it without the i-th.                                    *)
LEMMA Removed ==
  ASSUME NEW S, NEW s \in Seq(S), NEW i \in 1 .. Len(s)
  PROVE  /\ Without(s, i) \in Seq(S)
         /\ Len(Without(s, i)) = Len(s) - 1
         /\ \A j \in 1 .. Len(s) - 1 : Without(s, i)[j] = IF j < i THEN s[j] ELSE s[j + 1]
<1> DEFINE front == SubSeq(s, 1, i - 1)
           back  == SubSeq(s, i + 1, Len(s))
<1>0. Len(s) \in Nat
  BY LenProperties
<1>1. /\ back \in Seq(S) /\ Len(back) = Len(s) - i
      /\ \A j \in 1 .. Len(s) - i : back[j] = s[j + i]
  BY <1>0, Dropped
<1>2. \A j \in 1 .. i - 1 : s[j] \in S
  BY <1>0, ElementOfSeq
<1>3. /\ front \in Seq(S) /\ Len(front) = i - 1
      /\ \A j \in 1 .. i - 1 : front[j] = s[j]
  BY <1>0, <1>2, SubSeqProperties
<1> HIDE DEF front, back
<1>4. /\ front \o back \in Seq(S)
      /\ Len(front \o back) = Len(front) + Len(back)
      /\ \A j \in 1 .. Len(front) + Len(back) :
            (front \o back)[j] = IF j <= Len(front) THEN front[j] ELSE back[j - Len(front)]
  BY <1>1, <1>3, ConcatProperties
<1>5. \A j \in 1 .. Len(s) - 1 : (front \o back)[j] = IF j < i THEN s[j] ELSE s[j + 1]
  BY <1>0, <1>1, <1>3, <1>4
<1>6. Without(s, i) = front \o back
  BY DEF Without, front, back
<1> QED BY <1>0, <1>1, <1>3, <1>4, <1>5, <1>6

Waiting(t) == pc[t] \in {"len", "pop", "append"}

(* Only the main loop hands over; who has no payload in hand has none, and *)
(* who adds one has one that was created, as those in buffer.db were.      *)
ThreadsOK ==
  /\ \A i \in DOMAIN rows : rows[i] \in 1 .. born
  /\ \A t \in Threads :
        /\ t # Main => pc[t] \notin {"run", "first", "remove"}
        /\ pc[t] \in {"idle", "count", "first", "remove"} => token[t] = None
        /\ Waiting(t) => token[t] \in 1 .. born
        /\ pc[t] = "run" => token[t] \in Payloads

Element == [id : Nat, token : Payloads]

LEMMA PayloadFacts ==
  /\ None \notin Payloads
  /\ \A b \in 0 .. N : 1 .. b \subseteq Payloads
  /\ \A b \in 0 .. N : b < N => b + 1 \in 0 .. N /\ b + 1 \in Payloads
  /\ \A x \in Payloads : x \in Nat
BY ConstantsAssumption DEF Payloads, None

LEMMA ElementFacts ==
  /\ \A e \in Element : e.id \in Nat /\ e.token \in Payloads
  /\ \A id \in Nat, x \in Payloads : [id |-> id, token |-> x] \in Element
BY DEF Element

LEMMA LostFacts ==
  ASSUME lost \in [Reasons -> SUBSET Payloads]
  PROVE  /\ lost.cap \subseteq Payloads /\ lost.full \subseteq Payloads
         /\ lost.raised \subseteq Payloads /\ lost.crash \subseteq Payloads
         /\ lost.insert \subseteq Payloads
         /\ \A r \in Reasons, P \in SUBSET Payloads :
               [lost EXCEPT ![r] = @ \cup P] \in [Reasons -> SUBSET Payloads]
BY DEF Reasons

LEMMA ListFacts ==
  ASSUME TypeOK
  PROVE  /\ buffer \in Seq(Element)
         /\ Len(buffer) \in Nat /\ DOMAIN buffer = 1 .. Len(buffer)
         /\ \A i \in DOMAIN buffer : buffer[i].id \in Nat /\ buffer[i].token \in Payloads
         /\ buffer # << >> =>
               /\ 1 \in DOMAIN buffer /\ Head(buffer) = buffer[1]
               /\ Tail(buffer) \in Seq(Element)
               /\ Len(Tail(buffer)) = Len(buffer) - 1
               /\ \A i \in 1 .. Len(buffer) - 1 : Tail(buffer)[i] = buffer[i + 1]
         /\ \A e \in Element :
               /\ Append(buffer, e) \in Seq(Element)
               /\ Len(Append(buffer, e)) = Len(buffer) + 1
               /\ \A i \in 1 .. Len(buffer) : Append(buffer, e)[i] = buffer[i]
               /\ Append(buffer, e)[Len(buffer) + 1] = e
<1>1. buffer \in Seq(Element)
  BY DEF TypeOK, Element
<1>2. /\ Len(buffer) \in Nat /\ DOMAIN buffer = 1 .. Len(buffer)
      /\ \A i \in DOMAIN buffer : buffer[i] \in Element
  BY <1>1, LenProperties, ElementOfSeq
<1>3. buffer # << >> => Head(buffer) = buffer[1] /\ Len(buffer) # 0
  BY <1>1, EmptySeq
<1>4. buffer # << >> =>
        /\ Tail(buffer) \in Seq(Element)
        /\ Len(Tail(buffer)) = Len(buffer) - 1
        /\ \A i \in 1 .. Len(Tail(buffer)) : Tail(buffer)[i] = buffer[i + 1]
  BY <1>1, HeadTailProperties
<1>5. \A e \in Element :
        /\ Append(buffer, e) \in Seq(Element)
        /\ Len(Append(buffer, e)) = Len(buffer) + 1
        /\ \A i \in 1 .. Len(buffer) : Append(buffer, e)[i] = buffer[i]
        /\ Append(buffer, e)[Len(buffer) + 1] = e
  BY <1>1, AppendProperties
<1> QED BY <1>1, <1>2, <1>3, <1>4, <1>5, ElementFacts

(* remove_by_id takes the first element with the id out, or nothing.       *)
LEMMA RemovedFromList ==
  ASSUME TypeOK, DrainRemove
  PROVE  /\ buffer' \in Seq(Element)
         /\ \/ /\ buffer' = buffer
               /\ \A i \in DOMAIN buffer : buffer[i].id # firstId
            \/ \E i \in DOMAIN buffer :
                  /\ buffer[i].id = firstId
                  /\ \A j \in DOMAIN buffer : buffer[j].id = firstId => i <= j
                  /\ Len(buffer') = Len(buffer) - 1
                  /\ \A j \in 1 .. Len(buffer) - 1 :
                        buffer'[j] = IF j < i THEN buffer[j] ELSE buffer[j + 1]
<1> DEFINE found == {i \in DOMAIN buffer : buffer[i].id = firstId}
           first == CHOOSE i \in found : \A j \in found : i <= j
<1>1. buffer' = IF found = {} THEN buffer ELSE Without(buffer, first)
  BY DEF DrainRemove, Without
<1>2. CASE found = {}
  BY <1>1, <1>2, ListFacts
<1>3. CASE found # {}
  <2>1. \E i \in found : \A j \in found : i <= j
    <3>1. found \subseteq Nat
      BY ListFacts
    <3> HIDE DEF found
    <3> QED BY <1>3, <3>1, LeastElement
  <2>2. first \in found /\ \A j \in found : first <= j
    BY <2>1
  <2> HIDE DEF first
  <2>3. /\ Without(buffer, first) \in Seq(Element)
        /\ Len(Without(buffer, first)) = Len(buffer) - 1
        /\ \A j \in 1 .. Len(buffer) - 1 :
              Without(buffer, first)[j] = IF j < first THEN buffer[j] ELSE buffer[j + 1]
    <3>1. buffer \in Seq(Element) /\ first \in 1 .. Len(buffer)
      BY <2>2, ListFacts
    <3> QED BY <3>1, Removed
  <2> QED BY <1>1, <1>3, <2>2, <2>3
<1> QED BY <1>2, <1>3

-----------------------------------------------------------------------------
(* Types and threads.                                                      *)
LEMMA InitTypes == ASSUME Init PROVE TypeOK /\ ThreadsOK
<1> USE DEF Init
<1>1. lost \in [Reasons -> SUBSET Payloads]
  BY DEF Reasons
<1>2. << >> \in Seq(Payloads) /\ << >> \in Seq([id : Nat, token : Payloads])
  BY EmptySeq
<1>3. born \in 0 .. N /\ crashes \in 0 .. MaxCrashes
  BY ConstantsAssumption
<1>4. TypeOK
  BY <1>1, <1>2, <1>3 DEF TypeOK
<1>5. ThreadsOK
  BY DEF ThreadsOK, Waiting
<1> QED BY <1>4, <1>5

LEMMA BufferDbTypes ==
  ASSUME TypeOK, ThreadsOK, NEW p \in Integrations, BufferCount(p) \/ BufferInsert(p)
  PROVE  TypeOK' /\ ThreadsOK'
<1>0. Len(rows) \in Nat
  BY LenProperties DEF TypeOK
<1>1. CASE BufferCount(p)
  BY <1>0, <1>1 DEF BufferCount, coreVars, TypeOK, ThreadsOK, Waiting
<1>2. CASE BufferInsert(p)
  <2> DEFINE excess == counted[p] - MAX_BUFFER_ROWS + 1
             purged == IF excess < 1 THEN 0
                       ELSE IF excess > Len(rows) THEN Len(rows) ELSE excess
  <2>1. purged \in 0 .. Len(rows)
    BY <1>0, <1>2, ConstantsAssumption DEF BufferInsert, TypeOK, None
  <2>2. /\ rows' = Append(SubSeq(rows, purged + 1, Len(rows)), born + 1)
        /\ lost' = [lost EXCEPT !.cap = @ \cup Elements(SubSeq(rows, 1, purged))]
        /\ born' = born + 1 /\ born < N
        /\ counted' = [counted EXCEPT ![p] = None]
        /\ UNCHANGED <<coreVars, setupMode, added, handed, crashes>>
    BY <1>2 DEF BufferInsert
  <2> HIDE DEF purged
  <2>3. rows' \in Seq(Payloads)
    <3>1. rows \in Seq(Payloads) /\ born + 1 \in Payloads
      BY <2>2, PayloadFacts DEF TypeOK
    <3>2. SubSeq(rows, purged + 1, Len(rows)) \in Seq(Payloads)
      BY <2>1, <3>1, Dropped
    <3> QED BY <2>2, <3>1, <3>2, AppendProperties
  <2>4. Elements(SubSeq(rows, 1, purged)) \subseteq Payloads
    <3>1. \A i \in 1 .. purged : rows[i] \in Payloads
      BY <1>0, <2>1, ElementOfSeq DEF TypeOK
    <3>2. SubSeq(rows, 1, purged) \in Seq(Payloads)
      BY <2>1, <3>1, SubSeqProperties
    <3> QED BY <3>2, LenProperties DEF Elements
  <2>5. lost' \in [Reasons -> SUBSET Payloads]
    BY <2>2, <2>4, LostFacts DEF TypeOK, Reasons
  <2>6. born' \in 0 .. N /\ counted' \in [Integrations -> Nat \cup {None}]
    BY <2>2, PayloadFacts DEF TypeOK
  <2>7. \A i \in DOMAIN rows' : rows'[i] \in 1 .. born'
    <3> DEFINE kept == SubSeq(rows, purged + 1, Len(rows))
    <3>1. /\ kept \in Seq(Payloads) /\ Len(kept) = Len(rows) - purged
          /\ \A i \in 1 .. Len(rows) - purged : kept[i] = rows[i + purged]
      BY <2>1, Dropped DEF TypeOK
    <3> HIDE DEF kept
    <3>2. rows' = Append(kept, born + 1) /\ born + 1 \in Payloads /\ born \in Nat
      BY <2>2, PayloadFacts DEF kept, TypeOK
    <3>3. /\ rows' \in Seq(Payloads) /\ Len(rows') = Len(kept) + 1
          /\ \A i \in 1 .. Len(kept) : rows'[i] = kept[i]
          /\ rows'[Len(kept) + 1] = born + 1
      BY <3>1, <3>2, AppendProperties
    <3>4. DOMAIN rows' = 1 .. Len(rows') /\ DOMAIN rows = 1 .. Len(rows)
      BY <3>3, LenProperties DEF TypeOK
    <3>5. \A i \in 1 .. Len(rows) : rows[i] \in 1 .. born
      BY <3>4 DEF ThreadsOK
    <3>6. \A i \in 1 .. Len(kept) : kept[i] \in 1 .. born
      BY <1>0, <2>1, <3>1, <3>5
    <3>9. born' = born + 1 /\ born \in Nat
      BY <2>2, <3>2
    <3>7. \A i \in 1 .. Len(kept) : rows'[i] \in 1 .. born'
      <4> SUFFICES ASSUME NEW i \in 1 .. Len(kept) PROVE rows'[i] \in 1 .. born'
        OBVIOUS
      <4>1. rows'[i] = kept[i] /\ kept[i] \in 1 .. born
        BY <3>3, <3>6
      <4> QED BY <3>9, <4>1
    <3>8. Len(kept) \in Nat
      BY <1>0, <2>1, <3>1
    <3> QED BY <2>2, <3>2, <3>3, <3>4, <3>7, <3>8
  <2>8. \A t \in Threads : token[t] \in 1 .. born => token[t] \in 1 .. born'
    BY <2>2 DEF TypeOK
  <2>9. UNCHANGED <<pc, token>>
    BY <2>2 DEF coreVars
  <2>10. ThreadsOK'
    BY <2>7, <2>8, <2>9 DEF ThreadsOK, Waiting
  <2> QED BY <2>2, <2>3, <2>5, <2>6, <2>10 DEF coreVars, TypeOK
<1> QED BY <1>1, <1>2

LEMMA AddTypes ==
  ASSUME TypeOK, ThreadsOK, NEW t \in Threads, NewEvent(t) \/ Add(t)
  PROVE  TypeOK' /\ ThreadsOK'
<1> USE PayloadFacts DEF GoTo
<1>1. CASE NewEvent(t)
  BY <1>1 DEF NewEvent, TypeOK, ThreadsOK, Waiting
<1>2. CASE AddLen(t)
  BY <1>2 DEF AddLen, TypeOK, ThreadsOK, Waiting
<1>3. CASE AddPop(t)
  <2>1. buffer' \in Seq(Element) /\ {Head(buffer).token} \subseteq Payloads
    BY <1>3, ListFacts DEF AddPop
  <2>2. lost' \in [Reasons -> SUBSET Payloads]
    BY <1>3, <2>1, LostFacts DEF AddPop, Reasons, TypeOK
  <2>3. ThreadsOK'
    BY <1>3 DEF AddPop, ThreadsOK, Waiting, TypeOK
  <2> QED BY <1>3, <2>1, <2>2, <2>3 DEF AddPop, Element, TypeOK
<1>4. CASE AddRaises(t)
  <2>1. {token[t]} \subseteq Payloads
    BY <1>4 DEF AddRaises, ThreadsOK, Waiting, TypeOK
  <2>2. lost' \in [Reasons -> SUBSET Payloads]
    BY <1>4, <2>1, LostFacts DEF AddRaises, Reasons, TypeOK
  <2> QED BY <1>4, <2>2 DEF AddRaises, TypeOK, ThreadsOK, Waiting
<1>5. CASE AddAppend(t)
  <2>1. token[t] \in Payloads /\ [id |-> idCounter, token |-> token[t]] \in Element
    BY <1>5, ElementFacts DEF AddAppend, ThreadsOK, Waiting, TypeOK
  <2>2. buffer' \in Seq(Element)
    BY <1>5, <2>1, ListFacts DEF AddAppend
  <2>3. added' \in Seq(Payloads)
    BY <1>5, <2>1, AppendProperties DEF AddAppend, TypeOK
  <2>4. ThreadsOK'
    BY <1>5 DEF AddAppend, ThreadsOK, Waiting, TypeOK
  <2> QED BY <1>5, <2>2, <2>3, <2>4 DEF AddAppend, Element, TypeOK
<1>6. CASE AddCount(t)
  BY <1>6 DEF AddCount, TypeOK, ThreadsOK, Waiting
<1> QED BY <1>1, <1>2, <1>3, <1>4, <1>5, <1>6 DEF Add

LEMMA MainTypes ==
  ASSUME TypeOK, ThreadsOK, ConsumeJson \/ Drain \/ SetupToggle \/ CoreCrash
  PROVE  TypeOK' /\ ThreadsOK'
<1> USE PayloadFacts DEF GoTo
<1>0. Main \in Threads
  BY DEF Threads
<1>1. CASE ConsumeJson
  <2>1. /\ Tail(rows) \in Seq(Payloads) /\ Len(Tail(rows)) = Len(rows) - 1
        /\ \A i \in 1 .. Len(Tail(rows)) : Tail(rows)[i] = rows[i + 1]
    BY <1>1, HeadTailProperties DEF ConsumeJson, TypeOK
  <2>2. /\ Len(rows) \in Nat \ {0} /\ DOMAIN rows = 1 .. Len(rows)
        /\ DOMAIN Tail(rows) = 1 .. Len(Tail(rows))
        /\ Head(rows) = rows[1]
    BY <1>1, <2>1, EmptySeq, LenProperties DEF ConsumeJson, TypeOK
  <2>3. Head(rows) \in 1 .. born
    BY <2>2 DEF ThreadsOK
  <2>4. \A i \in DOMAIN Tail(rows) : Tail(rows)[i] \in 1 .. born
    BY <2>1, <2>2 DEF ThreadsOK
  <2>5. TypeOK'
    BY <1>0, <1>1, <2>1, <2>3 DEF ConsumeJson, TypeOK
  <2> QED BY <1>0, <1>1, <2>3, <2>4, <2>5 DEF ConsumeJson, TypeOK, ThreadsOK, Waiting
<1>2. CASE DrainPeek
  <2>1. Head(buffer).token \in Payloads
    BY <1>2, ListFacts DEF DrainPeek
  <2> QED BY <1>0, <1>2, <2>1 DEF DrainPeek, TypeOK, ThreadsOK, Waiting
<1>3. CASE DrainRun
  <2>1. token[Main] \in Payloads
    BY <1>0, <1>3 DEF DrainRun, ThreadsOK
  <2>2. [lost EXCEPT !.insert = @ \cup {token[Main]}] \in [Reasons -> SUBSET Payloads]
    BY <2>1, LostFacts DEF Reasons, TypeOK
  <2>3. Append(handed, token[Main]) \in Seq(Payloads)
    BY <2>1, AppendProperties DEF TypeOK
  <2> QED BY <1>0, <1>3, <2>2, <2>3 DEF DrainRun, TypeOK, ThreadsOK, Waiting
<1>4. CASE DrainFirst
  <2>1. firstId' \in Nat \cup {None}
    BY <1>4, ListFacts DEF DrainFirst, TypeOK
  <2> QED BY <1>0, <1>4, <2>1 DEF DrainFirst, TypeOK, ThreadsOK, Waiting
<1>5. CASE DrainRemove
  <2>1. buffer' \in Seq(Element)
    BY <1>5, RemovedFromList
  <2> QED BY <1>0, <1>5, <2>1 DEF DrainRemove, TypeOK, ThreadsOK, Waiting, Element
<1>6. CASE SetupToggle
  BY <1>6 DEF SetupToggle, coreVars, TypeOK, ThreadsOK, Waiting
<1>7. CASE CoreCrash
  <2> DEFINE gone == (Tokens \cup {token[t] : t \in Threads}) \ (Elements(handed) \cup {None})
  <2>1. gone \subseteq Payloads
    BY ListFacts DEF Tokens, TypeOK
  <2>2. lost' = [lost EXCEPT !.crash = @ \cup gone]
    BY <1>7 DEF CoreCrash
  <2> HIDE DEF gone
  <2>3. lost' \in [Reasons -> SUBSET Payloads]
    BY <2>1, <2>2, LostFacts DEF Reasons, TypeOK
  <2>4. buffer' \in Seq([id : Nat, token : Payloads])
    BY <1>7, EmptySeq DEF CoreCrash
  <2>5. crashes' \in 0 .. MaxCrashes
    BY <1>7, ConstantsAssumption DEF CoreCrash, TypeOK
  <2>6. TypeOK'
    BY <1>7, <2>3, <2>4, <2>5 DEF CoreCrash, TypeOK
  <2> QED BY <1>7, <2>6 DEF CoreCrash, TypeOK, ThreadsOK, Waiting
<1> QED BY <1>1, <1>2, <1>3, <1>4, <1>5, <1>6, <1>7 DEF Drain

LEMMA TypesKept ==
  ASSUME TypeOK, ThreadsOK, [Next]_vars
  PROVE  TypeOK' /\ ThreadsOK'
<1>1. CASE UNCHANGED vars
  BY <1>1 DEF vars, coreVars, TypeOK, ThreadsOK, Waiting
<1>2. CASE Next
  BY <1>2, BufferDbTypes, AddTypes, MainTypes DEF Next
<1> QED BY <1>1, <1>2

(* The types, for every value of the constants.                            *)
THEOREM TypeCorrect == Spec => [](TypeOK /\ ThreadsOK)
<1>1. Init => TypeOK /\ ThreadsOK
  BY InitTypes
<1>2. TypeOK /\ ThreadsOK /\ [Next]_vars => (TypeOK /\ ThreadsOK)'
  BY TypesKept
<1> QED BY <1>1, <1>2, PTL DEF Spec

-----------------------------------------------------------------------------
(* The cap of buffer.db.  Who has counted fewer rows than the cap will add *)
(* one without a purge; who has counted more purges at least one, unless   *)
(* there is none left.                                                     *)
Low == {p \in Integrations : counted[p] # None /\ counted[p] < MAX_BUFFER_ROWS}

CapInv == Len(rows) + Cardinality(Low) < MAX_BUFFER_ROWS + Cardinality(Integrations)

LEMMA LowFacts ==
  /\ IsFiniteSet(Low) /\ Cardinality(Low) \in Nat
  /\ Cardinality(Integrations) \in Nat /\ Cardinality(Low) <= Cardinality(Integrations)
  /\ \A p \in Integrations :
       /\ p \in Low => Cardinality(Low \ {p}) = Cardinality(Low) - 1
       /\ p \notin Low => /\ Low \ {p} = Low
                          /\ Cardinality(Low) <= Cardinality(Integrations) - 1
<1>1. Low \in SUBSET Integrations /\ IsFiniteSet(Integrations)
  BY ConstantsAssumption DEF Low
<1>2. /\ IsFiniteSet(Low) /\ Cardinality(Low) \in Nat
      /\ Cardinality(Integrations) \in Nat /\ Cardinality(Low) <= Cardinality(Integrations)
  BY <1>1, FS_Subset, FS_CardinalityType
<1>3. ASSUME NEW p \in Integrations, p \in Low
      PROVE  Cardinality(Low \ {p}) = Cardinality(Low) - 1
  BY <1>2, <1>3, FS_RemoveElement
<1>4. ASSUME NEW p \in Integrations, p \notin Low
      PROVE  Low \ {p} = Low /\ Cardinality(Low) <= Cardinality(Integrations) - 1
  <2>1. /\ IsFiniteSet(Integrations \ {p})
        /\ Cardinality(Integrations \ {p}) = Cardinality(Integrations) - 1
    BY <1>1, <1>4, FS_RemoveElement
  <2>2. Low \in SUBSET (Integrations \ {p})
    BY <1>1, <1>4
  <2> QED BY <1>4, <2>1, <2>2, FS_Subset
<1> QED BY <1>2, <1>3, <1>4

LEMMA InsertLength ==
  ASSUME TypeOK, NEW p \in Integrations, BufferInsert(p)
  PROVE  /\ counted' = [counted EXCEPT ![p] = None]
         /\ counted[p] \in Nat /\ Len(rows) \in Nat /\ Len(rows') \in Nat
         /\ counted[p] < MAX_BUFFER_ROWS => Len(rows') = Len(rows) + 1
         /\ counted[p] >= MAX_BUFFER_ROWS =>
              Len(rows') <= IF Len(rows) = 0 THEN 1 ELSE Len(rows)
<1> DEFINE excess == counted[p] - MAX_BUFFER_ROWS + 1
           purged == IF excess < 1 THEN 0
                     ELSE IF excess > Len(rows) THEN Len(rows) ELSE excess
           kept == SubSeq(rows, purged + 1, Len(rows))
<1>1. /\ counted' = [counted EXCEPT ![p] = None] /\ rows' = Append(kept, born + 1)
      /\ counted[p] \in Nat /\ MAX_BUFFER_ROWS \in Nat \ {0} /\ born < N
  BY ConstantsAssumption DEF BufferInsert, TypeOK, None
<1>2. Len(rows) \in Nat /\ rows \in Seq(Payloads) /\ born + 1 \in Payloads
  BY <1>1, LenProperties, PayloadFacts DEF TypeOK
<1>3. /\ purged \in 0 .. Len(rows)
      /\ counted[p] < MAX_BUFFER_ROWS => purged = 0
      /\ counted[p] >= MAX_BUFFER_ROWS /\ Len(rows) # 0 => purged >= 1
  BY <1>1, <1>2
<1> HIDE DEF purged
<1>4. kept \in Seq(Payloads) /\ Len(kept) = Len(rows) - purged
  BY <1>2, <1>3, Dropped
<1> HIDE DEF kept
<1>5. Len(rows') = Len(kept) + 1
  BY <1>1, <1>2, <1>4, AppendProperties
<1> QED BY <1>1, <1>2, <1>3, <1>4, <1>5

LEMMA CapKept ==
  ASSUME TypeOK, CapInv, [Next]_vars
  PROVE  CapInv'
<1>0. Len(rows) \in Nat /\ MAX_BUFFER_ROWS \in Nat \ {0}
  BY LenProperties, ConstantsAssumption DEF TypeOK
<1>1. ASSUME NEW p \in Integrations, BufferCount(p) PROVE CapInv'
  <2>1. rows' = rows /\ counted' = [counted EXCEPT ![p] = Len(rows)] /\ counted[p] = None
    BY <1>1 DEF BufferCount
  <2>2. CASE Len(rows) < MAX_BUFFER_ROWS
    <3>1. IsFiniteSet(Integrations) /\ Low' \in SUBSET Integrations
      BY ConstantsAssumption DEF Low
    <3>2. Cardinality(Low') <= Cardinality(Integrations) /\ Cardinality(Low') \in Nat
      BY <3>1, FS_Subset, FS_CardinalityType
    <3> QED BY <1>0, <2>1, <2>2, <3>2, LowFacts DEF CapInv
  <2>3. CASE ~ (Len(rows) < MAX_BUFFER_ROWS)
    <3>1. Low' = Low
      BY <1>0, <2>1, <2>3 DEF Low, TypeOK
    <3> QED BY <2>1, <3>1 DEF CapInv
  <2> QED BY <2>2, <2>3
<1>2. ASSUME NEW p \in Integrations, BufferInsert(p) PROVE CapInv'
  <2>1. Low' = Low \ {p}
    BY <1>2, InsertLength DEF Low, TypeOK
  <2>3. CASE counted[p] < MAX_BUFFER_ROWS
    <3>1. p \in Low
      BY <1>2, <2>3, InsertLength DEF Low, None
    <3> QED BY <1>0, <1>2, <2>1, <2>3, <3>1, InsertLength, LowFacts DEF CapInv
  <2>4. CASE ~ (counted[p] < MAX_BUFFER_ROWS)
    <3>1. p \notin Low
      BY <2>4 DEF Low
    <3>2. Len(rows') <= IF Len(rows) = 0 THEN 1 ELSE Len(rows)
      BY <1>0, <1>2, <2>4, InsertLength
    <3>3. Len(rows') \in Nat /\ Len(rows) \in Nat
      BY <1>2, InsertLength
    <3>4. /\ Low' = Low /\ Cardinality(Low) <= Cardinality(Integrations) - 1
          /\ Cardinality(Low) \in Nat /\ Cardinality(Integrations) \in Nat
      BY <2>1, <3>1, LowFacts
    <3>5. Len(rows) + Cardinality(Low) < MAX_BUFFER_ROWS + Cardinality(Integrations)
      BY DEF CapInv
    <3>6. Len(rows') + Cardinality(Low) < MAX_BUFFER_ROWS + Cardinality(Integrations)
      BY <1>0, <3>2, <3>3, <3>4, <3>5
    <3> QED BY <3>4, <3>6 DEF CapInv
  <2> QED BY <2>3, <2>4
<1>3. CASE ConsumeJson
  <2>1. Len(rows') = Len(rows) - 1 /\ UNCHANGED counted
    BY <1>3, HeadTailProperties DEF ConsumeJson, TypeOK
  <2>2. Low' = Low
    BY <2>1 DEF Low
  <2> QED BY <1>0, <2>1, <2>2, LowFacts DEF CapInv
<1>4. CASE UNCHANGED <<rows, counted>>
  BY <1>4 DEF CapInv, Low
<1>5. (\E t \in Threads : NewEvent(t) \/ Add(t)) => UNCHANGED <<rows, counted>>
  BY DEF NewEvent, Add, AddLen, AddPop, AddRaises, AddAppend, AddCount
<1>6. Drain => UNCHANGED <<rows, counted>>
  BY DEF Drain, DrainPeek, DrainRun, DrainFirst, DrainRemove
<1>7. SetupToggle \/ CoreCrash \/ UNCHANGED vars => UNCHANGED <<rows, counted>>
  BY DEF SetupToggle, CoreCrash, vars
<1> QED BY <1>1, <1>2, <1>3, <1>4, <1>5, <1>6, <1>7 DEF Next

(* OvershootBounded (insert_json_to_db), for any number of writers.        *)
THEOREM OvershootIsAlwaysBounded == Spec => []OvershootBounded
<1>1. Init => CapInv
  <2> SUFFICES ASSUME Init PROVE CapInv
    OBVIOUS
  <2>1. Len(rows) = 0 /\ Low = {}
    BY EmptySeq DEF Init, Low
  <2> QED BY <2>1, FS_EmptySet, LowFacts, ConstantsAssumption DEF CapInv
<1>2. TypeOK /\ CapInv /\ [Next]_vars => CapInv'
  BY CapKept
<1>3. TypeOK /\ CapInv => OvershootBounded
  <2> SUFFICES ASSUME TypeOK, CapInv PROVE OvershootBounded
    OBVIOUS
  <2>1. Len(rows) \in Nat /\ MAX_BUFFER_ROWS \in Nat
    BY LenProperties, ConstantsAssumption DEF TypeOK
  <2> QED BY <2>1, LowFacts DEF CapInv, OvershootBounded
<1> QED BY <1>1, <1>2, <1>3, TypeCorrect, PTL DEF Spec

-----------------------------------------------------------------------------
(* Every payload joins the list once: what is in buffer.db or in the hands *)
(* of a thread that adds has not been added, and is there once.            *)
Once ==
    /\ \A i, j \in DOMAIN rows : rows[i] = rows[j] => i = j
    /\ \A i \in DOMAIN rows :
          /\ rows[i] \notin Elements(added)
          /\ \A t \in Threads : Waiting(t) => token[t] # rows[i]
    /\ \A t \in Threads : Waiting(t) => token[t] \notin Elements(added)
    /\ \A t, u \in Threads : Waiting(t) /\ Waiting(u) /\ token[t] = token[u] => t = u
    /\ \A k \in DOMAIN added : added[k] \in 1 .. born
    /\ \A k, l \in DOMAIN added : added[k] = added[l] => k = l

(* x has joined the list before y.                                         *)
InOrder(s, x, y) == \E k, l \in DOMAIN s : k < l /\ s[k] = x /\ s[l] = y
Before(x, y) == InOrder(added, x, y)

(* What insert_json_to_db leaves: the newest rows and the new one.         *)
LEMMA InsertRows ==
  ASSUME TypeOK, NEW p \in Integrations, BufferInsert(p)
  PROVE  /\ DOMAIN rows = 1 .. Len(rows) /\ Len(rows) \in Nat
         /\ \E d \in 0 .. Len(rows) :
              /\ DOMAIN rows' = 1 .. (Len(rows) - d) + 1
              /\ \A i \in 1 .. Len(rows) - d : rows'[i] = rows[i + d]
              /\ rows'[(Len(rows) - d) + 1] = born + 1
<1> DEFINE excess == counted[p] - MAX_BUFFER_ROWS + 1
           purged == IF excess < 1 THEN 0
                     ELSE IF excess > Len(rows) THEN Len(rows) ELSE excess
           kept == SubSeq(rows, purged + 1, Len(rows))
<1>1. /\ rows' = Append(kept, born + 1)
      /\ counted[p] \in Nat /\ MAX_BUFFER_ROWS \in Nat \ {0} /\ born < N
  BY ConstantsAssumption DEF BufferInsert, TypeOK, None
<1>2. /\ Len(rows) \in Nat /\ DOMAIN rows = 1 .. Len(rows)
      /\ rows \in Seq(Payloads) /\ born + 1 \in Payloads
  BY <1>1, LenProperties, PayloadFacts DEF TypeOK
<1>3. purged \in 0 .. Len(rows)
  BY <1>1, <1>2
<1> HIDE DEF purged
<1>4. /\ kept \in Seq(Payloads) /\ Len(kept) = Len(rows) - purged
      /\ \A i \in 1 .. Len(rows) - purged : kept[i] = rows[i + purged]
  BY <1>2, <1>3, Dropped
<1> HIDE DEF kept
<1>5. /\ rows' \in Seq(Payloads) /\ Len(rows') = Len(kept) + 1
      /\ \A i \in 1 .. Len(kept) : rows'[i] = kept[i]
      /\ rows'[Len(kept) + 1] = born + 1
  BY <1>1, <1>2, <1>4, AppendProperties
<1>6. DOMAIN rows' = 1 .. Len(rows')
  BY <1>5, LenProperties
<1>7. /\ DOMAIN rows' = 1 .. (Len(rows) - purged) + 1
      /\ \A i \in 1 .. Len(rows) - purged : rows'[i] = rows[i + purged]
      /\ rows'[(Len(rows) - purged) + 1] = born + 1
  BY <1>4, <1>5, <1>6
<1> QED BY <1>2, <1>3, <1>7

(* What get_and_delete_json_from_db leaves.                                *)
LEMMA ConsumeRows ==
  ASSUME TypeOK, ConsumeJson
  PROVE  /\ DOMAIN rows = 1 .. Len(rows) /\ Len(rows) \in Nat \ {0}
         /\ DOMAIN rows' = 1 .. Len(rows) - 1
         /\ \A i \in 1 .. Len(rows) - 1 : rows'[i] = rows[i + 1]
         /\ token' = [token EXCEPT ![Main] = rows[1]]
<1>1. /\ Tail(rows) \in Seq(Payloads) /\ Len(Tail(rows)) = Len(rows) - 1
      /\ \A i \in 1 .. Len(Tail(rows)) : Tail(rows)[i] = rows[i + 1]
  BY HeadTailProperties DEF ConsumeJson, TypeOK
<1>2. /\ Len(rows) \in Nat \ {0} /\ DOMAIN rows = 1 .. Len(rows)
      /\ DOMAIN Tail(rows) = 1 .. Len(Tail(rows))
      /\ Head(rows) = rows[1]
  BY <1>1, EmptySeq, LenProperties DEF ConsumeJson, TypeOK
<1> QED BY <1>1, <1>2 DEF ConsumeJson

(* The history of the list only grows, and what joins it joins it last.    *)
LEMMA AddedGrows ==
  ASSUME TypeOK, ThreadsOK, NEW t \in Threads, AddAppend(t)
  PROVE  /\ Waiting(t) /\ token[t] \in 1 .. born
         /\ DOMAIN added = 1 .. Len(added) /\ Len(added) \in Nat
         /\ DOMAIN added' = 1 .. Len(added) + 1
         /\ \A k \in DOMAIN added : added'[k] = added[k]
         /\ added'[Len(added) + 1] = token[t]
         /\ Elements(added') = Elements(added) \cup {token[t]}
         /\ \A x, y : Before(x, y) => InOrder(added', x, y)
         /\ \A x \in Elements(added) : InOrder(added', x, token[t])
<1>1. Waiting(t) /\ token[t] \in 1 .. born /\ token[t] \in Payloads
  BY PayloadFacts DEF AddAppend, ThreadsOK, Waiting, TypeOK
<1>2. added \in Seq(Payloads) /\ added' = Append(added, token[t])
  BY DEF TypeOK, AddAppend
<1>3. /\ added' \in Seq(Payloads) /\ Len(added') = Len(added) + 1
      /\ \A k \in 1 .. Len(added) : added'[k] = added[k]
      /\ added'[Len(added) + 1] = token[t]
  BY <1>1, <1>2, AppendProperties
<1>4. /\ DOMAIN added = 1 .. Len(added) /\ Len(added) \in Nat
      /\ DOMAIN added' = 1 .. Len(added) + 1
  BY <1>2, <1>3, LenProperties
<1>5. Elements(added') = Elements(added) \cup {token[t]}
  <2>1. \A x \in Elements(added') : x \in Elements(added) \cup {token[t]}
    BY <1>3, <1>4 DEF Elements
  <2>2. \A x \in Elements(added) : x \in Elements(added')
    BY <1>3, <1>4 DEF Elements
  <2>3. token[t] \in Elements(added')
    BY <1>3, <1>4 DEF Elements
  <2> QED BY <2>1, <2>2, <2>3
<1>6. ASSUME NEW x, NEW y, Before(x, y) PROVE InOrder(added', x, y)
  BY <1>3, <1>4, <1>6 DEF Before, InOrder
<1>7. ASSUME NEW x \in Elements(added) PROVE InOrder(added', x, token[t])
  <2>1. PICK k \in DOMAIN added : added[k] = x
    BY DEF Elements
  <2>2. k \in DOMAIN added' /\ Len(added) + 1 \in DOMAIN added' /\ k < Len(added) + 1
    BY <1>4
  <2>3. added'[k] = x /\ added'[Len(added) + 1] = token[t]
    BY <1>3, <1>4, <2>1
  <2>4. \E i, j \in DOMAIN added' : i < j /\ added'[i] = x /\ added'[j] = token[t]
    BY <2>2, <2>3
  <2> QED BY <2>4 DEF Before, InOrder
<1> QED BY <1>1, <1>3, <1>4, <1>5, <1>6, <1>7

(* A step that moves no payload that has still to be added.                *)
LEMMA OnceQuiet ==
  ASSUME Once, UNCHANGED <<rows, added, born>>,
         \A t \in Threads : Waiting(t)' => Waiting(t) /\ token'[t] = token[t]
  PROVE  Once'
<1> USE DEF Once
<1>1. Once!1' /\ Once!5' /\ Once!6'
  OBVIOUS
<1>2. Once!2' /\ Once!3' /\ Once!4'
  OBVIOUS
<1> QED BY <1>1, <1>2

LEMMA OnceKept ==
  ASSUME TypeOK, ThreadsOK, Once, [Next]_vars
  PROVE  Once'
<1>0. Main \in Threads /\ born \in Nat /\ added \in Seq(Payloads)
  BY ConstantsAssumption DEF Threads, TypeOK
<1>1. ASSUME NEW p \in Integrations, BufferInsert(p) PROVE Once'
  <2>1. UNCHANGED <<added, pc, token>> /\ born' = born + 1
    BY <1>1 DEF BufferInsert, coreVars
  <2>2. PICK d \in 0 .. Len(rows) :
              /\ DOMAIN rows' = 1 .. (Len(rows) - d) + 1
              /\ \A i \in 1 .. Len(rows) - d : rows'[i] = rows[i + d]
              /\ rows'[(Len(rows) - d) + 1] = born + 1
    BY <1>1, InsertRows
  <2>3. DOMAIN rows = 1 .. Len(rows) /\ Len(rows) \in Nat
    BY <1>1, InsertRows
  <2>4. \A i \in 1 .. Len(rows) - d : i + d \in DOMAIN rows
    BY <2>3
  <2>5. \A i \in DOMAIN rows : rows[i] \in 1 .. born
    BY DEF ThreadsOK
  <2>6. \A i, j \in DOMAIN rows' : rows'[i] = rows'[j] => i = j
    <3> SUFFICES ASSUME NEW i \in DOMAIN rows', NEW j \in DOMAIN rows', rows'[i] = rows'[j]
                 PROVE  i = j
      OBVIOUS
    <3>0. /\ i \in Int /\ j \in Int /\ Len(rows) - d \in Int
          /\ 1 <= i /\ i <= (Len(rows) - d) + 1
          /\ 1 <= j /\ j <= (Len(rows) - d) + 1
      BY <2>2, <2>3
    <3>1. CASE i \in 1 .. Len(rows) - d /\ j \in 1 .. Len(rows) - d
      <4>1. i + d \in DOMAIN rows /\ j + d \in DOMAIN rows /\ rows[i + d] = rows[j + d]
        BY <2>2, <2>4, <3>1
      <4>2. i + d = j + d
        BY <4>1 DEF Once
      <4> QED BY <2>2, <2>3, <3>1, <4>2
    <3>2. CASE ~ (i \in 1 .. Len(rows) - d) /\ j \in 1 .. Len(rows) - d
      <4>0. i = (Len(rows) - d) + 1
        BY <3>0, <3>2
      <4>1. rows'[i] = born + 1
        BY <2>2, <4>0
      <4>2. j + d \in DOMAIN rows /\ rows'[j] = rows[j + d]
        BY <2>2, <2>4, <3>2
      <4>3. rows'[j] \in 1 .. born
        BY <2>5, <4>2
      <4> QED BY <1>0, <4>1, <4>3
    <3>3. CASE i \in 1 .. Len(rows) - d /\ ~ (j \in 1 .. Len(rows) - d)
      <4>0. j = (Len(rows) - d) + 1
        BY <3>0, <3>3
      <4>1. rows'[j] = born + 1
        BY <2>2, <4>0
      <4>2. i + d \in DOMAIN rows /\ rows'[i] = rows[i + d]
        BY <2>2, <2>4, <3>3
      <4>3. rows'[i] \in 1 .. born
        BY <2>5, <4>2
      <4> QED BY <1>0, <4>1, <4>3
    <3>4. CASE ~ (i \in 1 .. Len(rows) - d) /\ ~ (j \in 1 .. Len(rows) - d)
      BY <3>0, <3>4
    <3> QED BY <3>1, <3>2, <3>3, <3>4
  <2>7. \A i \in DOMAIN rows' : rows'[i] = born + 1 \/ \E j \in DOMAIN rows : rows'[i] = rows[j]
    BY <2>2, <2>3, <2>4
  <2>8. /\ born + 1 \notin Elements(added)
        /\ \A t \in Threads : Waiting(t) => token[t] # born + 1
    BY <1>0 DEF Once, Elements, ThreadsOK
  <2>9. \A i \in DOMAIN rows' :
          /\ rows'[i] \notin Elements(added)
          /\ \A t \in Threads : Waiting(t) => token[t] # rows'[i]
    BY <2>7, <2>8 DEF Once
  <2>10. \A k \in DOMAIN added : added[k] \in 1 .. born + 1
    BY <1>0 DEF Once
  <2> QED BY <2>1, <2>6, <2>9, <2>10 DEF Once, Waiting
<1>2. ASSUME NEW t \in Threads, NewEvent(t) PROVE Once'
  <2>1. /\ UNCHANGED <<rows, added>> /\ born' = born + 1
        /\ token' = [token EXCEPT ![t] = born + 1] /\ pc' = [pc EXCEPT ![t] = "len"]
    BY <1>2 DEF NewEvent, GoTo
  <2>2. /\ born + 1 \notin Elements(added)
        /\ \A u \in Threads : Waiting(u) => token[u] # born + 1
        /\ \A i \in DOMAIN rows : rows[i] # born + 1
    BY <1>0 DEF Once, Elements, ThreadsOK
  <2>3. /\ token'[t] = born + 1
        /\ \A u \in Threads \ {t} : token'[u] = token[u] /\ Waiting(u)' = Waiting(u)
    BY <2>1 DEF TypeOK, Waiting
  <2>4. \A k \in DOMAIN added : added[k] \in 1 .. born + 1
    BY <1>0 DEF Once
  <2> QED BY <2>1, <2>2, <2>3, <2>4 DEF Once
<1>3. CASE ConsumeJson
  <2>1. UNCHANGED <<added, born>> /\ pc' = [pc EXCEPT ![Main] = "len"]
    BY <1>3 DEF ConsumeJson, GoTo
  <2>2. /\ token'[Main] = rows[1] /\ 1 \in DOMAIN rows
        /\ \A u \in Threads \ {Main} : token'[u] = token[u] /\ Waiting(u)' = Waiting(u)
    BY <1>0, <1>3, <2>1, ConsumeRows DEF TypeOK, Waiting
  <2>3. \A i \in DOMAIN rows' : i + 1 \in DOMAIN rows /\ rows'[i] = rows[i + 1]
    BY <1>3, ConsumeRows
  <2>4. \A i \in DOMAIN rows' : i \in Nat /\ rows'[i] # rows[1]
    <3>1. \A i \in DOMAIN rows' : i \in Nat /\ i + 1 # 1
      BY <1>3, ConsumeRows
    <3> QED BY <2>2, <2>3, <3>1 DEF Once
  <2>5. \A i, j \in DOMAIN rows' : rows'[i] = rows'[j] => i = j
    <3>1. \A i, j \in DOMAIN rows' : rows'[i] = rows'[j] => i + 1 = j + 1
      BY <2>3 DEF Once
    <3> QED BY <2>4, <3>1
  <2> QED BY <2>1, <2>2, <2>3, <2>4, <2>5 DEF Once
<1>4. ASSUME NEW t \in Threads, AddAppend(t) PROVE Once'
  <2>1. UNCHANGED <<rows, born>> /\ pc' = [pc EXCEPT ![t] = "count"]
    BY <1>4 DEF AddAppend, GoTo
  <2>2. /\ ~ Waiting(t)' /\ Waiting(t)
        /\ \A u \in Threads \ {t} : token'[u] = token[u] /\ Waiting(u)' = Waiting(u)
    BY <1>4, <2>1 DEF AddAppend, TypeOK, Waiting
  <2>3. /\ Elements(added') = Elements(added) \cup {token[t]} /\ token[t] \in 1 .. born
        /\ DOMAIN added = 1 .. Len(added) /\ Len(added) \in Nat
        /\ DOMAIN added' = 1 .. Len(added) + 1
        /\ \A k \in DOMAIN added : added'[k] = added[k]
        /\ added'[Len(added) + 1] = token[t]
    BY <1>4, AddedGrows
  <2>4. \A k \in DOMAIN added' : k \in DOMAIN added \/ k = Len(added) + 1
    BY <2>3
  <2>5. \A k \in DOMAIN added' : added'[k] \in 1 .. born
    BY <2>3, <2>4 DEF Once
  <2>6. \A k \in DOMAIN added : added[k] # token[t]
    BY <2>2 DEF Once, Elements
  <2>7. \A k, l \in DOMAIN added' : added'[k] = added'[l] => k = l
    BY <2>3, <2>4, <2>6 DEF Once
  <2>8. \A i \in DOMAIN rows' : /\ rows'[i] \notin Elements(added')
                                /\ \A u \in Threads : Waiting(u)' => token'[u] # rows'[i]
    BY <2>1, <2>2, <2>3 DEF Once
  <2>9. \A u \in Threads : Waiting(u)' => token'[u] \notin Elements(added')
    BY <2>2, <2>3 DEF Once
  <2> QED BY <2>1, <2>2, <2>5, <2>7, <2>8, <2>9 DEF Once
<1>5. ASSUME NEW p \in Integrations, BufferCount(p) PROVE Once'
  BY <1>5, OnceQuiet DEF BufferCount, coreVars, Waiting
<1>6. ASSUME NEW t \in Threads, AddLen(t) \/ AddPop(t) \/ AddRaises(t) \/ AddCount(t) PROVE Once'
  <2>1. /\ UNCHANGED <<rows, added, born>>
        /\ \A u \in Threads : Waiting(u)' => Waiting(u) /\ token'[u] = token[u]
    BY <1>6 DEF AddLen, AddPop, AddRaises, AddCount, GoTo, Waiting, TypeOK
  <2> QED BY <2>1, OnceQuiet
<1>7. CASE Drain \/ SetupToggle \/ CoreCrash \/ UNCHANGED vars
  <2>1. /\ UNCHANGED <<rows, added, born>>
        /\ \A u \in Threads : Waiting(u)' => Waiting(u) /\ token'[u] = token[u]
    BY <1>0, <1>7 DEF Drain, DrainPeek, DrainRun, DrainFirst, DrainRemove, SetupToggle, CoreCrash,
       vars, coreVars, GoTo, Waiting, TypeOK
  <2> QED BY <2>1, OnceQuiet
<1> QED BY <1>1, <1>2, <1>3, <1>4, <1>5, <1>6, <1>7 DEF Next, Add

LEMMA OnceAlways == Spec => []Once
<1>1. Init => Once
  <2> SUFFICES ASSUME Init PROVE Once
    OBVIOUS
  <2>1. DOMAIN rows = {} /\ DOMAIN added = {} /\ Elements(added) = {}
    BY DEF Init, Elements
  <2>2. \A t \in Threads : ~ Waiting(t)
    BY DEF Init, Waiting
  <2> QED BY <2>1, <2>2 DEF Once
<1>2. TypeOK /\ ThreadsOK /\ Once /\ [Next]_vars => Once'
  BY OnceKept
<1> QED BY <1>1, <1>2, TypeCorrect, PTL DEF Spec

(* As a payload joins the list once, the order of joining is strict.       *)
LEMMA BeforeFacts ==
  ASSUME TypeOK, Once
  PROVE  /\ \A x : ~ Before(x, x)
         /\ \A x, y : Before(x, y) => x \in Elements(added) /\ y \in Elements(added)
         /\ \A x, y, z : Before(x, y) /\ Before(y, z) => Before(x, z)
<1>1. \A k \in DOMAIN added : k \in Nat
  BY LenProperties DEF TypeOK
<1>2. \A x : ~ Before(x, x)
  BY <1>1 DEF Before, InOrder, Once
<1>3. \A x, y : Before(x, y) => x \in Elements(added) /\ y \in Elements(added)
  BY DEF Before, InOrder, Elements
<1>4. ASSUME NEW x, NEW y, NEW z, Before(x, y), Before(y, z) PROVE Before(x, z)
  <2>1. PICK k, l \in DOMAIN added : k < l /\ added[k] = x /\ added[l] = y
    BY <1>4 DEF Before, InOrder
  <2>2. PICK m, n \in DOMAIN added : m < n /\ added[m] = y /\ added[n] = z
    BY <1>4 DEF Before, InOrder
  <2>3. l = m
    BY <2>1, <2>2 DEF Once
  <2>4. k < n
    BY <1>1, <2>1, <2>2, <2>3
  <2> QED BY <2>1, <2>2, <2>4 DEF Before, InOrder
<1> QED BY <1>2, <1>3, <1>4

-----------------------------------------------------------------------------
(* What the main loop has handed over, or given up as it could not.        *)
Handled == Elements(handed) \cup lost.insert

Draining == {"run", "first", "remove"}
AtDrain == pc[Main] \in {"first", "remove"}

(* The list has the order in which its payloads joined it.  One of them    *)
(* has been handled only while it is the head and has still to be removed, *)
(* and it is the one that will be; the one about to be handled is the head *)
(* or was it.                                                              *)
ListInv ==
    /\ \A i \in DOMAIN buffer :
          /\ buffer[i].token \in Elements(added)
          /\ buffer[i].token \in Handled => i = 1 /\ AtDrain
    /\ \A i, j \in DOMAIN buffer : i < j => Before(buffer[i].token, buffer[j].token)
    /\ Handled \subseteq Elements(added)
    /\ pc[Main] = "run" =>
          /\ token[Main] \in Elements(added) \ Handled
          /\ \A i \in DOMAIN buffer :
                \/ Before(token[Main], buffer[i].token)
                \/ i = 1 /\ buffer[i].token = token[Main]
    /\ pc[Main] = "remove" =>
          \A i \in DOMAIN buffer : buffer[i].token \in Handled => firstId = buffer[i].id

(* What has been handed over joined the list before what is in it.         *)
OrderInv ==
    /\ \A i, j \in DOMAIN handed : i < j => Before(handed[i], handed[j])
    /\ \A h \in DOMAIN handed, i \in DOMAIN buffer :
          handed[h] = buffer[i].token \/ Before(handed[h], buffer[i].token)
    /\ pc[Main] = "run" => \A h \in DOMAIN handed : Before(handed[h], token[Main])

(* A step that leaves the list, its history and the drain alone.           *)
Quiet ==
    /\ UNCHANGED <<buffer, added, handed, firstId>>
    /\ lost'.insert = lost.insert /\ lost'.full = lost.full
    /\ pc[Main] \in Draining \/ pc'[Main] \in Draining =>
          pc'[Main] = pc[Main] /\ token'[Main] = token[Main]

LEMMA QuietSteps ==
  ASSUME TypeOK, ThreadsOK
  PROVE  /\ \A p \in Integrations : BufferCount(p) \/ BufferInsert(p) => Quiet
         /\ \A t \in Threads :
               NewEvent(t) \/ AddLen(t) \/ AddRaises(t) \/ AddCount(t) => Quiet
         /\ ConsumeJson \/ SetupToggle \/ UNCHANGED vars => Quiet
<1>0. Main \in Threads
  BY DEF Threads
<1>1. ASSUME NEW p \in Integrations, BufferCount(p) \/ BufferInsert(p) PROVE Quiet
  BY <1>1 DEF BufferCount, BufferInsert, coreVars, Quiet, TypeOK, Reasons
<1>2. ASSUME NEW t \in Threads, NewEvent(t) PROVE Quiet
  BY <1>0, <1>2 DEF NewEvent, GoTo, Quiet, Draining, TypeOK
<1>3. ASSUME NEW t \in Threads, AddLen(t) \/ AddCount(t) PROVE Quiet
  BY <1>0, <1>3 DEF AddLen, AddCount, GoTo, Quiet, Draining, TypeOK
<1>4. ASSUME NEW t \in Threads, AddRaises(t) PROVE Quiet
  BY <1>0, <1>4 DEF AddRaises, GoTo, Quiet, Draining, TypeOK, Reasons
<1>5. ConsumeJson \/ SetupToggle \/ UNCHANGED vars => Quiet
  BY <1>0 DEF ConsumeJson, SetupToggle, vars, coreVars, GoTo, Quiet, Draining, TypeOK
<1> QED BY <1>1, <1>2, <1>3, <1>4, <1>5

LEMMA QuietOrder ==
  ASSUME ListInv, OrderInv, Quiet
  PROVE  ListInv' /\ OrderInv'
<1>1. Handled' = Handled /\ \A x, y : Before(x, y)' <=> Before(x, y)
  BY DEF Quiet, Handled, Elements, Before, InOrder
<1>2. Elements(added') = Elements(added) /\ (AtDrain' <=> AtDrain)
  BY DEF Quiet, Elements, AtDrain, Draining
<1>3. ListInv'
  BY <1>1, <1>2 DEF Quiet, ListInv, Draining
<1>4. OrderInv'
  BY <1>1 DEF Quiet, OrderInv, Draining
<1> QED BY <1>3, <1>4

(* What add appends to the list.                                           *)
LEMMA AppendedElement ==
  ASSUME TypeOK, ThreadsOK, NEW t \in Threads, AddAppend(t)
  PROVE  /\ DOMAIN buffer' = 1 .. Len(buffer) + 1 /\ DOMAIN buffer = 1 .. Len(buffer)
         /\ Len(buffer) \in Nat
         /\ \A i \in DOMAIN buffer : buffer'[i] = buffer[i]
         /\ buffer'[Len(buffer) + 1].token = token[t]
<1> DEFINE e == [id |-> idCounter, token |-> token[t]]
<1>1. token[t] \in Payloads /\ e \in Element
  BY PayloadFacts, ElementFacts DEF AddAppend, ThreadsOK, Waiting, TypeOK
<1>2. e.token = token[t] /\ buffer' = Append(buffer, e)
  BY DEF AddAppend
<1> HIDE DEF e
<1>3. /\ buffer' \in Seq(Element) /\ Len(buffer') = Len(buffer) + 1
      /\ \A i \in 1 .. Len(buffer) : buffer'[i] = buffer[i]
      /\ buffer'[Len(buffer) + 1] = e
  BY <1>1, <1>2, ListFacts
<1> QED BY <1>2, <1>3, ListFacts, LenProperties

(* add appends to the list, and to its history.                            *)
LEMMA AppendOrder ==
  ASSUME TypeOK, ThreadsOK, Once, ListInv, OrderInv, NEW t \in Threads, AddAppend(t)
  PROVE  ListInv' /\ OrderInv'
<1>0. Main \in Threads /\ t \in Threads
  BY DEF Threads
<1>1. /\ Waiting(t) /\ DOMAIN buffer = 1 .. Len(buffer) /\ Len(buffer) \in Nat
      /\ \A x, y : Before(x, y) => InOrder(added', x, y)
      /\ \A x \in Elements(added) : InOrder(added', x, token[t])
      /\ Elements(added') = Elements(added) \cup {token[t]}
  BY AddedGrows, ListFacts
<1>2. /\ DOMAIN buffer' = 1 .. Len(buffer) + 1
      /\ \A i \in DOMAIN buffer : buffer'[i] = buffer[i]
      /\ buffer'[Len(buffer) + 1].token = token[t]
  BY AppendedElement
<1>3. /\ token[t] \notin Elements(added)
      /\ UNCHANGED <<handed, lost, firstId>> /\ Handled' = Handled
      /\ \A u \in Threads \ {t} : token'[u] = token[u]
      /\ pc' = [pc EXCEPT ![t] = "count"]
  BY <1>1 DEF Once, AddAppend, GoTo, Handled, TypeOK
<1>4. /\ pc[Main] \in Draining \/ pc'[Main] \in Draining =>
           pc'[Main] = pc[Main] /\ token'[Main] = token[Main]
      /\ AtDrain' <=> AtDrain
  BY <1>0, <1>1, <1>3 DEF Waiting, Draining, AtDrain, TypeOK
<1>5. \A i \in DOMAIN buffer' : i \in DOMAIN buffer \/ i = Len(buffer) + 1
  BY <1>1, <1>2
<1>6. token[t] \notin Handled
  BY <1>3 DEF ListInv
<1>7. \A i \in DOMAIN buffer' :
        /\ buffer'[i].token \in Elements(added')
        /\ buffer'[i].token \in Handled => i \in DOMAIN buffer /\ i = 1 /\ AtDrain
  BY <1>1, <1>2, <1>5, <1>6 DEF ListInv
<1>8. ASSUME NEW x \in Elements(added), NEW i \in DOMAIN buffer',
             i \in DOMAIN buffer => Before(x, buffer[i].token)
      PROVE  InOrder(added', x, buffer'[i].token)
  BY <1>1, <1>2, <1>5, <1>8
<1>9. \A i, j \in DOMAIN buffer' : i < j => InOrder(added', buffer'[i].token, buffer'[j].token)
  <2> SUFFICES ASSUME NEW i \in DOMAIN buffer', NEW j \in DOMAIN buffer', i < j
               PROVE  InOrder(added', buffer'[i].token, buffer'[j].token)
    OBVIOUS
  <2>1. i \in DOMAIN buffer
    BY <1>1, <1>2
  <2>2. buffer'[i].token = buffer[i].token /\ buffer[i].token \in Elements(added)
    BY <1>2, <2>1 DEF ListInv
  <2>3. j \in DOMAIN buffer => Before(buffer[i].token, buffer[j].token)
    BY <2>1 DEF ListInv
  <2> QED BY <1>8, <2>2, <2>3
<1>10. ASSUME pc'[Main] = "run"
       PROVE  /\ token'[Main] \in Elements(added') \ Handled
              /\ \A i \in DOMAIN buffer' :
                    \/ InOrder(added', token'[Main], buffer'[i].token)
                    \/ i = 1 /\ buffer'[i].token = token'[Main]
  <2>1. pc[Main] = "run" /\ token'[Main] = token[Main]
    BY <1>4, <1>10 DEF Draining
  <2>2. token[Main] \in Elements(added) \ Handled
    BY <2>1 DEF ListInv
  <2>3. ASSUME NEW i \in DOMAIN buffer', ~ (i = 1 /\ buffer'[i].token = token[Main])
        PROVE  InOrder(added', token[Main], buffer'[i].token)
    BY <1>2, <1>8, <2>1, <2>2, <2>3 DEF ListInv
  <2> QED BY <1>1, <2>1, <2>2, <2>3
<1>11. pc'[Main] = "remove" =>
         \A i \in DOMAIN buffer' : buffer'[i].token \in Handled => firstId' = buffer'[i].id
  BY <1>2, <1>3, <1>4, <1>7 DEF ListInv, Draining
<1>12. ListInv'
  <2>1. Handled' \subseteq Elements(added')
    BY <1>1, <1>3 DEF ListInv
  <2> QED BY <1>3, <1>4, <1>7, <1>9, <1>10, <1>11, <2>1 DEF ListInv, Before
<1>13. \A h \in DOMAIN handed : handed[h] \in Elements(added)
  BY DEF ListInv, Handled, Elements
<1>14. \A h \in DOMAIN handed, i \in DOMAIN buffer' :
         handed[h] = buffer'[i].token \/ InOrder(added', handed[h], buffer'[i].token)
  BY <1>2, <1>8, <1>13 DEF OrderInv
<1>15. pc'[Main] = "run" => \A h \in DOMAIN handed : InOrder(added', handed[h], token'[Main])
  BY <1>1, <1>4 DEF OrderInv, Draining
<1>16. \A i, j \in DOMAIN handed : i < j => InOrder(added', handed[i], handed[j])
  BY <1>1 DEF OrderInv
<1>17. OrderInv'
  BY <1>3, <1>14, <1>15, <1>16 DEF OrderInv, Before
<1> QED BY <1>12, <1>17

(* A step that takes elements from the list and leaves the others in order *)
(* keeps all but what is said of its head.                                 *)
Shrinks ==
    /\ \A i \in DOMAIN buffer' :
          \E j \in DOMAIN buffer : (j = 1 => i = 1) /\ buffer'[i] = buffer[j]
    /\ \A i, k \in DOMAIN buffer' : i < k =>
          \E j, l \in DOMAIN buffer : j < l /\ buffer'[i] = buffer[j] /\ buffer'[k] = buffer[l]

LEMMA ShrunkOrder ==
  ASSUME TypeOK, ListInv, OrderInv, Shrinks, UNCHANGED <<added, handed>>,
         lost'.insert = lost.insert,
         pc'[Main] = "run" => pc[Main] = "run" /\ token'[Main] = token[Main],
         \A i \in DOMAIN buffer' : buffer'[i].token \notin Handled
  PROVE  ListInv' /\ OrderInv'
<1>1. Handled' = Handled /\ Elements(added') = Elements(added)
  BY DEF Handled, Elements
<1>2. \A i \in DOMAIN buffer' : buffer'[i].token \in Elements(added)
  BY DEF ListInv, Shrinks
<1>3. \A i, k \in DOMAIN buffer' : i < k => InOrder(added', buffer'[i].token, buffer'[k].token)
  <2> SUFFICES ASSUME NEW i \in DOMAIN buffer', NEW k \in DOMAIN buffer', i < k
               PROVE  InOrder(added', buffer'[i].token, buffer'[k].token)
    OBVIOUS
  <2>1. PICK j, l \in DOMAIN buffer : j < l /\ buffer'[i] = buffer[j] /\ buffer'[k] = buffer[l]
    BY DEF Shrinks
  <2>2. Before(buffer[j].token, buffer[l].token)
    BY <2>1 DEF ListInv
  <2> QED BY <2>1, <2>2 DEF Before
<1>4. ASSUME pc'[Main] = "run"
      PROVE  /\ token'[Main] \in Elements(added) \ Handled
             /\ \A i \in DOMAIN buffer' :
                   \/ InOrder(added', token'[Main], buffer'[i].token)
                   \/ i = 1 /\ buffer'[i].token = token'[Main]
  <2>1. /\ token'[Main] = token[Main] /\ token[Main] \in Elements(added) \ Handled
        /\ \A i \in DOMAIN buffer : \/ Before(token[Main], buffer[i].token)
                                    \/ i = 1 /\ buffer[i].token = token[Main]
    BY <1>4 DEF ListInv
  <2>2. ASSUME NEW i \in DOMAIN buffer'
        PROVE  \/ InOrder(added', token'[Main], buffer'[i].token)
               \/ i = 1 /\ buffer'[i].token = token'[Main]
    <3>1. PICK j \in DOMAIN buffer : (j = 1 => i = 1) /\ buffer'[i] = buffer[j]
      BY DEF Shrinks
    <3>2. CASE Before(token[Main], buffer[j].token)
      BY <2>1, <3>1, <3>2 DEF Before
    <3>3. CASE j = 1 /\ buffer[j].token = token[Main]
      BY <2>1, <3>1, <3>3 DEF Shrinks
    <3> QED BY <2>1, <3>2, <3>3
  <2> QED BY <2>1, <2>2
<1>5. ListInv'
  BY <1>1, <1>2, <1>3, <1>4 DEF ListInv, Before
<1>6. \A h \in DOMAIN handed, i \in DOMAIN buffer' :
        handed[h] = buffer'[i].token \/ InOrder(added', handed[h], buffer'[i].token)
  BY DEF OrderInv, Shrinks, Before
<1>7. OrderInv'
  BY <1>6 DEF OrderInv, Before
<1> QED BY <1>5, <1>7

LEMMA PopOrder ==
  ASSUME TypeOK, ThreadsOK, ListInv, OrderInv, NEW t \in Threads, AddPop(t)
  PROVE  ListInv' /\ OrderInv'
<1>0. Main \in Threads
  BY DEF Threads
<1>1. /\ DOMAIN buffer = 1 .. Len(buffer) /\ Len(buffer) \in Nat
      /\ DOMAIN buffer' = 1 .. Len(buffer) - 1
      /\ \A i \in DOMAIN buffer' : buffer'[i] = buffer[i + 1]
  BY ListFacts, LenProperties DEF AddPop
<1>2. Shrinks
  BY <1>1 DEF Shrinks
<1>3. \A i \in DOMAIN buffer' : i + 1 \in DOMAIN buffer /\ i + 1 # 1
  BY <1>1
<1>4. \A i \in DOMAIN buffer' : buffer'[i].token \notin Handled
  BY <1>1, <1>3 DEF ListInv
<1>5. /\ UNCHANGED <<added, handed, token>> /\ lost'.insert = lost.insert
      /\ pc'[Main] = "run" => pc[Main] = "run"
  BY <1>0 DEF AddPop, GoTo, TypeOK, Reasons
<1> QED BY <1>2, <1>4, <1>5, ShrunkOrder

LEMMA RemoveOrder ==
  ASSUME TypeOK, ThreadsOK, ListInv, OrderInv, DrainRemove
  PROVE  ListInv' /\ OrderInv'
<1>0. Main \in Threads /\ pc[Main] = "remove"
  BY DEF Threads, DrainRemove
<1>1. DOMAIN buffer = 1 .. Len(buffer) /\ Len(buffer) \in Nat
  BY ListFacts
<1>2. /\ UNCHANGED <<added, handed>> /\ lost'.insert = lost.insert
      /\ pc'[Main] # "run"
  BY <1>0 DEF DrainRemove, GoTo, TypeOK
<1>3. \A i \in DOMAIN buffer : buffer[i].token \in Handled => i = 1 /\ firstId = buffer[i].id
  BY <1>0 DEF ListInv
<1>4. CASE buffer' = buffer /\ \A i \in DOMAIN buffer : buffer[i].id # firstId
  <2>1. Shrinks
    BY <1>1, <1>4 DEF Shrinks
  <2>2. \A i \in DOMAIN buffer' : buffer'[i].token \notin Handled
    BY <1>3, <1>4
  <2> QED BY <1>2, <2>1, <2>2, ShrunkOrder
<1>5. ASSUME NEW k \in DOMAIN buffer, buffer[k].id = firstId,
             \A j \in DOMAIN buffer : buffer[j].id = firstId => k <= j,
             Len(buffer') = Len(buffer) - 1,
             \A j \in 1 .. Len(buffer) - 1 :
                buffer'[j] = IF j < k THEN buffer[j] ELSE buffer[j + 1]
      PROVE  ListInv' /\ OrderInv'
  <2>1. DOMAIN buffer' = 1 .. Len(buffer) - 1
    BY <1>5, RemovedFromList, LenProperties
  <2> DEFINE from(j) == IF j < k THEN j ELSE j + 1
  <2>2. \A j \in DOMAIN buffer' : /\ from(j) \in DOMAIN buffer /\ (from(j) = 1 => j = 1)
                                /\ buffer'[j] = buffer[from(j)]
    BY <1>1, <1>5, <2>1
  <2>3. \A i, j \in DOMAIN buffer' : i < j => from(i) < from(j)
    BY <1>1, <2>1
  <2>4. \A j \in DOMAIN buffer' : from(j) # k
    BY <1>1, <2>1
  <2>5. ASSUME NEW j \in DOMAIN buffer', buffer[from(j)].token \in Handled PROVE FALSE
    <3>1. from(j) = 1 /\ firstId = buffer[from(j)].id
      BY <1>3, <2>2, <2>5
    <3>2. k <= from(j) /\ 1 <= k
      BY <1>1, <1>5, <2>2, <3>1
    <3> QED BY <1>1, <2>4, <3>1, <3>2
  <2> HIDE DEF from
  <2>6. Shrinks
    BY <2>2, <2>3 DEF Shrinks
  <2>7. \A i \in DOMAIN buffer' : buffer'[i].token \notin Handled
    BY <2>2, <2>5
  <2> QED BY <1>2, <2>6, <2>7, ShrunkOrder
<1> QED BY <1>4, <1>5, RemovedFromList

LEMMA PeekOrder ==
  ASSUME TypeOK, Once, ListInv, OrderInv, DrainPeek
  PROVE  ListInv' /\ OrderInv'
<1>1. /\ Main \in Threads /\ pc[Main] = "idle" /\ pc'[Main] = "run"
      /\ UNCHANGED <<buffer, added, handed, lost, firstId>>
      /\ 1 \in DOMAIN buffer /\ token'[Main] = buffer[1].token
  BY ListFacts DEF Threads, DrainPeek, GoTo, TypeOK
<1>2. /\ Handled' = Handled /\ Elements(added') = Elements(added) /\ ~ AtDrain
  BY <1>1 DEF Handled, Elements, AtDrain
<1>3. \A i \in DOMAIN buffer : i = 1 \/ 1 < i
  BY ListFacts
<1>4. \A i \in DOMAIN buffer : i = 1 \/ Before(buffer[1].token, buffer[i].token)
  BY <1>1, <1>3 DEF ListInv
<1>5. ListInv'
  BY <1>1, <1>2, <1>4 DEF ListInv, Before
<1>6. \A h \in DOMAIN handed : handed[h] \in Handled
  BY DEF Handled, Elements
<1>7. \A h \in DOMAIN handed : Before(handed[h], buffer[1].token)
  BY <1>1, <1>2, <1>6 DEF ListInv, OrderInv
<1>8. OrderInv'
  BY <1>1, <1>7 DEF OrderInv, Before
<1> QED BY <1>5, <1>8

LEMMA GivenUpGrows ==
  ASSUME TypeOK, NEW r \in Reasons, NEW P, lost' = [lost EXCEPT ![r] = @ \cup P]
  PROVE  GivenUp \cup P \subseteq GivenUp'
<1>1. \A q \in Reasons : lost'[q] = IF q = r THEN lost[q] \cup P ELSE lost[q]
  BY DEF TypeOK
<1> QED BY <1>1 DEF GivenUp

(* main_program.run hands the payload over, or fails and gives it up.      *)
LEMMA RunHandles ==
  ASSUME TypeOK, ThreadsOK, DrainRun
  PROVE  /\ Handled' = Handled \cup {token[Main]} /\ lost'.full = lost.full
         /\ GivenUp \cup lost'.insert \subseteq GivenUp'
         /\ Elements(handed) \subseteq Elements(handed')
         /\ \/ UNCHANGED handed
            \/ /\ DOMAIN handed = 1 .. Len(handed) /\ Len(handed) \in Nat
               /\ DOMAIN handed' = 1 .. Len(handed) + 1
               /\ \A h \in DOMAIN handed : handed'[h] = handed[h]
               /\ handed'[Len(handed) + 1] = token[Main]
<1>0. Main \in Threads /\ token[Main] \in Payloads
  BY DEF Threads, DrainRun, ThreadsOK
<1>1. CASE handed' = Append(handed, token[Main]) /\ UNCHANGED lost
  <2>1. /\ handed' \in Seq(Payloads) /\ Len(handed') = Len(handed) + 1
        /\ \A h \in 1 .. Len(handed) : handed'[h] = handed[h]
        /\ handed'[Len(handed) + 1] = token[Main]
    BY <1>0, <1>1, AppendProperties DEF TypeOK
  <2>2. /\ DOMAIN handed = 1 .. Len(handed) /\ Len(handed) \in Nat
        /\ DOMAIN handed' = 1 .. Len(handed) + 1
    BY <2>1, LenProperties DEF TypeOK
  <2>3. \A x \in Elements(handed') : x \in Elements(handed) \cup {token[Main]}
    BY <2>1, <2>2 DEF Elements
  <2>4. \A x \in Elements(handed) : x \in Elements(handed')
    BY <2>1, <2>2 DEF Elements
  <2>5. token[Main] \in Elements(handed')
    BY <2>1, <2>2 DEF Elements
  <2>6. Elements(handed') = Elements(handed) \cup {token[Main]}
    BY <2>3, <2>4, <2>5
  <2>7. lost'.insert = lost.insert /\ lost'.full = lost.full /\ GivenUp' = GivenUp
    BY <1>1 DEF GivenUp
  <2>8. Handled' = Handled \cup {token[Main]}
    BY <2>6, <2>7 DEF Handled
  <2>9. lost.insert \subseteq GivenUp
    BY DEF GivenUp, Reasons
  <2> QED BY <2>1, <2>2, <2>4, <2>7, <2>8, <2>9
<1>2. CASE lost' = [lost EXCEPT !.insert = @ \cup {token[Main]}] /\ UNCHANGED handed
  <2>1. lost'.insert = lost.insert \cup {token[Main]} /\ lost'.full = lost.full
    BY <1>2 DEF TypeOK, Reasons
  <2>2. Elements(handed') = Elements(handed)
    BY <1>2
  <2>3. Handled' = Handled \cup {token[Main]}
    BY <2>1, <2>2 DEF Handled
  <2>4. GivenUp \cup {token[Main]} \subseteq GivenUp'
    BY <1>2, GivenUpGrows DEF Reasons
  <2>5. lost'.insert \subseteq GivenUp'
    BY DEF GivenUp, Reasons
  <2> QED BY <1>2, <2>1, <2>2, <2>3, <2>4, <2>5
<1> QED BY <1>1, <1>2 DEF DrainRun

LEMMA RunOrder ==
  ASSUME TypeOK, ThreadsOK, Once, ListInv, OrderInv, DrainRun
  PROVE  ListInv' /\ OrderInv'
<1>1. /\ Main \in Threads /\ pc[Main] = "run" /\ pc'[Main] = "first" /\ token[Main] \in Payloads
      /\ UNCHANGED <<buffer, added, firstId>>
  BY DEF Threads, DrainRun, GoTo, TypeOK, ThreadsOK
<1>2. /\ token[Main] \in Elements(added) \ Handled
      /\ \A i \in DOMAIN buffer : \/ Before(token[Main], buffer[i].token)
                                  \/ i = 1 /\ buffer[i].token = token[Main]
      /\ \A h \in DOMAIN handed : Before(handed[h], token[Main])
  BY <1>1 DEF ListInv, OrderInv
<1>3. Handled' = Handled \cup {token[Main]}
      /\ \/ UNCHANGED handed
         \/ /\ DOMAIN handed = 1 .. Len(handed) /\ Len(handed) \in Nat
            /\ DOMAIN handed' = 1 .. Len(handed) + 1
            /\ \A h \in DOMAIN handed : handed'[h] = handed[h]
            /\ handed'[Len(handed) + 1] = token[Main]
  BY RunHandles
<1>4. \A i \in DOMAIN buffer : buffer[i].token \in Handled' => i = 1
  <2> SUFFICES ASSUME NEW i \in DOMAIN buffer, buffer[i].token \in Handled' PROVE i = 1
    OBVIOUS
  <2>1. CASE buffer[i].token \in Handled
    BY <2>1 DEF ListInv
  <2>2. CASE buffer[i].token = token[Main]
    BY <1>2, <2>2, BeforeFacts
  <2> QED BY <1>3, <2>1, <2>2
<1>5. Elements(added') = Elements(added)
  BY <1>1 DEF Elements
<1>6. AtDrain'
  BY <1>1 DEF AtDrain
<1>7. ListInv'
  BY <1>1, <1>2, <1>3, <1>4, <1>5, <1>6 DEF ListInv, Before
<1>8. \A h \in DOMAIN handed', i \in DOMAIN buffer :
        handed'[h] = buffer[i].token \/ Before(handed'[h], buffer[i].token)
  BY <1>2, <1>3 DEF OrderInv
<1>9. \A i, j \in DOMAIN handed' : i < j => Before(handed'[i], handed'[j])
  BY <1>2, <1>3 DEF OrderInv
<1>10. OrderInv'
  BY <1>1, <1>8, <1>9 DEF OrderInv, Before
<1> QED BY <1>7, <1>10

LEMMA FirstOrder ==
  ASSUME TypeOK, ListInv, OrderInv, DrainFirst \/ CoreCrash
  PROVE  ListInv' /\ OrderInv'
<1>0. Main \in Threads
  BY DEF Threads
<1>1. CASE DrainFirst
  <2>1. /\ pc[Main] = "first" /\ pc'[Main] \in {"idle", "remove"}
        /\ UNCHANGED <<buffer, added, handed, lost>>
        /\ pc'[Main] = "idle" => DOMAIN buffer = {}
        /\ pc'[Main] = "remove" => firstId' = buffer[1].id
    BY <1>0, <1>1, ListFacts DEF DrainFirst, GoTo, TypeOK
  <2>2. Handled' = Handled /\ Elements(added') = Elements(added)
    BY <2>1 DEF Handled, Elements
  <2>3. ListInv'
    BY <2>1, <2>2 DEF ListInv, AtDrain, Before
  <2> QED BY <2>1, <2>3 DEF OrderInv, Before
<1>2. CASE CoreCrash
  <2>1. /\ UNCHANGED <<added, handed>> /\ lost'.insert = lost.insert /\ lost'.full = lost.full
        /\ pc'[Main] = "idle" /\ DOMAIN buffer' = {}
    BY <1>0, <1>2 DEF CoreCrash, TypeOK, Reasons
  <2>2. Handled' = Handled /\ Elements(added') = Elements(added)
    BY <2>1 DEF Handled, Elements
  <2> QED BY <2>1, <2>2 DEF ListInv, OrderInv, Before
<1> QED BY <1>1, <1>2

LEMMA OrderKept ==
  ASSUME TypeOK, ThreadsOK, Once, ListInv, OrderInv, [Next]_vars
  PROVE  ListInv' /\ OrderInv'
<1>1. ASSUME NEW p \in Integrations, BufferCount(p) \/ BufferInsert(p) PROVE ListInv' /\ OrderInv'
  BY <1>1, QuietSteps, QuietOrder
<1>2. ASSUME NEW t \in Threads, NewEvent(t) \/ AddLen(t) \/ AddRaises(t) \/ AddCount(t)
      PROVE  ListInv' /\ OrderInv'
  BY <1>2, QuietSteps, QuietOrder
<1>3. ASSUME NEW t \in Threads, AddPop(t) PROVE ListInv' /\ OrderInv'
  BY <1>3, PopOrder
<1>4. ASSUME NEW t \in Threads, AddAppend(t) PROVE ListInv' /\ OrderInv'
  BY <1>4, AppendOrder
<1>5. CASE ConsumeJson \/ SetupToggle \/ UNCHANGED vars
  BY <1>5, QuietSteps, QuietOrder
<1>6. CASE Drain \/ CoreCrash
  BY <1>6, PeekOrder, RunOrder, FirstOrder, RemoveOrder DEF Drain
<1> QED BY <1>1, <1>2, <1>3, <1>4, <1>5, <1>6 DEF Next, Add

LEMMA OrderAlways == Spec => [](ListInv /\ OrderInv)
<1>1. Init => ListInv /\ OrderInv
  <2> SUFFICES ASSUME Init PROVE ListInv /\ OrderInv
    OBVIOUS
  <2>1. DOMAIN buffer = {} /\ DOMAIN handed = {} /\ lost.insert = {} /\ pc[Main] = "idle"
    BY DEF Init, Threads
  <2>2. Handled = {}
    BY <2>1 DEF Handled, Elements
  <2> QED BY <2>1, <2>2 DEF ListInv, OrderInv
<1>2. TypeOK /\ ThreadsOK /\ Once /\ (ListInv /\ OrderInv) /\ [Next]_vars => (ListInv /\ OrderInv)'
  BY OrderKept
<1> QED BY <1>1, <1>2, TypeCorrect, OnceAlways, PTL DEF Spec

(* HandedInOrder (get_next_subtracted_element, query_and_subtract_first),  *)
(* whatever the timers do between the steps of the main loop.              *)
THEOREM AlwaysHandedInOrder == Spec => []HandedInOrder
<1>1. ListInv /\ OrderInv => HandedInOrder
  BY DEF OrderInv, HandedInOrder, Before, InOrder
<1> QED BY <1>1, OrderAlways, PTL

-----------------------------------------------------------------------------
(* Where a payload may be, or what became of it.                           *)
Held == {token[t] : t \in Threads}
Somewhere == Elements(rows) \cup Tokens \cup Elements(handed) \cup GivenUp \cup Held

(* A step after which all but those of X that were somewhere still are, as *)
(* is what it created.                                                     *)
KeepsAllBut(X) ==
    /\ \A x \in Payloads : x \in Somewhere => x \in Somewhere' \cup X
    /\ \A x \in 1 .. born' : x \in 1 .. born \cup Somewhere'

LEMMA VanishedOnly ==
  ASSUME TypeOK, NEW X, KeepsAllBut(X)
  PROVE  Vanished' \subseteq Vanished \cup X
<1>1. Vanished = {x \in 1 .. born : x \notin Somewhere}
  BY DEF Vanished, Somewhere, Held
<1>2. Vanished' = {x \in 1 .. born' : x \notin Somewhere'}
  BY DEF Vanished, Somewhere, Held
<1>3. \A x \in 1 .. born : x \in Payloads
  BY PayloadFacts DEF TypeOK
<1> QED BY <1>1, <1>2, <1>3 DEF KeepsAllBut

LEMMA HeldChanges ==
  ASSUME TypeOK, NEW t \in Threads, NEW v, token' = [token EXCEPT ![t] = v]
  PROVE  v \in Held' /\ \A x \in Held : x \in Held' \/ x = token[t]
<1>1. \A u \in Threads : token'[u] = IF u = t THEN v ELSE token[u]
  BY DEF TypeOK
<1> QED BY <1>1 DEF Held

(* The cap gives up what insert_json_to_db purges.                         *)
LEMMA InsertKeeps ==
  ASSUME TypeOK, NEW p \in Integrations, BufferInsert(p)
  PROVE  KeepsAllBut({})
<1> DEFINE excess == counted[p] - MAX_BUFFER_ROWS + 1
           purged == IF excess < 1 THEN 0
                     ELSE IF excess > Len(rows) THEN Len(rows) ELSE excess
           kept == SubSeq(rows, purged + 1, Len(rows))
           gone == SubSeq(rows, 1, purged)
<1>1. /\ rows' = Append(kept, born + 1) /\ born' = born + 1
      /\ lost' = [lost EXCEPT !.cap = @ \cup Elements(gone)]
      /\ UNCHANGED <<buffer, handed, token>>
      /\ counted[p] \in Nat /\ MAX_BUFFER_ROWS \in Nat \ {0} /\ born < N
  BY ConstantsAssumption DEF BufferInsert, TypeOK, None, coreVars
<1>2. /\ Len(rows) \in Nat /\ DOMAIN rows = 1 .. Len(rows)
      /\ rows \in Seq(Payloads) /\ born + 1 \in Payloads /\ born \in Nat
  BY <1>1, LenProperties, PayloadFacts DEF TypeOK
<1>3. purged \in 0 .. Len(rows)
  BY <1>1, <1>2
<1> HIDE DEF purged
<1>4. /\ kept \in Seq(Payloads) /\ Len(kept) = Len(rows) - purged
      /\ \A i \in 1 .. Len(rows) - purged : kept[i] = rows[i + purged]
  <2>1. rows \in Seq(Payloads) /\ purged \in 0 .. Len(rows)
    BY <1>2, <1>3
  <2> QED BY <2>1, Dropped
<1>5. /\ gone \in Seq(Payloads) /\ Len(gone) = purged
      /\ \A i \in 1 .. purged : gone[i] = rows[i]
  <2>1. \A i \in 1 .. purged : rows[i] \in Payloads
    BY <1>2, <1>3, ElementOfSeq
  <2> QED BY <1>3, <2>1, SubSeqProperties
<1> HIDE DEF kept, gone
<1>6. /\ Len(rows') = Len(kept) + 1 /\ rows' \in Seq(Payloads)
      /\ \A i \in 1 .. Len(kept) : rows'[i] = kept[i]
      /\ rows'[Len(kept) + 1] = born + 1
  BY <1>1, <1>2, <1>4, AppendProperties
<1>7. DOMAIN gone = 1 .. purged /\ DOMAIN rows' = 1 .. (Len(rows) - purged) + 1
  BY <1>4, <1>5, <1>6, LenProperties
<1>8. GivenUp \cup Elements(gone) \subseteq GivenUp'
  BY <1>1, GivenUpGrows DEF Reasons
<1>9. ASSUME NEW i \in DOMAIN rows PROVE rows[i] \in Elements(rows') \cup GivenUp'
  <2>1. CASE i <= purged
    <3>1. i \in DOMAIN gone /\ gone[i] = rows[i]
      BY <1>2, <1>3, <1>5, <1>7, <2>1
    <3> QED BY <1>8, <3>1 DEF Elements
  <2>2. CASE ~ (i <= purged)
    <3> DEFINE j == i - purged
    <3>1. j \in 1 .. Len(rows) - purged /\ j + purged = i
      BY <1>2, <1>3, <2>2
    <3>2. j \in DOMAIN rows' /\ rows'[j] = rows[i]
      BY <1>2, <1>3, <1>4, <1>6, <1>7, <3>1
    <3> QED BY <3>2 DEF Elements
  <2> QED BY <2>1, <2>2
<1>10. born + 1 \in Elements(rows')
  <2>1. (Len(rows) - purged) + 1 \in DOMAIN rows'
    BY <1>2, <1>3, <1>7
  <2> QED BY <1>4, <1>6, <2>1 DEF Elements
<1>11. Tokens' = Tokens /\ Elements(handed') = Elements(handed) /\ Held' = Held
  BY <1>1 DEF Tokens, Elements, Held
<1>12. \A x \in Elements(rows) : x \in Elements(rows') \cup GivenUp'
  BY <1>9 DEF Elements
<1>13. \A x \in 1 .. born' : x \in 1 .. born \/ x = born + 1
  BY <1>1, <1>2
<1>14. Somewhere \subseteq Somewhere' /\ born + 1 \in Somewhere'
  BY <1>8, <1>10, <1>11, <1>12 DEF Somewhere
<1> QED BY <1>13, <1>14 DEF KeepsAllBut

LEMMA StepsKeep ==
  ASSUME TypeOK, ThreadsOK, [Next]_vars, ~ DrainRemove
  PROVE  KeepsAllBut({})
<1>0. Main \in Threads /\ born \in Nat /\ \A x \in Payloads : x # None
  BY ConstantsAssumption, PayloadFacts DEF Threads, TypeOK
<1> DEFINE same == Elements(rows) = Elements(rows)' /\ Tokens = Tokens'
                     /\ Elements(handed) = Elements(handed)'
<1>1. ASSUME NEW p \in Integrations, BufferCount(p) \/ BufferInsert(p) PROVE KeepsAllBut({})
  <2>1. CASE BufferCount(p)
    BY <2>1 DEF BufferCount, coreVars, KeepsAllBut, Somewhere, Elements, Tokens, GivenUp, Held
  <2> QED BY <1>1, <2>1, InsertKeeps
<1>2. ASSUME NEW t \in Threads, NewEvent(t) PROVE KeepsAllBut({})
  <2>1. same /\ GivenUp' = GivenUp
    BY <1>2 DEF NewEvent, Elements, Tokens, GivenUp
  <2>2. token[t] = None /\ born' = born + 1 /\ token' = [token EXCEPT ![t] = born + 1]
    BY <1>2 DEF NewEvent, ThreadsOK
  <2>3. born + 1 \in Held' /\ \A x \in Held : x \in Held' \/ x = None
    BY <2>2, HeldChanges
  <2>4. \A x \in 1 .. born' : x \in 1 .. born \/ x = born + 1
    BY <1>0, <2>2
  <2> HIDE DEF same
  <2> QED BY <1>0, <2>1, <2>3, <2>4 DEF KeepsAllBut, Somewhere, same
<1>3. CASE ConsumeJson
  <2>1. /\ UNCHANGED <<buffer, handed, lost, born>> /\ token[Main] = None
        /\ token' = [token EXCEPT ![Main] = rows[1]]
        /\ DOMAIN rows = 1 .. Len(rows) /\ Len(rows) \in Nat \ {0}
        /\ DOMAIN rows' = 1 .. Len(rows) - 1
        /\ \A i \in 1 .. Len(rows) - 1 : rows'[i] = rows[i + 1]
    BY <1>0, <1>3, ConsumeRows DEF ConsumeJson, ThreadsOK
  <2>2. rows[1] \in Held' /\ \A x \in Held : x \in Held' \/ x = None
    BY <1>0, <2>1, HeldChanges
  <2>3. \A x \in Elements(rows) : x \in Elements(rows') \/ x = rows[1]
    <3> SUFFICES ASSUME NEW i \in DOMAIN rows, i # 1 PROVE rows[i] \in Elements(rows')
      BY DEF Elements
    <3> DEFINE j == i - 1
    <3>1. j \in DOMAIN rows' /\ rows'[j] = rows[i]
      BY <2>1
    <3> QED BY <3>1 DEF Elements
  <2>4. Tokens' = Tokens /\ Elements(handed') = Elements(handed) /\ GivenUp' = GivenUp
    BY <2>1 DEF Tokens, Elements, GivenUp
  <2> QED BY <1>0, <2>1, <2>2, <2>3, <2>4 DEF KeepsAllBut, Somewhere
<1>4. ASSUME NEW t \in Threads, AddPop(t) PROVE KeepsAllBut({})
  <2>1. /\ UNCHANGED <<rows, handed, token, born>>
        /\ lost' = [lost EXCEPT !.full = @ \cup {buffer[1].token}]
        /\ DOMAIN buffer = 1 .. Len(buffer) /\ Len(buffer) \in Nat
        /\ DOMAIN buffer' = 1 .. Len(buffer) - 1
        /\ \A i \in DOMAIN buffer' : buffer'[i] = buffer[i + 1]
    BY <1>4, ListFacts, LenProperties DEF AddPop
  <2>2. GivenUp \cup {buffer[1].token} \subseteq GivenUp'
    BY <2>1, GivenUpGrows DEF Reasons
  <2>3. \A x \in Tokens : x \in Tokens' \/ x = buffer[1].token
    <3> SUFFICES ASSUME NEW i \in DOMAIN buffer, i # 1 PROVE buffer[i].token \in Tokens'
      BY DEF Tokens
    <3> DEFINE j == i - 1
    <3>1. j \in DOMAIN buffer' /\ buffer'[j] = buffer[i]
      BY <2>1
    <3> QED BY <3>1 DEF Tokens
  <2>4. Elements(rows') = Elements(rows) /\ Elements(handed') = Elements(handed) /\ Held' = Held
    BY <2>1 DEF Elements, Held
  <2> QED BY <2>1, <2>2, <2>3, <2>4 DEF KeepsAllBut, Somewhere
<1>5. ASSUME NEW t \in Threads, AddRaises(t) PROVE KeepsAllBut({})
  <2>1. /\ UNCHANGED <<rows, handed, buffer, born>>
        /\ lost' = [lost EXCEPT !.raised = @ \cup {token[t]}]
        /\ token' = [token EXCEPT ![t] = None]
    BY <1>5 DEF AddRaises
  <2>2. GivenUp \cup {token[t]} \subseteq GivenUp'
    BY <2>1, GivenUpGrows DEF Reasons
  <2>3. \A x \in Held : x \in Held' \/ x = token[t]
    BY <2>1, HeldChanges
  <2>4. Elements(rows') = Elements(rows) /\ Elements(handed') = Elements(handed) /\ Tokens' = Tokens
    BY <2>1 DEF Elements, Tokens
  <2> QED BY <2>1, <2>2, <2>3, <2>4 DEF KeepsAllBut, Somewhere
<1>6. ASSUME NEW t \in Threads, AddAppend(t) PROVE KeepsAllBut({})
  <2>1. UNCHANGED <<rows, handed, lost, born>> /\ token' = [token EXCEPT ![t] = None]
    BY <1>6 DEF AddAppend
  <2>2. \A x \in Held : x \in Held' \/ x = token[t]
    BY <2>1, HeldChanges
  <2>3. Tokens \cup {token[t]} \subseteq Tokens'
    BY <1>6, AppendedElement DEF Tokens
  <2>4. /\ Elements(rows') = Elements(rows) /\ Elements(handed') = Elements(handed)
        /\ GivenUp' = GivenUp
    BY <2>1 DEF Elements, GivenUp
  <2> QED BY <2>1, <2>2, <2>3, <2>4 DEF KeepsAllBut, Somewhere
<1>7. CASE DrainPeek
  <2>1. /\ UNCHANGED <<rows, handed, buffer, lost, born>> /\ token[Main] = None
        /\ token' = [token EXCEPT ![Main] = Head(buffer).token]
    BY <1>0, <1>7 DEF DrainPeek, ThreadsOK
  <2>2. \A x \in Held : x \in Held' \/ x = None
    BY <1>0, <2>1, HeldChanges
  <2>3. /\ Elements(rows') = Elements(rows) /\ Elements(handed') = Elements(handed)
        /\ Tokens' = Tokens /\ GivenUp' = GivenUp
    BY <2>1 DEF Elements, Tokens, GivenUp
  <2> QED BY <1>0, <2>1, <2>2, <2>3 DEF KeepsAllBut, Somewhere
<1>8. CASE DrainRun
  <2>1. /\ UNCHANGED <<rows, buffer, born>> /\ token' = [token EXCEPT ![Main] = None]
        /\ GivenUp \subseteq GivenUp'
        /\ Handled' = Handled \cup {token[Main]} /\ Elements(handed) \subseteq Elements(handed')
        /\ lost'.insert \subseteq GivenUp'
    BY <1>8, RunHandles DEF DrainRun
  <2>2. \A x \in Held : x \in Held' \/ x = token[Main]
    BY <1>0, <2>1, HeldChanges
  <2>3. Elements(rows') = Elements(rows) /\ Tokens' = Tokens
    BY <2>1 DEF Elements, Tokens
  <2>4. token[Main] \in Elements(handed') \cup GivenUp'
    BY <2>1 DEF Handled
  <2> QED BY <2>1, <2>2, <2>3, <2>4 DEF KeepsAllBut, Somewhere
<1>9. CASE CoreCrash
  <2> DEFINE gone == (Tokens \cup Held) \ (Elements(handed) \cup {None})
  <2>1. /\ UNCHANGED <<rows, born, handed>>
        /\ lost' = [lost EXCEPT !.crash = @ \cup gone]
    BY <1>9 DEF CoreCrash, Held
  <2>2. GivenUp \cup gone \subseteq GivenUp'
    BY <2>1, GivenUpGrows DEF Reasons
  <2>3. Elements(rows') = Elements(rows) /\ Elements(handed') = Elements(handed)
    BY <2>1 DEF Elements
  <2> QED BY <1>0, <2>1, <2>2, <2>3 DEF KeepsAllBut, Somewhere
<1>10. ASSUME UNCHANGED <<rows, buffer, handed, lost, token, born>> PROVE KeepsAllBut({})
  BY <1>10 DEF KeepsAllBut, Somewhere, Elements, Tokens, GivenUp, Held
<1>11. ASSUME NEW t \in Threads, AddLen(t) \/ AddCount(t) PROVE KeepsAllBut({})
  BY <1>10, <1>11 DEF AddLen, AddCount
<1>12. CASE DrainFirst \/ SetupToggle \/ UNCHANGED vars
  BY <1>10, <1>12 DEF DrainFirst, SetupToggle, coreVars, vars
<1> QED BY <1>1, <1>2, <1>3, <1>4, <1>5, <1>6, <1>7, <1>8, <1>9, <1>11, <1>12 DEF Next, Add, Drain

(* remove_by_id takes one element out of the list: the one handled, or, if *)
(* add has popped that one, any other.                                     *)
LEMMA RemoveKeeps ==
  ASSUME TypeOK, ListInv, DrainRemove
  PROVE  \/ KeepsAllBut({})
         \/ /\ \A i \in DOMAIN buffer : buffer[i].token \notin Handled
            /\ \E x : KeepsAllBut({x})
<1>0. Main \in Threads /\ pc[Main] = "remove"
  BY DEF Threads, DrainRemove
<1>1. /\ UNCHANGED <<rows, handed, lost, token, born>>
      /\ Elements(rows') = Elements(rows) /\ Elements(handed') = Elements(handed)
      /\ GivenUp' = GivenUp /\ Held' = Held
  BY DEF DrainRemove, Elements, GivenUp, Held
<1>2. CASE buffer' = buffer
  BY <1>1, <1>2 DEF KeepsAllBut, Somewhere, Tokens
<1>3. ASSUME NEW k \in DOMAIN buffer, buffer[k].id = firstId,
             \A j \in DOMAIN buffer : buffer[j].id = firstId => k <= j,
             Len(buffer') = Len(buffer) - 1,
             \A j \in 1 .. Len(buffer) - 1 :
                buffer'[j] = IF j < k THEN buffer[j] ELSE buffer[j + 1]
      PROVE  \/ KeepsAllBut({})
             \/ /\ \A i \in DOMAIN buffer : buffer[i].token \notin Handled
                /\ \E x : KeepsAllBut({x})
  <2>1. /\ DOMAIN buffer' = 1 .. Len(buffer) - 1
        /\ DOMAIN buffer = 1 .. Len(buffer) /\ Len(buffer) \in Nat
    BY <1>3, RemovedFromList, LenProperties, ListFacts
  <2>2. \A x \in Tokens : x \in Tokens' \/ x = buffer[k].token
    <3> SUFFICES ASSUME NEW i \in DOMAIN buffer, i # k PROVE buffer[i].token \in Tokens'
      BY DEF Tokens
    <3> DEFINE j == IF i < k THEN i ELSE i - 1
    <3>1. j \in DOMAIN buffer' /\ buffer'[j] = buffer[i]
      BY <1>3, <2>1
    <3> QED BY <3>1 DEF Tokens
  <2>3. KeepsAllBut({buffer[k].token})
    BY <1>1, <2>2 DEF KeepsAllBut, Somewhere
  <2>4. CASE buffer[k].token \in Handled
    <3>1. Handled \subseteq Somewhere'
      BY <1>1 DEF Handled, Somewhere, GivenUp, Reasons
    <3> QED BY <2>3, <2>4, <3>1 DEF KeepsAllBut
  <2>5. CASE buffer[k].token \notin Handled
    <3>1. ASSUME NEW i \in DOMAIN buffer, buffer[i].token \in Handled PROVE FALSE
      <4>1. i = 1 /\ firstId = buffer[i].id
        BY <1>0, <3>1 DEF ListInv
      <4>2. k <= i /\ 1 <= k
        BY <1>3, <2>1, <4>1
      <4>3. k = i
        BY <2>1, <4>1, <4>2
      <4> QED BY <2>5, <3>1, <4>3
    <3> QED BY <2>3, <3>1
  <2> QED BY <2>4, <2>5
<1> QED BY <1>2, <1>3, RemovedFromList

-----------------------------------------------------------------------------
(* What add popped because the list was full was in it and is no more; and *)
(* what the main loop is about to hand over is still there or was popped.  *)
FullInv ==
    /\ lost.full \subseteq Elements(added)
    /\ \A i \in DOMAIN buffer : buffer[i].token \notin lost.full
    /\ pc[Main] = "run" =>
          token[Main] \in lost.full \/ \E i \in DOMAIN buffer : buffer[i].token = token[Main]

LEMMA FullKept ==
  ASSUME TypeOK, ThreadsOK, Once, ListInv, FullInv, [Next]_vars
  PROVE  FullInv'
<1>0. Main \in Threads
  BY DEF Threads
<1>1. ASSUME Quiet PROVE FullInv'
  <2>1. Elements(added') = Elements(added)
    BY <1>1 DEF Quiet, Elements
  <2> QED BY <1>1, <2>1 DEF Quiet, FullInv, Draining
<1>2. ASSUME NEW t \in Threads, AddPop(t) PROVE FullInv'
  <2>1. /\ UNCHANGED <<added, token>> /\ Elements(added') = Elements(added)
        /\ lost'.full = lost.full \cup {buffer[1].token}
        /\ pc'[Main] = "run" => pc[Main] = "run"
        /\ 1 \in DOMAIN buffer
        /\ DOMAIN buffer = 1 .. Len(buffer) /\ Len(buffer) \in Nat
        /\ DOMAIN buffer' = 1 .. Len(buffer) - 1
        /\ \A i \in DOMAIN buffer' : buffer'[i] = buffer[i + 1]
    BY <1>0, <1>2, ListFacts, LenProperties DEF AddPop, GoTo, TypeOK, Reasons, Elements
  <2>2. lost'.full \subseteq Elements(added')
    BY <2>1 DEF ListInv, FullInv
  <2>3. \A i \in DOMAIN buffer' : buffer'[i].token \notin lost'.full
    <3> SUFFICES ASSUME NEW i \in DOMAIN buffer' PROVE buffer[i + 1].token \notin lost'.full
      BY <2>1
    <3>1. i + 1 \in DOMAIN buffer /\ 1 < i + 1
      BY <2>1
    <3>2. Before(buffer[1].token, buffer[i + 1].token)
      BY <2>1, <3>1 DEF ListInv
    <3>3. buffer[i + 1].token # buffer[1].token
      BY <3>2, BeforeFacts
    <3> QED BY <2>1, <3>1, <3>3 DEF FullInv
  <2>4. ASSUME pc[Main] = "run", token[Main] \notin lost'.full
        PROVE  \E i \in DOMAIN buffer' : buffer'[i].token = token[Main]
    <3>1. PICK i \in DOMAIN buffer : buffer[i].token = token[Main]
      BY <2>1, <2>4 DEF FullInv
    <3>2. i # 1
      BY <2>1, <2>4, <3>1
    <3> DEFINE j == i - 1
    <3>3. j \in DOMAIN buffer' /\ buffer'[j] = buffer[i]
      BY <2>1, <3>2
    <3> QED BY <3>1, <3>3
  <2> QED BY <2>1, <2>2, <2>3, <2>4 DEF FullInv
<1>3. ASSUME NEW t \in Threads, AddAppend(t) PROVE FullInv'
  <2>1. /\ UNCHANGED lost /\ token[t] \notin Elements(added)
        /\ Elements(added') = Elements(added) \cup {token[t]}
        /\ pc'[Main] = "run" => pc[Main] = "run" /\ token'[Main] = token[Main]
    BY <1>0, <1>3, AddedGrows DEF AddAppend, GoTo, TypeOK, Once, Waiting
  <2>2. /\ DOMAIN buffer' = 1 .. Len(buffer) + 1 /\ DOMAIN buffer = 1 .. Len(buffer)
        /\ Len(buffer) \in Nat
        /\ \A i \in DOMAIN buffer : buffer'[i] = buffer[i]
        /\ buffer'[Len(buffer) + 1].token = token[t]
    BY <1>3, AppendedElement
  <2>3. \A i \in DOMAIN buffer' : buffer'[i].token \notin lost.full
    BY <2>1, <2>2 DEF FullInv
  <2>4. \A i \in DOMAIN buffer : i \in DOMAIN buffer'
    BY <2>2
  <2> QED BY <2>1, <2>2, <2>3, <2>4 DEF FullInv
<1>4. CASE DrainPeek
  <2>1. /\ UNCHANGED <<buffer, added, lost>> /\ 1 \in DOMAIN buffer
        /\ token'[Main] = buffer[1].token
    BY <1>0, <1>4, ListFacts DEF DrainPeek, TypeOK
  <2>2. Elements(added') = Elements(added)
    BY <2>1 DEF Elements
  <2> QED BY <2>1, <2>2 DEF FullInv
<1>5. CASE DrainRun
  <2>1. UNCHANGED <<buffer, added>> /\ lost'.full = lost.full /\ pc'[Main] = "first"
    BY <1>0, <1>5, RunHandles DEF DrainRun, GoTo, TypeOK
  <2>2. Elements(added') = Elements(added)
    BY <2>1 DEF Elements
  <2> QED BY <2>1, <2>2 DEF FullInv
<1>6. CASE DrainFirst
  <2>1. UNCHANGED <<buffer, added, lost>> /\ pc'[Main] # "run"
    BY <1>0, <1>6 DEF DrainFirst, GoTo, TypeOK
  <2>2. Elements(added') = Elements(added)
    BY <2>1 DEF Elements
  <2> QED BY <2>1, <2>2 DEF FullInv
<1>7. CASE DrainRemove
  <2>1. UNCHANGED <<added, lost>> /\ pc'[Main] # "run"
    BY <1>0, <1>7 DEF DrainRemove, GoTo, TypeOK
  <2>2. Elements(added') = Elements(added)
    BY <2>1 DEF Elements
  <2>3. \A i \in DOMAIN buffer' : \E j \in DOMAIN buffer : buffer'[i] = buffer[j]
    <3>1. CASE buffer' = buffer
      BY <3>1
    <3>2. ASSUME NEW k \in DOMAIN buffer, Len(buffer') = Len(buffer) - 1,
                 \A j \in 1 .. Len(buffer) - 1 :
                    buffer'[j] = IF j < k THEN buffer[j] ELSE buffer[j + 1]
          PROVE  \A i \in DOMAIN buffer' : \E j \in DOMAIN buffer : buffer'[i] = buffer[j]
      <4>1. /\ DOMAIN buffer' = 1 .. Len(buffer) - 1
            /\ DOMAIN buffer = 1 .. Len(buffer) /\ Len(buffer) \in Nat
        BY <1>7, <3>2, RemovedFromList, LenProperties, ListFacts
      <4>2. \A j \in DOMAIN buffer' : j \in DOMAIN buffer /\ j + 1 \in DOMAIN buffer
        BY <4>1
      <4> QED BY <3>2, <4>1, <4>2
    <3> QED BY <1>7, <3>1, <3>2, RemovedFromList
  <2> QED BY <2>1, <2>2, <2>3 DEF FullInv
<1>8. CASE CoreCrash
  <2>1. /\ UNCHANGED added /\ lost'.full = lost.full /\ pc'[Main] = "idle" /\ DOMAIN buffer' = {}
    BY <1>0, <1>8 DEF CoreCrash, TypeOK, Reasons
  <2>2. Elements(added') = Elements(added)
    BY <2>1 DEF Elements
  <2> QED BY <2>1, <2>2 DEF FullInv
<1> QED BY <1>1, <1>2, <1>3, <1>4, <1>5, <1>6, <1>7, <1>8, QuietSteps DEF Next, Add, Drain

-----------------------------------------------------------------------------
(* While a payload is handed over and add has popped it from the list, the *)
(* main loop owes the loss of another.                                     *)
Owed == AtDrain /\ \A i \in DOMAIN buffer : buffer[i].token \notin Handled
Debt == IF Owed THEN 1 ELSE 0
Popped == lost.full \cap Handled

Account == Cardinality(Vanished) + Debt <= Cardinality(Popped)

LEMMA AccountFacts ==
  ASSUME TypeOK
  PROVE  /\ IsFiniteSet(Vanished) /\ IsFiniteSet(Popped)
         /\ Cardinality(Vanished) \in Nat /\ Cardinality(Popped) \in Nat
<1>1. IsFiniteSet(Payloads)
  BY FS_Interval, ConstantsAssumption DEF Payloads
<1>2. Vanished \subseteq Payloads
  BY PayloadFacts DEF Vanished, TypeOK
<1>3. Popped \subseteq Payloads
  BY LostFacts DEF Popped, TypeOK
<1> QED BY <1>1, <1>2, <1>3, FS_Subset, FS_CardinalityType

LEMMA AccountFactsNext ==
  ASSUME TypeOK'
  PROVE  /\ IsFiniteSet(Vanished') /\ IsFiniteSet(Popped')
         /\ Cardinality(Vanished') \in Nat /\ Cardinality(Popped') \in Nat
<1>1. IsFiniteSet(Payloads)
  BY FS_Interval, ConstantsAssumption DEF Payloads
<1>2. Vanished' \subseteq Payloads
  BY PayloadFacts DEF Vanished, TypeOK
<1>3. Popped' \subseteq Payloads
  BY DEF Popped, TypeOK, Reasons
<1> QED BY <1>1, <1>2, <1>3, FS_Subset, FS_CardinalityType

(* Whatever vanishes, is popped or is paid off in a step, one at a time.   *)
LEMMA Accounting ==
  ASSUME TypeOK, TypeOK', Account, Popped \subseteq Popped',
         \/ KeepsAllBut({}) /\ (Owed' => Owed)
         \/ KeepsAllBut({}) /\ \E x \in Popped' : x \notin Popped
         \/ /\ \E x : KeepsAllBut({x})
            /\ Owed /\ ~ Owed'
  PROVE  Account'
<1> DEFINE V == Vanished
           W == Vanished'
           P == Popped
           Q == Popped'
<1>1. /\ IsFiniteSet(V) /\ IsFiniteSet(P) /\ IsFiniteSet(W) /\ IsFiniteSet(Q)
      /\ Cardinality(V) \in Nat /\ Cardinality(P) \in Nat
      /\ Cardinality(W) \in Nat /\ Cardinality(Q) \in Nat
  BY AccountFacts, AccountFactsNext
<1>2. Debt \in 0 .. 1 /\ Debt' \in 0 .. 1 /\ Cardinality(V) + Debt <= Cardinality(P)
  BY DEF Debt, Account
<1>3. P \subseteq Q
  OBVIOUS
<1>4. Account' <=> Cardinality(W) + Debt' <= Cardinality(Q)
  BY DEF Account
<1>10. KeepsAllBut({}) => W \subseteq V
  BY VanishedOnly
<1>11. \A x : KeepsAllBut({x}) => W \subseteq V \cup {x}
  BY VanishedOnly
<1> HIDE DEF V, W, P, Q
<1>5. Cardinality(P) <= Cardinality(Q)
  BY <1>1, <1>3, FS_Subset
<1>6. CASE KeepsAllBut({}) /\ (Owed' => Owed)
  <2>1. Cardinality(W) <= Cardinality(V)
    BY <1>1, <1>6, <1>10, FS_Subset
  <2>2. Debt' <= Debt
    BY <1>6 DEF Debt
  <2> QED BY <1>1, <1>2, <1>4, <1>5, <2>1, <2>2
<1>7. CASE KeepsAllBut({}) /\ \E x \in Popped' : x \notin Popped
  <2>1. Cardinality(W) <= Cardinality(V)
    BY <1>1, <1>7, <1>10, FS_Subset
  <2>2. PICK x \in Q : x \notin P
    BY <1>7 DEF P, Q
  <2>3. Cardinality(P \cup {x}) = Cardinality(P) + 1 /\ P \cup {x} \subseteq Q
    BY <1>1, <1>3, <2>2, FS_AddElement
  <2>4. Cardinality(P \cup {x}) <= Cardinality(Q)
    BY <1>1, <2>3, FS_Subset
  <2> QED BY <1>1, <1>2, <1>4, <2>1, <2>3, <2>4
<1>8. CASE (\E x : KeepsAllBut({x})) /\ Owed /\ ~ Owed'
  <2>1. PICK x : W \subseteq V \cup {x}
    BY <1>8, <1>11
  <2>2. /\ IsFiniteSet(V \cup {x})
        /\ Cardinality(V \cup {x}) = Cardinality(V) \/ Cardinality(V \cup {x}) = Cardinality(V) + 1
    BY <1>1, FS_AddElement
  <2>3. Cardinality(W) <= Cardinality(V \cup {x})
    BY <2>1, <2>2, FS_Subset
  <2>4. Debt = 1 /\ Debt' = 0
    BY <1>8 DEF Debt
  <2> QED BY <1>1, <1>2, <1>4, <1>5, <2>2, <2>3, <2>4
<1> QED BY <1>6, <1>7, <1>8

LEMMA AccountKept ==
  ASSUME TypeOK, TypeOK', ThreadsOK, Once, ListInv, FullInv, Account, [Next]_vars
  PROVE  Account'
<1>0. Main \in Threads
  BY DEF Threads
<1>1. ASSUME Quiet, ~ DrainRemove PROVE Account'
  <2>1. Handled' = Handled /\ Popped' = Popped
    BY <1>1 DEF Quiet, Handled, Popped
  <2>2. Owed' => Owed
    BY <1>1, <2>1 DEF Quiet, Owed, AtDrain, Draining
  <2> QED BY <1>1, <2>1, <2>2, StepsKeep, Accounting
<1>2. ASSUME NEW t \in Threads, AddPop(t), ~ DrainRemove PROVE Account'
  <2>1. /\ UNCHANGED handed /\ lost'.insert = lost.insert
        /\ lost'.full = lost.full \cup {buffer[1].token}
        /\ AtDrain' => AtDrain
        /\ 1 \in DOMAIN buffer
    BY <1>0, <1>2, ListFacts DEF AddPop, GoTo, TypeOK, Reasons, AtDrain
  <2>2. Handled' = Handled /\ Popped \subseteq Popped'
    BY <2>1 DEF Handled, Popped
  <2>3. CASE buffer[1].token \in Handled
    <3>1. buffer[1].token \in Popped' /\ buffer[1].token \notin Popped
      BY <2>1, <2>2, <2>3 DEF Popped, FullInv
    <3> QED BY <1>2, <2>2, <3>1, StepsKeep, Accounting
  <2>4. CASE buffer[1].token \notin Handled
    <3>1. \A i \in DOMAIN buffer : buffer[i].token \notin Handled
      BY <2>4 DEF ListInv
    <3>2. Owed' => Owed
      BY <2>1, <3>1 DEF Owed
    <3> QED BY <1>2, <2>2, <3>2, StepsKeep, Accounting
  <2> QED BY <2>3, <2>4
<1>3. ASSUME NEW t \in Threads, AddAppend(t), ~ DrainRemove PROVE Account'
  <2>1. UNCHANGED <<handed, lost>> /\ (AtDrain' => AtDrain)
    BY <1>0, <1>3 DEF AddAppend, GoTo, TypeOK, AtDrain
  <2>2. Handled' = Handled /\ Popped' = Popped
    BY <2>1 DEF Handled, Popped
  <2>3. /\ \A i \in DOMAIN buffer : i \in DOMAIN buffer' /\ buffer'[i] = buffer[i]
    BY <1>3, AppendedElement
  <2>4. Owed' => Owed
    BY <2>1, <2>2, <2>3 DEF Owed
  <2> QED BY <1>3, <2>2, <2>4, StepsKeep, Accounting
<1>4. ASSUME DrainPeek \/ DrainFirst \/ CoreCrash, ~ DrainRemove PROVE Account'
  <2>1. /\ UNCHANGED handed /\ lost'.insert = lost.insert /\ lost'.full = lost.full
        /\ AtDrain' => AtDrain /\ UNCHANGED buffer
    BY <1>0, <1>4 DEF DrainPeek, DrainFirst, CoreCrash, GoTo, TypeOK, Reasons, AtDrain
  <2>2. Handled' = Handled /\ Popped' = Popped
    BY <2>1 DEF Handled, Popped
  <2>3. Owed' => Owed
    BY <2>1, <2>2 DEF Owed
  <2> QED BY <1>4, <2>2, <2>3, StepsKeep, Accounting
<1>5. ASSUME DrainRun, ~ DrainRemove PROVE Account'
  <2>1. /\ Handled' = Handled \cup {token[Main]} /\ lost'.full = lost.full
        /\ pc[Main] = "run" /\ UNCHANGED buffer
    BY <1>5, RunHandles DEF DrainRun
  <2>2. Popped \subseteq Popped' /\ token[Main] \notin Handled
    BY <2>1 DEF Popped, ListInv
  <2>3. CASE token[Main] \in lost.full
    <3>1. token[Main] \in Popped' /\ token[Main] \notin Popped
      BY <2>1, <2>2, <2>3 DEF Popped
    <3> QED BY <1>5, <2>2, <3>1, StepsKeep, Accounting
  <2>4. CASE token[Main] \notin lost.full
    <3>1. \E i \in DOMAIN buffer : buffer[i].token = token[Main]
      BY <2>1, <2>4 DEF FullInv
    <3>2. ~ Owed'
      BY <2>1, <3>1 DEF Owed
    <3> QED BY <1>5, <2>2, <3>2, StepsKeep, Accounting
  <2> QED BY <2>3, <2>4
<1>6. CASE DrainRemove
  <2>1. /\ UNCHANGED <<handed, lost>> /\ ~ AtDrain' /\ AtDrain
    BY <1>0, <1>6 DEF DrainRemove, GoTo, TypeOK, AtDrain
  <2>2. Popped' = Popped /\ ~ Owed'
    BY <2>1 DEF Handled, Popped, Owed
  <2>3. CASE KeepsAllBut({})
    BY <2>2, <2>3, Accounting
  <2>4. CASE (\A i \in DOMAIN buffer : buffer[i].token \notin Handled) /\ \E x : KeepsAllBut({x})
    <3>1. Owed
      BY <2>1, <2>4 DEF Owed
    <3> QED BY <2>2, <2>4, <3>1, Accounting
  <2> QED BY <1>6, <2>3, <2>4, RemoveKeeps
<1> QED BY <1>1, <1>2, <1>3, <1>4, <1>5, <1>6, QuietSteps DEF Next, Add, Drain

(* VanishesOnlyByOverflow (MsgQueueBuffer.add between                      *)
(* get_next_subtracted_element and query_and_subtract_first): in any       *)
(* interleaving, one payload at most for each head popped.                 *)
THEOREM AlwaysVanishesOnlyByOverflow == Spec => []VanishesOnlyByOverflow
<1>1. Init => FullInv /\ Account
  <2> SUFFICES ASSUME Init PROVE FullInv /\ Account
    OBVIOUS
  <2>1. /\ DOMAIN buffer = {} /\ lost.full = {} /\ pc[Main] = "idle" /\ born = 0
    BY DEF Init, Threads
  <2>2. Vanished = {} /\ Popped = {} /\ ~ Owed
    BY <2>1 DEF Vanished, Popped, Owed, AtDrain
  <2>3. Cardinality({}) = 0
    BY FS_EmptySet
  <2> QED BY <2>1, <2>2, <2>3 DEF FullInv, Account, Debt
<1>2. TypeOK /\ TypeOK' /\ ThreadsOK /\ Once /\ ListInv /\ (FullInv /\ Account) /\ [Next]_vars
        => (FullInv /\ Account)'
  BY FullKept, AccountKept
<1>3. TypeOK /\ Account => VanishesOnlyByOverflow
  <2> SUFFICES ASSUME TypeOK, Account PROVE VanishesOnlyByOverflow
    OBVIOUS
  <2>1. Cardinality(Vanished) \in Nat /\ Cardinality(Popped) \in Nat /\ Debt \in 0 .. 1
    BY AccountFacts DEF Debt
  <2>2. Cardinality(Vanished) <= Cardinality(Popped)
    BY <2>1 DEF Account
  <2> QED BY <2>2 DEF VanishesOnlyByOverflow, Popped, Handled
<1> QED BY <1>1, <1>2, <1>3, TypeCorrect, OnceAlways, OrderAlways, PTL DEF Spec
-----------------------------------------------------------------------------
(* LocationManager                                                         *)

(* A latitude and a longitude in the row belong together when the modem    *)
(* program is not between its two writes and has failed at neither.        *)
RowOK ==
  /\ mixed = "no" => cavli.latitude = cavli.longitude
  /\ modem.next = "longitude" /\ mixed = "half" => cavli.latitude = modem.fix

(* What a retry has read belongs together if nothing was written while it  *)
(* read, or one of the two reads has failed.                               *)
ReadOK ==
  /\ chain.at = "longitude" /\ ~ torn =>
        mixed = "no" /\ chain.lat \in {"None", cavli.latitude}
  /\ chain.at = "decide" /\ ~ torn =>
        chain.lat = chain.lon \/ "None" \in {chain.lat, chain.lon}

(* Who has confirmed a position reads no other.                            *)
ConfirmedForGood ==
  location.state = "CONFIRMED" => chain.runs = "_on_scheduled_send" /\ chain.at = "timer"

ManagersInv == RowOK /\ ReadOK /\ ConfirmedForGood /\ ConfirmedIsAFix

LEMMA CoordinateFacts ==
  /\ "None" \in Coordinates /\ "default" \in Coordinates /\ "zero" \in Coordinates
  /\ Fixes \subseteq Coordinates
  /\ \A x \in Coordinates : x \notin {"None", "default", "zero"} => x \in Fixes
BY DEF Coordinates, Placeholders

(* A pair that passes _valid and whose halves are equal is a fix.          *)
LEMMA ValidPairIsWhole ==
  ASSUME NEW x \in Coordinates, Valid(x, x)
  PROVE  Whole(x, x)
BY CoordinateFacts DEF Valid, Whole

(* The kinds of calls that may fail, and what a chain of timers may become.*)
LEMMA SendKeepsTypes ==
  ASSUME ManagersTypeOK, NEW x \in Coordinates, NEW y \in Coordinates, Send(<<x, y>>)
  PROVE  /\ toldWhere' \in Coordinates \X Coordinates
         /\ missed' \in BOOLEAN /\ faults' \in Nat
         /\ missed' \/ toldWhere' = <<x, y>>
<1>1. CASE toldWhere' = <<x, y>> /\ missed' = FALSE /\ UNCHANGED faults
  <2>1. faults' \in Nat
    BY <1>1 DEF ManagersTypeOK
  <2> QED BY <1>1, <2>1, Zenon
<1>2. CASE UNCHANGED toldWhere /\ missed' = TRUE /\ Fails
  <2>1. faults' \in Nat
    BY <1>2 DEF ManagersTypeOK, Fails
  <2>2. toldWhere' \in Coordinates \X Coordinates
    BY <1>2, Zenon DEF ManagersTypeOK
  <2> QED BY <1>2, <2>1, <2>2, Zenon
<1> QED BY <1>1, <1>2, Zenon DEF Send

ChainType == [runs : Callbacks \cup {"none"}, at : {"timer", "longitude", "decide"},
              lat : Coordinates, lon : Coordinates]

LEMMA ScheduleKeepsTypes ==
  ASSUME NEW callback \in Callbacks, Schedule(callback)
  PROVE  /\ chain' \in ChainType
         /\ chain'.runs = callback /\ chain'.at = "timer"
BY CoordinateFacts DEF Schedule, NoChain, ChainType, Callbacks

LEMMA ManagersTypesKept ==
  ASSUME ManagersTypeOK, [ManagersNext]_allVars
  PROVE  ManagersTypeOK'
<1> USE DEF ManagersTypeOK, Parsed
<1>0. CASE UNCHANGED <<follows, managerVars>>
  BY <1>0 DEF managerVars
<1>1. ASSUME NEW p \in Parsed, OfManagers, GetLatLong(p) PROVE ManagersTypeOK'
  BY <1>1 DEF OfManagers, GetLatLong
<1>2. CASE OfManagers /\ WriteLatitude
  BY <1>2, CoordinateFacts DEF OfManagers, WriteLatitude, Update, Fails
<1>3. CASE OfManagers /\ WriteLongitude
  BY <1>3, CoordinateFacts DEF OfManagers, WriteLongitude, Update, Fails
<1>4. CASE OfManagers /\ WriteIMEI
  BY <1>4 DEF OfManagers, WriteIMEI, Update, Fails
<1>5. CASE OfManagers /\ RestartModem
  BY <1>5 DEF OfManagers, RestartModem, Programs
<1>6. CASE OfManagers /\ StartManagers
  <2>1. chain' \in ChainType
    BY <1>6, ScheduleKeepsTypes DEF StartManagers, Callbacks
  <2>2. /\ toldWhere' \in Coordinates \X Coordinates
        /\ missed' \in BOOLEAN /\ faults' \in Nat
    BY <1>6, CoordinateFacts, SendKeepsTypes DEF StartManagers, DefaultPosition
  <2> QED BY <1>6, <2>1, <2>2, CoordinateFacts DEF OfManagers, StartManagers, Unset, ChainType
<1>7. CASE OfManagers /\ FetchLatitude
  <2>1. chain' \in ChainType /\ faults' \in Nat
    <3>1. PICK lat \in Coordinates :
            /\ Retrieve("latitude", lat)
            /\ chain' = [chain EXCEPT !.at = "longitude", !.lat = lat]
      BY <1>7, Zenon DEF FetchLatitude
    <3>2. chain' \in ChainType
      BY <3>1 DEF ChainType
    <3>3. faults' = faults \/ faults' = faults + 1
      BY <3>1, Zenon DEF Retrieve, Fails
    <3> QED BY <3>2, <3>3
  <2>2. location' \in [state : {"down", "STARTUP_RETRY", "LONG_RETRY", "CONFIRMED"},
                       startup_attempt : Nat, lat : Coordinates, lon : Coordinates]
    BY <1>7 DEF FetchLatitude
  <2>3. torn' \in BOOLEAN
    BY <1>7, Zenon DEF FetchLatitude
  <2> QED BY <1>7, <2>1, <2>2, <2>3 DEF OfManagers, FetchLatitude, ChainType
<1>8. CASE OfManagers /\ FetchLongitude
  <2>1. chain' \in ChainType /\ faults' \in Nat
    <3>1. PICK lon \in Coordinates :
            /\ Retrieve("longitude", lon)
            /\ chain' = [chain EXCEPT !.at = "decide", !.lon = lon]
      BY <1>8, Zenon DEF FetchLongitude
    <3>2. chain' \in ChainType
      BY <3>1 DEF ChainType
    <3>3. faults' = faults \/ faults' = faults + 1
      BY <3>1, Zenon DEF Retrieve, Fails
    <3> QED BY <3>2, <3>3
  <2> QED BY <1>8, <2>1 DEF OfManagers, FetchLongitude, ChainType
<1>9. CASE OfManagers /\ Confirm
  <2>1. chain' \in ChainType
    BY <1>9, ScheduleKeepsTypes DEF Confirm, Callbacks
  <2>2. /\ toldWhere' \in Coordinates \X Coordinates
        /\ missed' \in BOOLEAN /\ faults' \in Nat
    BY <1>9, SendKeepsTypes DEF Confirm
  <2> QED BY <1>9, <2>1, <2>2 DEF OfManagers, Confirm, ChainType
<1>10. CASE OfManagers /\ StartupRetryFails
  <2>1. chain' \in ChainType
    BY <1>10, ScheduleKeepsTypes DEF StartupRetryFails, Callbacks
  <2> QED BY <1>10, <2>1 DEF OfManagers, StartupRetryFails, ChainType
<1>11. CASE OfManagers /\ LongRetryFails
  <2>1. chain' \in ChainType
    BY <1>11, ScheduleKeepsTypes DEF LongRetryFails, Callbacks
  <2>2. /\ toldWhere' \in Coordinates \X Coordinates
        /\ missed' \in BOOLEAN /\ faults' \in Nat
    BY <1>11, CoordinateFacts, SendKeepsTypes DEF LongRetryFails, DefaultPosition
  <2> QED BY <1>11, <2>1, <2>2 DEF OfManagers, LongRetryFails, ChainType
<1>12. CASE OfManagers /\ ScheduledSend
  <2>1. chain' \in ChainType
    BY <1>12, ScheduleKeepsTypes DEF ScheduledSend, Callbacks
  <2>2. /\ toldWhere' \in Coordinates \X Coordinates
        /\ missed' \in BOOLEAN /\ faults' \in Nat
    BY <1>12, SendKeepsTypes DEF ScheduledSend
  <2> QED BY <1>12, <2>1, <2>2 DEF OfManagers, ScheduledSend, ChainType
<1>13. CASE OfManagers /\ SendIMEI
  BY <1>13 DEF OfManagers, SendIMEI, Retrieve, Fails
<1>14. CASE OfManagers /\ RestartCore
  BY <1>14, CoordinateFacts DEF OfManagers, RestartCore, Unset, NoChain, Programs
<1> QED
  BY <1>0, <1>1, <1>2, <1>3, <1>4, <1>5, <1>6, <1>7, <1>8, <1>9, <1>10, <1>11, <1>12, <1>13,
     <1>14
  DEF ManagersNext, ManagersStep, PipelineStep, Managers, ModemSteps, Chain, allVars

LEMMA ManagersStartTyped ==
  ASSUME ManagersInit
  PROVE  ManagersTypeOK /\ ManagersInv
<1>1. ManagersTypeOK
  <2>1. follows \in AllSubjects
    BY LocationAssumption DEF ManagersInit
  <2>2. cavli \in [latitude : Coordinates, longitude : Coordinates, IMEI : {"None", "0", "imei"}]
    BY CoordinateFacts DEF ManagersInit, NewRow, LastRows
  <2>3. toldWhere \in Coordinates \X Coordinates
    BY CoordinateFacts, Zenon DEF ManagersInit
  <2>4. /\ location \in [state : {"down", "STARTUP_RETRY", "LONG_RETRY", "CONFIRMED"},
                         startup_attempt : Nat, lat : Coordinates, lon : Coordinates]
        /\ chain \in ChainType
    BY CoordinateFacts DEF ManagersInit, Unset, NoChain, ChainType
  <2>5. restarts \in [Programs -> Nat] /\ faults \in Nat
    BY DEF ManagersInit, Programs
  <2>6. torn \in BOOLEAN /\ missed \in BOOLEAN
    BY Zenon DEF ManagersInit
  <2> QED BY <2>1, <2>2, <2>3, <2>4, <2>5, <2>6 DEF ManagersInit, ManagersTypeOK, ChainType
<1>2. cavli.latitude = cavli.longitude
  BY DEF ManagersInit, NewRow, LastRows
<1> QED BY <1>1, <1>2
    DEF ManagersInit, ManagersInv, RowOK, ReadOK, ConfirmedForGood, ConfirmedIsAFix, Unset, NoChain

(* The managers, the row and the modem program keep their types            *)
(* (location_manager.py, imei_manager.py).                                 *)
THEOREM ManagersTypeCorrect == ManagersSpec => []ManagersTypeOK
<1>1. ManagersInit => ManagersTypeOK
  BY ManagersStartTyped
<1>2. ManagersTypeOK /\ [ManagersNext]_allVars => ManagersTypeOK'
  BY ManagersTypesKept
<1> QED BY <1>1, <1>2, PTL DEF ManagersSpec

(* The two writes of the modem program, and the reads that fall between.   *)
LEMMA RowKept ==
  ASSUME ManagersTypeOK, RowOK, ManagersStep
  PROVE  RowOK'
<1> USE DEF ManagersTypeOK, RowOK
<1>1. CASE WriteLatitude
  BY <1>1 DEF WriteLatitude, Update
<1>2. CASE WriteLongitude
  <2>1. modem'.next # "longitude"
    BY <1>2 DEF WriteLongitude
  <2>2. ASSUME mixed' = "no" PROVE cavli'.latitude = cavli'.longitude
    BY <1>2, <2>2 DEF WriteLongitude, Update
  <2> QED BY <2>1, <2>2
<1>3. CASE WriteIMEI
  <2>1. modem'.next # "longitude" /\ UNCHANGED mixed
    BY <1>3 DEF WriteIMEI
  <2>2. cavli'.latitude = cavli.latitude /\ cavli'.longitude = cavli.longitude
    BY <1>3 DEF WriteIMEI, Update
  <2> QED BY <2>1, <2>2
<1>4. ASSUME NEW p \in Parsed, GetLatLong(p) PROVE RowOK'
  BY <1>4 DEF GetLatLong
<1>5. CASE RestartModem
  BY <1>5 DEF RestartModem
<1>6. CASE StartManagers \/ Chain \/ SendIMEI \/ RestartCore
  <2>1. UNCHANGED <<cavli, modem, mixed>>
    BY <1>6, Zenon DEF StartManagers, Chain, FetchLatitude, FetchLongitude, Confirm,
                       StartupRetryFails, LongRetryFails, ScheduledSend, SendIMEI, RestartCore
  <2> QED BY <2>1
<1> QED BY <1>1, <1>2, <1>3, <1>4, <1>5, <1>6 DEF ManagersStep, Managers, ModemSteps

LEMMA ReadKept ==
  ASSUME ManagersTypeOK, RowOK, ReadOK, ManagersStep
  PROVE  ReadOK'
<1> USE DEF ManagersTypeOK, ReadOK
<1>1. CASE WriteLatitude \/ WriteLongitude
  <2>1. UNCHANGED chain /\ torn' = (torn \/ chain.at = "longitude")
    BY <1>1, Zenon DEF WriteLatitude, WriteLongitude
  <2> QED BY <2>1
<1>2. CASE WriteIMEI
  <2>1. UNCHANGED <<chain, mixed, torn>>
    BY <1>2, Zenon DEF WriteIMEI
  <2>2. cavli'.latitude = cavli.latitude
    BY <1>2 DEF WriteIMEI, Update
  <2> QED BY <2>1, <2>2
<1>3. CASE (\E p \in Parsed : GetLatLong(p)) \/ RestartModem \/ SendIMEI
  <2>1. UNCHANGED <<cavli, chain, mixed, torn>>
    BY <1>3, Zenon DEF GetLatLong, RestartModem, SendIMEI
  <2> QED BY <2>1
<1>4. CASE FetchLatitude
  <2>1. PICK lat \in Coordinates :
          /\ Retrieve("latitude", lat)
          /\ chain' = [chain EXCEPT !.at = "longitude", !.lat = lat]
    BY <1>4, Zenon DEF FetchLatitude
  <2>2. lat \in {"None", cavli.latitude}
    BY <2>1, Zenon DEF Retrieve
  <2>3. chain'.at = "longitude" /\ chain'.lat = lat
    BY <2>1
  <2>4. torn' = (mixed # "no") /\ UNCHANGED <<cavli, mixed>>
    BY <1>4, Zenon DEF FetchLatitude
  <2> QED BY <2>2, <2>3, <2>4
<1>5. CASE FetchLongitude
  <2>1. PICK lon \in Coordinates :
          /\ Retrieve("longitude", lon)
          /\ chain' = [chain EXCEPT !.at = "decide", !.lon = lon]
    BY <1>5, Zenon DEF FetchLongitude
  <2>2. lon \in {"None", cavli.longitude}
    BY <2>1, Zenon DEF Retrieve
  <2>3. chain'.at = "decide" /\ chain'.lat = chain.lat /\ chain'.lon = lon
    BY <2>1
  <2>4. chain.at = "longitude" /\ UNCHANGED torn
    BY <1>5, Zenon DEF FetchLongitude
  <2>5. ~ torn => cavli.latitude = cavli.longitude /\ chain.lat \in {"None", cavli.latitude}
    BY <2>4 DEF RowOK
  <2> QED BY <2>2, <2>3, <2>4, <2>5
<1>6. CASE StartManagers \/ Confirm \/ StartupRetryFails \/ LongRetryFails \/ ScheduledSend
           \/ RestartCore
  <2>1. chain'.at = "timer"
    BY <1>6 DEF StartManagers, Confirm, StartupRetryFails, LongRetryFails, ScheduledSend,
                RestartCore, Schedule, NoChain
  <2> QED BY <2>1
<1> QED BY <1>1, <1>2, <1>3, <1>4, <1>5, <1>6 DEF ManagersStep, Managers, ModemSteps, Chain

(* Once confirmed, the chain sends, and nothing else ever runs.            *)
LEMMA ConfirmedKept ==
  ASSUME ManagersTypeOK, ReadOK, ConfirmedForGood, ConfirmedIsAFix, ManagersStep
  PROVE  (ConfirmedForGood /\ ConfirmedIsAFix)'
<1> USE DEF ManagersTypeOK, ConfirmedForGood, ConfirmedIsAFix
<1>1. CASE WriteLatitude \/ WriteLongitude
  <2>1. /\ UNCHANGED <<location, chain, toldWhere, missed>>
        /\ torn' = (torn \/ chain.at = "longitude")
    BY <1>1, Zenon DEF WriteLatitude, WriteLongitude
  <2> QED BY <2>1
<1>2. CASE (ModemSteps /\ ~ WriteLatitude /\ ~ WriteLongitude) \/ SendIMEI
  <2>1. UNCHANGED <<location, chain, toldWhere, missed, torn>>
    BY <1>2, Zenon DEF ModemSteps, WriteIMEI, GetLatLong, RestartModem, SendIMEI
  <2> QED BY <2>1
<1>3. CASE StartManagers \/ RestartCore
  <2>1. location'.state # "CONFIRMED"
    BY <1>3 DEF StartManagers, RestartCore, Unset
  <2> QED BY <2>1
<1>4. CASE FetchLatitude \/ FetchLongitude
  <2>1. location.state # "CONFIRMED"
    BY <1>4 DEF FetchLatitude, FetchLongitude
  <2>2. location'.state = location.state
    BY <1>4 DEF FetchLatitude, FetchLongitude
  <2> QED BY <2>1, <2>2
<1>5. CASE StartupRetryFails \/ LongRetryFails
  <2>1. location.state # "CONFIRMED"
    BY <1>5 DEF StartupRetryFails, LongRetryFails
  <2>2. location'.state # "CONFIRMED"
    BY <1>5, <2>1 DEF StartupRetryFails, LongRetryFails
  <2> QED BY <2>2
<1>6. CASE Confirm
  <2>1. /\ Valid(chain.lat, chain.lon) /\ chain.at = "decide"
        /\ Send(<<chain.lat, chain.lon>>) /\ Schedule("_on_scheduled_send")
        /\ UNCHANGED torn
    BY <1>6, Zenon DEF Confirm
  <2>2. location'.lat = chain.lat /\ location'.lon = chain.lon
    BY <1>6 DEF Confirm
  <2>3. torn \/ Whole(chain.lat, chain.lon)
    <3>1. CASE ~ torn
      <4>1. "None" \notin {chain.lat, chain.lon}
        BY <2>1 DEF Valid
      <4>2. chain.lat = chain.lon
        BY <2>1, <3>1, <4>1 DEF ReadOK
      <4> QED BY <2>1, <4>2, ValidPairIsWhole
    <3> QED BY <3>1
  <2>4. missed' \/ toldWhere' = <<chain.lat, chain.lon>>
    BY <2>1, SendKeepsTypes
  <2>5. chain'.runs = "_on_scheduled_send" /\ chain'.at = "timer"
    BY <2>1, ScheduleKeepsTypes DEF Callbacks
  <2> QED BY <2>1, <2>2, <2>3, <2>4, <2>5
<1>7. CASE ScheduledSend
  <2>1. /\ Send(<<location.lat, location.lon>>) /\ Schedule("_on_scheduled_send")
        /\ UNCHANGED <<location, torn>>
    BY <1>7, Zenon DEF ScheduledSend
  <2>2. missed' \/ toldWhere' = <<location.lat, location.lon>>
    BY <2>1, SendKeepsTypes
  <2>3. chain'.runs = "_on_scheduled_send" /\ chain'.at = "timer"
    BY <2>1, ScheduleKeepsTypes DEF Callbacks
  <2> QED BY <2>1, <2>2, <2>3
<1> QED BY <1>1, <1>2, <1>3, <1>4, <1>5, <1>6, <1>7 DEF ManagersStep, Managers, Chain

(* ConfirmedIsAFix (location_manager.py, _fetch_gps, _valid and            *)
(* _on_scheduled_send): for any fixes, attempts, failing calls and         *)
(* restarts of both programs.                                              *)
THEOREM ConfirmedIsAlwaysAFix == ManagersSpec => []ConfirmedIsAFix
<1>1. ManagersInit => ManagersInv
  BY ManagersStartTyped
<1>2. ManagersTypeOK /\ ManagersInv /\ [ManagersNext]_allVars => ManagersInv'
  <2> SUFFICES ASSUME ManagersTypeOK, ManagersInv, [ManagersNext]_allVars
               PROVE  ManagersInv'
    OBVIOUS
  <2>1. CASE ManagersStep
    BY <2>1, RowKept, ReadKept, ConfirmedKept DEF ManagersInv
  <2>2. CASE UNCHANGED managerVars
    BY <2>2 DEF managerVars, ManagersInv, RowOK, ReadOK, ConfirmedForGood, ConfirmedIsAFix
  <2> QED BY <2>1, <2>2 DEF ManagersNext, PipelineStep, allVars
<1>3. ManagersInv => ConfirmedIsAFix
  BY DEF ManagersInv
<1> QED BY <1>1, <1>2, <1>3, ManagersTypeCorrect, PTL DEF ManagersSpec

(* The managers and the modem program never disturb the pipeline: with     *)
(* them it behaves as CorePipeline says, and all that is proved of it      *)
(* holds (location_manager.py and imei_manager.py only add to the list).   *)
THEOREM PipelineUndisturbed ==
  ManagersSpec => Spec /\ [](HandedInOrder /\ OvershootBounded /\ VanishesOnlyByOverflow)
<1>1. ManagersInit => Init
  BY Zenon DEF ManagersInit
<1>2. [ManagersNext]_allVars => [Next]_vars
  BY Zenon DEF ManagersNext, ManagersStep, OfManagers, PipelineStep, allVars
<1>3. ManagersSpec => Spec
  BY <1>1, <1>2, PTL DEF ManagersSpec, Spec
<1> QED
  BY <1>3, AlwaysHandedInOrder, OvershootIsAlwaysBounded, AlwaysVanishesOnlyByOverflow, PTL
=============================================================================
