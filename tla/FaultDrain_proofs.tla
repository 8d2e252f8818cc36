-------------------------- MODULE FaultDrain_proofs --------------------------
(* What the fault drain promises, proved for every limit of the driver and  *)
(* the program, for faults at any moment and polls that fail at any frame.  *)
EXTENDS FaultDrain, FiniteSetTheorems, SequenceTheorems, TLAPS

\* A sequence after another, place by place.
LEMMA ConcatAt ==
  ASSUME NEW S, NEW s \in Seq(S), NEW t \in Seq(S)
  PROVE  /\ s \o t \in Seq(S) /\ Len(s) \in Nat /\ Len(t) \in Nat
         /\ DOMAIN s = 1..Len(s) /\ DOMAIN t = 1..Len(t)
         /\ DOMAIN (s \o t) = 1..(Len(s) + Len(t))
         /\ \A k \in 1..Len(s) : (s \o t)[k] = s[k] /\ s[k] \in S
         /\ \A k \in 1..Len(t) : (s \o t)[Len(s) + k] = t[k] /\ t[k] \in S
<1>1. /\ s \o t \in Seq(S) /\ Len(s) \in Nat /\ Len(t) \in Nat
      /\ DOMAIN s = 1..Len(s) /\ DOMAIN t = 1..Len(t)
      /\ Len(s \o t) = Len(s) + Len(t)
  BY ConcatProperties, LenProperties
<1>2. DOMAIN (s \o t) = 1..(Len(s) + Len(t))
  BY <1>1, LenProperties
<1>3. ASSUME NEW k \in 1..Len(s) PROVE (s \o t)[k] = s[k] /\ s[k] \in S
  BY <1>1, ConcatProperties, ElementOfSeq
<1>4. ASSUME NEW k \in 1..Len(t) PROVE (s \o t)[Len(s) + k] = t[k] /\ t[k] \in S
  <2>1. Len(s) + k \in 1..(Len(s) + Len(t)) /\ ~(Len(s) + k <= Len(s))
        /\ (Len(s) + k) - Len(s) = k
    BY <1>1
  <2> QED
    BY <2>1, ConcatProperties, ElementOfSeq
<1> QED
  BY <1>1, <1>2, <1>3, <1>4

\* What a concatenation holds is what its two parts hold.
LEMMA RangeOfConcat ==
  ASSUME NEW S, NEW s \in Seq(S), NEW t \in Seq(S)
  PROVE  Range(s \o t) = Range(s) \cup Range(t)
<1>1. ASSUME NEW x \in Range(s) PROVE x \in Range(s \o t)
  BY ConcatAt DEF Range
<1>2. ASSUME NEW x \in Range(t) PROVE x \in Range(s \o t)
  <2>1. PICK k \in 1..Len(t) : x = t[k]
    BY ConcatAt DEF Range
  <2>2. Len(s) + k \in DOMAIN (s \o t) /\ (s \o t)[Len(s) + k] = x
    BY <2>1, ConcatAt
  <2> QED
    BY <2>2 DEF Range
<1>3. ASSUME NEW x \in Range(s \o t) PROVE x \in Range(s) \cup Range(t)
  <2>1. PICK k \in 1..(Len(s) + Len(t)) : x = (s \o t)[k]
    BY ConcatAt DEF Range
  <2>2. CASE k \in 1..Len(s)
    BY <2>1, <2>2, ConcatAt DEF Range
  <2>3. CASE k \notin 1..Len(s)
    <3>1. k - Len(s) \in 1..Len(t) /\ Len(s) + (k - Len(s)) = k
      BY <2>3, ConcatAt
    <3>2. x = t[k - Len(s)]
      BY <2>1, <3>1, ConcatAt
    <3> QED
      BY <3>1, <3>2, ConcatAt DEF Range
  <2> QED
    BY <2>2, <2>3
<1> QED
  BY <1>1, <1>2, <1>3

\* What a sequence holds after an element is added.
LEMMA RangeOfAppend ==
  ASSUME NEW S, NEW s \in Seq(S), NEW e \in S
  PROVE  Range(Append(s, e)) = Range(s) \cup {e}
<1>1. /\ Len(s) \in Nat /\ DOMAIN s = 1..Len(s)
      /\ DOMAIN Append(s, e) = 1..(Len(s) + 1)
      /\ \A k \in 1..Len(s) : Append(s, e)[k] = s[k]
      /\ Append(s, e)[Len(s) + 1] = e
  BY AppendProperties, LenProperties
<1>2. Len(s) + 1 \in 1..(Len(s) + 1) /\ 1..(Len(s) + 1) = 1..Len(s) \cup {Len(s) + 1}
  BY <1>1
<1> QED
  BY <1>1, <1>2 DEF Range

\* The places of a sequence that hold an element of C.
Marked(s, C) == {k \in DOMAIN s : s[k] \in C}

\* The marked places of a concatenation are as many as those of its parts.
LEMMA MarkedInConcat ==
  ASSUME NEW S, NEW s \in Seq(S), NEW t \in Seq(S), NEW C
  PROVE  /\ Cardinality(Marked(s, C)) \in Nat
         /\ Cardinality(Marked(t, C)) \in Nat
         /\ Cardinality(Marked(s \o t, C))
              = Cardinality(Marked(s, C)) + Cardinality(Marked(t, C))
<1> DEFINE Shift == [k \in Marked(t, C) |-> Len(s) + k]
           Moved == {Len(s) + k : k \in Marked(t, C)}
<1>1. IsFiniteSet(Marked(s, C)) /\ IsFiniteSet(Marked(t, C))
  <2>1. IsFiniteSet(1..Len(s)) /\ IsFiniteSet(1..Len(t))
    BY ConcatAt, FS_Interval
  <2>2. Marked(s, C) \in SUBSET (1..Len(s)) /\ Marked(t, C) \in SUBSET (1..Len(t))
    BY ConcatAt DEF Marked
  <2> QED
    BY <2>1, <2>2, FS_Subset
<1>2. Shift \in Bijection(Marked(t, C), Moved)
  <2>1. Marked(t, C) \subseteq Nat /\ Len(s) \in Nat
    BY ConcatAt DEF Marked
  <2>2. \A j, k \in Marked(t, C) : Len(s) + j = Len(s) + k => j = k
    BY <2>1
  <2>3. Shift \in Injection(Marked(t, C), Moved)
    BY <2>2 DEF Injection, IsInjective
  <2>4. Shift \in Surjection(Marked(t, C), Moved)
    BY DEF Surjection
  <2> QED
    BY <2>3, <2>4 DEF Bijection
<1>3. IsFiniteSet(Moved) /\ Cardinality(Moved) = Cardinality(Marked(t, C))
  <2>1. ExistsBijection(Marked(t, C), Moved)
    BY <1>2 DEF ExistsBijection
  <2> QED
    BY <1>1, <2>1, FS_Bijection
<1>4. Marked(s \o t, C) = Marked(s, C) \cup Moved
  <2>1. ASSUME NEW k \in Marked(s \o t, C) PROVE k \in Marked(s, C) \cup Moved
    <3>1. k \in 1..(Len(s) + Len(t)) /\ (s \o t)[k] \in C
      BY ConcatAt DEF Marked
    <3>2. CASE k \in 1..Len(s)
      BY <3>1, <3>2, ConcatAt DEF Marked
    <3>3. CASE k \notin 1..Len(s)
      <4>1. k - Len(s) \in 1..Len(t) /\ Len(s) + (k - Len(s)) = k
        BY <3>1, <3>3, ConcatAt
      <4>2. k - Len(s) \in Marked(t, C)
        BY <3>1, <4>1, ConcatAt DEF Marked
      <4> QED
        BY <4>1, <4>2
    <3> QED
      BY <3>2, <3>3
  <2>2. ASSUME NEW k \in Marked(s, C) PROVE k \in Marked(s \o t, C)
    BY ConcatAt DEF Marked
  <2>3. ASSUME NEW k \in Marked(t, C) PROVE Len(s) + k \in Marked(s \o t, C)
    BY ConcatAt DEF Marked
  <2> QED
    BY <2>1, <2>2, <2>3
<1>5. Marked(s, C) \cap Moved = {}
  <2>1. \A k \in 1..Len(t) : Len(s) + k \notin 1..Len(s)
    BY ConcatAt
  <2> QED
    BY <2>1, ConcatAt DEF Marked
<1>6. /\ Cardinality(Marked(s, C)) \in Nat /\ Cardinality(Marked(t, C)) \in Nat
      /\ Cardinality(Marked(s, C) \cap Moved) = 0
  BY <1>1, <1>5, FS_CardinalityType, FS_EmptySet
<1>7. Cardinality(Marked(s, C) \cup Moved)
        = Cardinality(Marked(s, C)) + Cardinality(Moved) - Cardinality(Marked(s, C) \cap Moved)
  BY <1>1, <1>3, FS_Union
<1> QED
  BY <1>3, <1>4, <1>6, <1>7
-----------------------------------------------------------------------------
\* The log holds no more than the driver's limit, and the loop polls only while
\* frames are left.
WithinLimits ==
  /\ Len(log) <= PropertyLimit
  /\ pc # "stopped" => frameNumber < MaxFrames

TypeInv == TypeOK /\ WithinLimits

\* What a poll reads is the front of the log: all of it, if the array is as
\* large as the log.
LEMMA FetchedIsFront ==
  ASSUME TypeInv
  PROVE  /\ Fetched \in Seq(Faults) /\ Len(Fetched) \in Nat
         /\ Len(Fetched) <= Len(log)
         /\ \A k \in 1..Len(Fetched) : Fetched[k] = log[k]
         /\ MaxQueryFaultCount <= MaxFaultEntries => Fetched = log
<1> DEFINE n == IF FaultCount < Len(log) THEN FaultCount ELSE Len(log)
<1>1. log \in Seq(Faults) /\ Len(log) \in Nat
  BY LenProperties DEF TypeInv, TypeOK
<1>2. FaultCount \in Nat
  BY FaultAssumption DEF FaultCount, MaxQueryFaultCount
<1>3. n \in 0..Len(log)
  BY <1>1, <1>2
<1>4. Fetched = SubSeq(log, 1, n)
  BY DEF Fetched
<1> HIDE DEF n
<1>5. \A k \in 1..n : log[k] \in Faults
  BY <1>1, <1>3, ElementOfSeq
<1>6. /\ Fetched \in Seq(Faults) /\ Len(Fetched) = n
      /\ \A k \in 1..n : Fetched[k] = log[k]
  <2>1. n \in Int /\ 1 \in Int /\ (IF 1 <= n THEN n - 1 + 1 ELSE 0) = n /\ n - 1 + 1 = n
        /\ \A k \in 1..n : 1 + k - 1 = k
    BY <1>3
  <2>2. /\ SubSeq(log, 1, n) \in Seq(Faults)
        /\ Len(SubSeq(log, 1, n)) = (IF 1 <= n THEN n - 1 + 1 ELSE 0)
        /\ \A k \in 1..(n - 1 + 1) : SubSeq(log, 1, n)[k] = log[1 + k - 1]
    BY <1>5, <2>1, SubSeqProperties
  <2> QED
    BY <1>4, <2>1, <2>2
<1>7. ASSUME MaxQueryFaultCount <= MaxFaultEntries PROVE Fetched = log
  <2>1. Len(log) <= FaultCount
    BY <1>1, <1>7, FaultAssumption DEF FaultCount, MaxQueryFaultCount, TypeInv, WithinLimits
  <2>2. n = Len(log)
    BY <1>1, <1>2, <2>1 DEF n
  <2> QED
    BY <1>1, <1>4, <2>2, SubSeqFull
<1> QED
  BY <1>3, <1>6, <1>7

\* The events of a poll: one for each critical fault read, one for the overflow.
LEMMA EventsOfPoll ==
  ASSUME TypeInv
  PROVE  /\ Cardinality(CriticalIn(Fetched)) \in Nat
         /\ NewEvents \in Seq(Nat)
         /\ Len(NewEvents)
              = Cardinality(CriticalIn(Fetched)) + (IF unrecorded THEN 1 ELSE 0)
<1> DEFINE n == Cardinality(CriticalIn(Fetched)) + (IF unrecorded THEN 1 ELSE 0)
<1>1. Cardinality(CriticalIn(Fetched)) \in Nat
  <2>1. DOMAIN Fetched = 1..Len(Fetched) /\ Len(Fetched) \in Nat
    BY FetchedIsFront, LenProperties
  <2>2. IsFiniteSet(1..Len(Fetched))
    BY <2>1, FS_Interval
  <2>3. CriticalIn(Fetched) \in SUBSET (1..Len(Fetched))
    BY <2>1 DEF CriticalIn
  <2> QED
    BY <2>2, <2>3, FS_Subset, FS_CardinalityType
<1>2. n \in Nat /\ faultFrame \in Nat
  BY <1>1 DEF TypeInv, TypeOK
<1>3. NewEvents = [k \in 1..n |-> faultFrame + k - 1]
  BY DEF NewEvents
<1> HIDE DEF n
<1>4. \A k \in 1..n : faultFrame + k - 1 \in Nat
  BY <1>2
<1>5. NewEvents \in Seq(Nat) /\ Len(NewEvents) = n
  BY <1>2, <1>3, <1>4
<1> QED
  BY <1>1, <1>5 DEF n

\* A fault more: those before it keep what they were.
LEMMA OneFaultMore ==
  ASSUME TypeInv, FaultOccurs
  PROVE  /\ occurred' \in Seq([critical : BOOLEAN, frame : Nat])
         /\ Len(occurred) \in Nat /\ Len(occurred') = Len(occurred) + 1
         /\ Faults' = Faults \cup {Len(occurred) + 1}
         /\ \A f \in Faults : occurred'[f] = occurred[f]
<1>1. PICK critical \in BOOLEAN :
        occurred' = Append(occurred, [critical |-> critical, frame |-> frameNumber])
  BY DEF FaultOccurs
<1>2. [critical |-> critical, frame |-> frameNumber] \in [critical : BOOLEAN, frame : Nat]
  BY FaultAssumption DEF TypeInv, TypeOK
<1>3. occurred \in Seq([critical : BOOLEAN, frame : Nat])
  BY DEF TypeInv, TypeOK
<1>4. /\ occurred' \in Seq([critical : BOOLEAN, frame : Nat])
      /\ Len(occurred) \in Nat /\ Len(occurred') = Len(occurred) + 1
      /\ \A f \in 1..Len(occurred) : occurred'[f] = occurred[f]
  BY <1>1, <1>2, <1>3, AppendProperties, LenProperties
<1>5. Faults' = Faults \cup {Len(occurred) + 1}
  BY <1>4 DEF Faults
<1> QED
  BY <1>4, <1>5 DEF Faults

\* A successful poll adds its place to the polls and, if records were lost, to
\* those that signalled it.
LEMMA OnePollMore ==
  ASSUME TypeInv, Drain
  PROVE  /\ polls' \in Seq(Nat)
         /\ Len(polls) \in Nat /\ DOMAIN polls = 1..Len(polls)
         /\ DOMAIN polls' = 1..(Len(polls) + 1)
         /\ \A k \in 1..Len(polls) : polls'[k] = polls[k]
         /\ polls'[Len(polls) + 1] = Len(occurred)
         /\ overflows' = overflows \cup (IF unrecorded THEN {Len(polls) + 1} ELSE {})
         /\ overflows \subseteq 1..Len(polls) /\ overflows' \subseteq DOMAIN polls'
<1>1. /\ polls \in Seq(Nat) /\ overflows \subseteq DOMAIN polls
      /\ occurred \in Seq([critical : BOOLEAN, frame : Nat])
  BY DEF TypeInv, TypeOK
<1>2. Len(occurred) \in Nat /\ Len(polls) \in Nat /\ DOMAIN polls = 1..Len(polls)
  BY <1>1, LenProperties
<1>3. /\ polls' = Append(polls, Len(occurred))
      /\ overflows' = overflows \cup (IF unrecorded THEN {Len(polls) + 1} ELSE {})
  BY DEF Drain, Polled
<1>4. /\ polls' \in Seq(Nat) /\ DOMAIN polls' = 1..(Len(polls) + 1)
      /\ \A k \in 1..Len(polls) : polls'[k] = polls[k]
      /\ polls'[Len(polls) + 1] = Len(occurred)
  BY <1>1, <1>2, <1>3, AppendProperties, LenProperties
<1> QED
  BY <1>1, <1>2, <1>3, <1>4

\* Every action keeps the types and the limits.
LEMMA StepType == TypeInv /\ [Next]_vars => TypeInv'
<1> SUFFICES ASSUME TypeInv, [Next]_vars PROVE TypeInv'
  OBVIOUS
<1> USE FaultAssumption
<1>1. CASE FaultOccurs
  <2>1. /\ log \in Seq(Faults) /\ forwarded \in Seq(Faults) /\ recorded \subseteq Faults
        /\ Len(log) \in Nat
    BY LenProperties DEF TypeInv, TypeOK
  <2>2. Faults \subseteq Faults' /\ Len(occurred) + 1 \in Faults'
    BY <1>1, OneFaultMore
  <2>3. log \in Seq(Faults') /\ forwarded \in Seq(Faults')
    BY <2>1, <2>2, SeqMonotonic
  <2>4. /\ log' \in Seq(Faults') /\ Len(log') <= PropertyLimit
        /\ recorded' \subseteq Faults' /\ unrecorded' \in BOOLEAN
    <3>1. CASE Len(log) < PropertyLimit
      <4>1. log' = Append(log, Len(occurred) + 1) /\ unrecorded' = unrecorded
            /\ recorded' = recorded \cup {Len(occurred) + 1}
        BY <1>1, <3>1 DEF FaultOccurs
      <4>2. log' \in Seq(Faults') /\ Len(log') = Len(log) + 1
        BY <2>2, <2>3, <4>1, AppendProperties
      <4> QED
        BY <2>1, <2>2, <3>1, <4>1, <4>2 DEF TypeInv, TypeOK
    <3>2. CASE ~(Len(log) < PropertyLimit)
      <4>1. unrecorded' = TRUE /\ log' = log /\ recorded' = recorded
        BY <1>1, <3>2 DEF FaultOccurs
      <4> QED
        BY <2>1, <2>2, <2>3, <4>1 DEF TypeInv, WithinLimits
    <3> QED
      BY <3>1, <3>2
  <2>5. /\ pc' = pc /\ frameNumber' = frameNumber /\ faultFrame' = faultFrame
        /\ forwarded' = forwarded /\ polls' = polls /\ overflows' = overflows /\ events' = events
    BY <1>1 DEF FaultOccurs
  <2>6. occurred' \in Seq([critical : BOOLEAN, frame : Nat])
    BY <1>1, OneFaultMore
  <2>7. TypeOK'
    BY <2>3, <2>4, <2>5, <2>6 DEF TypeInv, TypeOK
  <2> QED
    BY <2>4, <2>5, <2>7 DEF TypeInv, WithinLimits
<1>2. CASE Drain
  <2>1. forwarded' \in Seq(Faults) /\ events' \in Seq(Nat) /\ Len(NewEvents) \in Nat
    <3>1. forwarded \in Seq(Faults) /\ events \in Seq(Nat)
      BY DEF TypeInv, TypeOK
    <3>2. Fetched \in Seq(Faults) /\ NewEvents \in Seq(Nat)
      BY FetchedIsFront, EventsOfPoll
    <3> QED
      BY <1>2, <3>1, <3>2, ConcatAt, LenProperties DEF Drain
  <2>2. /\ log' = <<>> /\ log' \in Seq(Faults) /\ Len(log') = 0 /\ unrecorded' = FALSE
        /\ pc = "poll" /\ pc' = "frame"
        /\ faultFrame' \in Nat
        /\ frameNumber' = frameNumber /\ occurred' = occurred /\ recorded' = recorded
    BY <1>2, <2>1 DEF Drain, TypeInv, TypeOK
  <2>6. polls' \in Seq(Nat) /\ overflows' \subseteq DOMAIN polls'
    BY <1>2, OnePollMore
  <2>3. Faults' = Faults
    BY <2>2 DEF Faults
  <2>4. TypeOK'
    BY <2>1, <2>2, <2>6, <2>3 DEF TypeInv, TypeOK
  <2>5. Len(log') <= PropertyLimit /\ (pc' # "stopped" => frameNumber' < MaxFrames)
    BY <2>2, FaultAssumption DEF TypeInv, WithinLimits
  <2> QED
    BY <2>4, <2>5 DEF TypeInv, WithinLimits
<1>3. CASE DrainFail
  BY <1>3 DEF DrainFail, observers, TypeInv, TypeOK, WithinLimits, Faults
<1>4. CASE FinishFrame
  <2>1. /\ frameNumber' \in 0..MaxFrames
        /\ pc' \in {"poll", "frame", "stopped"}
        /\ pc' # "stopped" => frameNumber' < MaxFrames
    BY <1>4 DEF FinishFrame, TypeInv, TypeOK, WithinLimits
  <2>2. /\ UNCHANGED <<log, unrecorded, faultFrame, recorded, forwarded, polls, overflows, events>>
        /\ occurred' = occurred /\ Faults' = Faults
    BY <1>4 DEF FinishFrame, observers, Faults
  <2>3. TypeOK'
    BY <2>1, <2>2 DEF TypeInv, TypeOK
  <2> QED
    BY <2>1, <2>2, <2>3 DEF TypeInv, WithinLimits
<1>5. CASE AbortFrame
  BY <1>5 DEF AbortFrame, observers, TypeInv, TypeOK, WithinLimits, Faults
<1>6. CASE UNCHANGED vars
  BY <1>6 DEF vars, TypeInv, TypeOK, WithinLimits, Faults
<1> QED
  BY <1>1, <1>2, <1>3, <1>4, <1>5, <1>6 DEF Next, Terminated

\* At the start nothing has happened.
LEMMA InitType == Init => TypeInv
<1> SUFFICES ASSUME Init PROVE TypeInv
  OBVIOUS
<1>1. /\ log = <<>> /\ occurred = <<>> /\ forwarded = <<>> /\ events = <<>>
      /\ \A S : <<>> \in Seq(S) /\ Len(<<>>) = 0
  BY EmptySeq DEF Init
<1>2. WithinLimits
  BY <1>1, FaultAssumption DEF Init, WithinLimits
<1>3. TypeOK
  <2>1. /\ log \in Seq(Faults) /\ forwarded \in Seq(Faults) /\ events \in Seq(Nat)
        /\ occurred \in Seq([critical : BOOLEAN, frame : Nat])
    BY <1>1
  <2>2. /\ pc = "poll" /\ frameNumber \in 0..MaxFrames /\ unrecorded = FALSE
        /\ faultFrame = 0 /\ recorded = {}
        /\ polls \in Seq(Nat) /\ overflows \subseteq DOMAIN polls
    BY <1>1, FaultAssumption DEF Init
  <2> QED
    BY <2>1, <2>2 DEF TypeOK
<1> QED
  BY <1>2, <1>3 DEF TypeInv

\* The types and the limits in every state.
LEMMA Typed == Spec => []TypeInv
BY InitType, StepType, PTL DEF Spec

\* Every variable keeps its type: no poll forwards a fault that never occurred,
\* and the frame counter never passes kMaxFrames.
THEOREM TypeCorrect == Spec => []TypeOK
<1>1. TypeInv => TypeOK
  BY DEF TypeInv
<1> QED
  BY <1>1, Typed, PTL
-----------------------------------------------------------------------------
\* Of two faults known to the program or the driver the earlier in line is the
\* one detected earlier: among those forwarded, among those in the log, and
\* everything forwarded before everything still in the log.
InLine ==
  /\ ReportedOnceInOrder
  /\ \A j, k \in DOMAIN log : j < k => log[j] < log[k]
  /\ \A j \in DOMAIN forwarded, k \in DOMAIN log : forwarded[j] < log[k]

\* A new fault comes after all the others, and a poll moves the front of the
\* log behind what was forwarded and clears the rest.
LEMMA StepInLine == TypeInv /\ InLine /\ [Next]_vars => InLine'
<1> SUFFICES ASSUME TypeInv, InLine, [Next]_vars PROVE InLine'
  OBVIOUS
<1>0. /\ log \in Seq(Faults) /\ DOMAIN log = 1..Len(log) /\ Len(log) \in Nat
      /\ forwarded \in Seq(Faults) /\ DOMAIN forwarded = 1..Len(forwarded)
      /\ Len(forwarded) \in Nat
      /\ Len(occurred) \in Nat /\ Faults \subseteq Nat
      /\ \A k \in DOMAIN log : log[k] \in 1..Len(occurred)
      /\ \A k \in DOMAIN forwarded : forwarded[k] \in 1..Len(occurred)
  <2>1. /\ log \in Seq(Faults) /\ forwarded \in Seq(Faults)
        /\ occurred \in Seq([critical : BOOLEAN, frame : Nat])
    BY DEF TypeInv, TypeOK
  <2> QED
    BY <2>1, LenProperties, ElementOfSeq DEF Faults
<1>1. CASE FaultOccurs
  <2>1. forwarded' = forwarded
    BY <1>1 DEF FaultOccurs
  <2>2. CASE Len(log) < PropertyLimit
    <3>1. log' = Append(log, Len(occurred) + 1)
      BY <1>1, <2>2 DEF FaultOccurs
    <3>2. log \in Seq(Nat) /\ Len(occurred) + 1 \in Nat
      BY <1>0, SeqMonotonic
    <3>3. /\ DOMAIN log' = 1..(Len(log) + 1)
          /\ \A k \in 1..Len(log) : log'[k] = log[k]
          /\ log'[Len(log) + 1] = Len(occurred) + 1
      BY <3>1, <3>2, AppendProperties, LenProperties
    <3>4. \A j, k \in DOMAIN log' : j < k => log'[j] < log'[k]
      <4> SUFFICES ASSUME NEW j \in DOMAIN log', NEW k \in DOMAIN log', j < k
                   PROVE  log'[j] < log'[k]
        OBVIOUS
      <4>1. j \in 1..Len(log) /\ log'[j] = log[j] /\ log[j] \in 1..Len(occurred)
        BY <1>0, <3>3
      <4>2. CASE k \in 1..Len(log)
        BY <1>0, <3>3, <4>1, <4>2 DEF InLine
      <4>3. CASE k = Len(log) + 1
        BY <1>0, <3>3, <4>1, <4>3
      <4> QED
        BY <1>0, <3>3, <4>2, <4>3
    <3>5. \A j \in DOMAIN forwarded, k \in DOMAIN log' : forwarded[j] < log'[k]
      <4> SUFFICES ASSUME NEW j \in DOMAIN forwarded, NEW k \in DOMAIN log'
                   PROVE  forwarded[j] < log'[k]
        OBVIOUS
      <4>1. CASE k \in 1..Len(log)
        BY <1>0, <3>3, <4>1 DEF InLine
      <4>2. CASE k = Len(log) + 1
        BY <1>0, <3>3, <4>2
      <4> QED
        BY <1>0, <3>3, <4>1, <4>2
    <3> QED
      BY <2>1, <3>4, <3>5 DEF InLine, ReportedOnceInOrder
  <2>3. CASE ~(Len(log) < PropertyLimit)
    BY <1>1, <2>1, <2>3 DEF FaultOccurs, InLine, ReportedOnceInOrder
  <2> QED
    BY <2>2, <2>3
<1>2. CASE Drain
  <2>1. forwarded' = forwarded \o Fetched /\ log' = <<>>
    BY <1>2 DEF Drain
  <2>2. /\ Fetched \in Seq(Faults) /\ Len(Fetched) \in Nat /\ Len(Fetched) <= Len(log)
        /\ \A k \in 1..Len(Fetched) : Fetched[k] = log[k]
    BY FetchedIsFront
  <2>3. /\ DOMAIN forwarded' = 1..(Len(forwarded) + Len(Fetched))
        /\ \A k \in 1..Len(forwarded) : forwarded'[k] = forwarded[k]
        /\ \A k \in 1..Len(Fetched) : forwarded'[Len(forwarded) + k] = log[k]
    BY <1>0, <2>1, <2>2, ConcatAt
  <2>4. ASSUME NEW k \in DOMAIN forwarded', k \notin 1..Len(forwarded)
        PROVE  /\ k - Len(forwarded) \in DOMAIN log
               /\ forwarded'[k] = log[k - Len(forwarded)]
    <3>1. k - Len(forwarded) \in 1..Len(Fetched) /\ Len(forwarded) + (k - Len(forwarded)) = k
      BY <1>0, <2>2, <2>3, <2>4
    <3> QED
      BY <1>0, <2>2, <2>3, <3>1
  <2>5. ASSUME NEW j \in DOMAIN forwarded', NEW k \in DOMAIN forwarded', j < k
        PROVE  forwarded'[j] < forwarded'[k]
    <3>1. CASE k \in 1..Len(forwarded)
      <4>1. j \in 1..Len(forwarded)
        BY <1>0, <2>2, <2>3, <2>5, <3>1
      <4> QED
        BY <1>0, <2>3, <2>5, <3>1, <4>1 DEF InLine, ReportedOnceInOrder
    <3>2. CASE k \notin 1..Len(forwarded) /\ j \in 1..Len(forwarded)
      BY <1>0, <2>3, <2>4, <3>2 DEF InLine
    <3>3. CASE k \notin 1..Len(forwarded) /\ j \notin 1..Len(forwarded)
      <4>1. j - Len(forwarded) < k - Len(forwarded)
        BY <1>0, <2>2, <2>3, <2>5
      <4>2. /\ j - Len(forwarded) \in DOMAIN log /\ k - Len(forwarded) \in DOMAIN log
            /\ forwarded'[j] = log[j - Len(forwarded)]
            /\ forwarded'[k] = log[k - Len(forwarded)]
        BY <2>4, <3>3
      <4> QED
        BY <4>1, <4>2 DEF InLine
    <3> QED
      BY <3>1, <3>2, <3>3
  <2>6. DOMAIN log' = {}
    BY <2>1
  <2> QED
    BY <2>5, <2>6 DEF InLine, ReportedOnceInOrder
<1>3. CASE log' = log /\ forwarded' = forwarded
  BY <1>3 DEF InLine, ReportedOnceInOrder
<1> QED
  BY <1>1, <1>2, <1>3
     DEF Next, DrainFail, FinishFrame, AbortFrame, Terminated, vars, observers

\* InLine in every state.
LEMMA AlwaysInLine == Spec => []InLine
<1>1. Init => InLine
  BY DEF Init, InLine, ReportedOnceInOrder
<1> QED
  BY <1>1, StepInLine, Typed, PTL DEF Spec

\* OnFault is called at most once for a fault, and in the order the driver
\* detected them, however many polls fail or find the array too small.
THEOREM ReportedInOrder == Spec => []ReportedOnceInOrder
<1>1. InLine => ReportedOnceInOrder
  BY DEF InLine
<1> QED
  BY <1>1, AlwaysInLine, PTL
-----------------------------------------------------------------------------
\* One event for each critical fault forwarded and each overflow signalled: a
\* fault more changes nothing of those before it, and a poll adds as many
\* events as it forwards critical faults and signals overflows.
THEOREM CriticalFaultsEscalate == Spec => []CriticalEscalates
<1>1. Init => CriticalEscalates
  <2> SUFFICES ASSUME Init PROVE CriticalEscalates
    OBVIOUS
  <2>1. CriticalIn(forwarded) = {} /\ Len(events) = 0 /\ overflows = {}
    BY DEF Init, CriticalIn
  <2> QED
    BY <2>1, FS_EmptySet DEF CriticalEscalates
<1>2. TypeInv /\ CriticalEscalates /\ [Next]_vars => CriticalEscalates'
  <2> SUFFICES ASSUME TypeInv, CriticalEscalates, [Next]_vars PROVE CriticalEscalates'
    OBVIOUS
  <2>0. /\ forwarded \in Seq(Faults) /\ events \in Seq(Nat) /\ Len(events) \in Nat
        /\ \A k \in DOMAIN forwarded : forwarded[k] \in Faults
        /\ IsFiniteSet(overflows) /\ Cardinality(overflows) \in Nat
    <3>1. /\ forwarded \in Seq(Faults) /\ events \in Seq(Nat)
          /\ polls \in Seq(Nat) /\ overflows \subseteq DOMAIN polls
      BY DEF TypeInv, TypeOK
    <3>2. Len(polls) \in Nat /\ overflows \in SUBSET (1..Len(polls))
      BY <3>1, LenProperties
    <3>3. IsFiniteSet(overflows)
      <4>1. IsFiniteSet(1..Len(polls))
        BY <3>2, FS_Interval
      <4> QED
        BY <3>2, <4>1, FS_Subset
    <3> QED
      BY <3>1, <3>3, LenProperties, ElementOfSeq, FS_CardinalityType
  <2>1. CASE FaultOccurs
    <3>1. forwarded' = forwarded /\ events' = events /\ overflows' = overflows
      BY <2>1 DEF FaultOccurs
    <3>2. \A k \in DOMAIN forwarded : occurred'[forwarded[k]] = occurred[forwarded[k]]
      BY <2>0, <2>1, OneFaultMore
    <3>3. CriticalIn(forwarded)' = CriticalIn(forwarded)
      BY <3>1, <3>2 DEF CriticalIn
    <3> QED
      BY <3>1, <3>3 DEF CriticalEscalates
  <2>2. CASE Drain
    <3> DEFINE C == {f \in Faults : occurred[f].critical}
    <3>1. /\ forwarded' = forwarded \o Fetched /\ events' = events \o NewEvents
          /\ occurred' = occurred
      BY <2>2 DEF Drain
    <3>2. Fetched \in Seq(Faults) /\ NewEvents \in Seq(Nat)
      BY FetchedIsFront, EventsOfPoll
    <3>3. \A s \in Seq(Faults) : CriticalIn(s) = Marked(s, C)
      <4> SUFFICES ASSUME NEW s \in Seq(Faults) PROVE CriticalIn(s) = Marked(s, C)
        OBVIOUS
      <4>1. \A k \in DOMAIN s : s[k] \in Faults
        BY LenProperties, ElementOfSeq
      <4> QED
        BY <4>1 DEF CriticalIn, Marked
    <3> HIDE DEF C
    <3>4. forwarded \o Fetched \in Seq(Faults)
      BY <2>0, <3>2, ConcatAt
    <3>5. CriticalIn(forwarded)' = Marked(forwarded \o Fetched, C)
      <4>1. CriticalIn(forwarded)' = CriticalIn(forwarded \o Fetched)
        BY <3>1 DEF CriticalIn
      <4> QED
        BY <3>3, <3>4, <4>1
    <3>6. /\ Cardinality(CriticalIn(forwarded)) \in Nat
          /\ Cardinality(CriticalIn(Fetched)) \in Nat
          /\ Cardinality(CriticalIn(forwarded)')
               = Cardinality(CriticalIn(forwarded)) + Cardinality(CriticalIn(Fetched))
      BY <2>0, <3>2, <3>3, <3>5, MarkedInConcat
    <3>7. Len(events') = Len(events) + Len(NewEvents)
      BY <2>0, <3>1, <3>2, ConcatProperties
    <3>8. Len(NewEvents)
            = Cardinality(CriticalIn(Fetched)) + (IF unrecorded THEN 1 ELSE 0)
      BY EventsOfPoll
    <3>9. Len(events) = Cardinality(CriticalIn(forwarded)) + Cardinality(overflows)
      BY DEF CriticalEscalates
    <3>10. Cardinality(overflows') = Cardinality(overflows) + (IF unrecorded THEN 1 ELSE 0)
      <4>1. /\ overflows' = overflows \cup (IF unrecorded THEN {Len(polls) + 1} ELSE {})
            /\ Len(polls) \in Nat /\ Len(polls) + 1 \notin overflows
        BY <2>2, OnePollMore
      <4>2. CASE unrecorded
        BY <2>0, <4>1, <4>2, FS_AddElement
      <4>3. CASE ~unrecorded
        BY <2>0, <4>1, <4>3
      <4> QED
        BY <4>2, <4>3
    <3>11. Len(events') = Cardinality(CriticalIn(forwarded)') + Cardinality(overflows')
      BY <2>0, <3>6, <3>7, <3>8, <3>9, <3>10
    <3> QED
      BY <3>11 DEF CriticalEscalates
  <2>3. CASE UNCHANGED observers
    BY <2>3 DEF observers, CriticalEscalates, CriticalIn
  <2> QED
    BY <2>1, <2>2, <2>3
       DEF Next, DrainFail, FinishFrame, AbortFrame, Terminated, vars, observers
<1> QED
  BY <1>1, <1>2, Typed, PTL DEF Spec
-----------------------------------------------------------------------------
\* The fetch array takes all that the driver's log can hold.
ArrayFits == MaxQueryFaultCount <= MaxFaultEntries

\* The faults up to the last successful poll.
Read == IF polls = <<>> THEN 0 ELSE polls[Len(polls)]

\* The last successful poll parts the faults: those forwarded occurred before
\* it, those in the log after it, and of the latter some was not recorded
\* exactly if the driver's flag says so.
PollInv ==
  /\ Read \in 0..Len(occurred)
  /\ \A k \in DOMAIN polls : polls[k] <= Read
  /\ Range(forwarded) \subseteq 1..Read
  /\ Range(log) \subseteq (Read + 1)..Len(occurred)
  /\ unrecorded <=> ((Read + 1)..Len(occurred)) \ Range(log) # {}

\* If the array fits, every fault recorded has been forwarded or waits in the
\* log, and every poll has signalled its losses.
Heard == ArrayFits => EveryRecordForwarded /\ PollInv /\ LossIsSignalled

\* A poll that reads the whole log forwards the whole log.
LEMMA DrainForwardsLog ==
  ASSUME TypeInv, Drain, ArrayFits
  PROVE  /\ Range(forwarded') = Range(forwarded) \cup Range(log)
         /\ Range(log') = {} /\ unrecorded' = FALSE
         /\ recorded' = recorded /\ occurred' = occurred
<1>1. /\ forwarded' = forwarded \o Fetched /\ log' = <<>> /\ unrecorded' = FALSE
      /\ recorded' = recorded /\ occurred' = occurred
  BY DEF Drain
<1>2. forwarded \in Seq(Faults) /\ log \in Seq(Faults)
  BY DEF TypeInv, TypeOK
<1>3. Fetched = log
  BY FetchedIsFront DEF ArrayFits
<1>4. Range(forwarded') = Range(forwarded) \cup Range(log)
  BY <1>1, <1>2, <1>3, RangeOfConcat
<1>5. Range(log') = {}
  BY <1>1 DEF Range
<1> QED
  BY <1>1, <1>4, <1>5

\* The driver records a fault or raises the flag.
LEMMA FaultHeard ==
  ASSUME TypeInv, EveryRecordForwarded, PollInv, LossIsSignalled, FaultOccurs
  PROVE  EveryRecordForwarded' /\ PollInv' /\ LossIsSignalled'
<1>1. /\ forwarded' = forwarded /\ polls' = polls /\ overflows' = overflows
      /\ Len(occurred) \in Nat /\ Len(occurred') = Len(occurred) + 1
      /\ Faults' = Faults \cup {Len(occurred) + 1}
  BY OneFaultMore DEF FaultOccurs
<1>2. Read' = Read /\ Range(forwarded') = Range(forwarded) /\ Read \in 0..Len(occurred)
  BY <1>1 DEF Read, PollInv
<1>3. LossIsSignalled'
  BY <1>1 DEF LossIsSignalled, Since
<1>4. (Read + 1)..Len(occurred') = ((Read + 1)..Len(occurred)) \cup {Len(occurred) + 1}
  BY <1>1, <1>2
<1>5. CASE Len(log) < PropertyLimit
  <2>1. /\ log' = Append(log, Len(occurred) + 1) /\ unrecorded' = unrecorded
        /\ recorded' = recorded \cup {Len(occurred) + 1}
    BY <1>5 DEF FaultOccurs
  <2>2. Faults \subseteq Faults' /\ Len(occurred) + 1 \in Faults' /\ log \in Seq(Faults)
    BY <1>1 DEF TypeInv, TypeOK
  <2>3. log \in Seq(Faults')
    BY <2>2, SeqMonotonic
  <2>4. Range(log') = Range(log) \cup {Len(occurred) + 1}
    BY <2>1, <2>2, <2>3, RangeOfAppend
  <2>5. EveryRecordForwarded'
    BY <1>2, <2>1, <2>4 DEF EveryRecordForwarded
  <2>6. ((Read + 1)..Len(occurred')) \ Range(log') = ((Read + 1)..Len(occurred)) \ Range(log)
    <3>1. Len(occurred) + 1 \notin (Read + 1)..Len(occurred)
      BY <1>1
    <3> QED
      BY <1>4, <2>4, <3>1
  <2>7. PollInv'
    BY <1>1, <1>2, <1>4, <2>1, <2>4, <2>6 DEF PollInv
  <2> QED
    BY <1>3, <2>5, <2>7
<1>6. CASE ~(Len(log) < PropertyLimit)
  <2>1. unrecorded' = TRUE /\ log' = log /\ recorded' = recorded
    BY <1>6 DEF FaultOccurs
  <2>2. Range(log') = Range(log) /\ Len(occurred) + 1 \notin Range(log)
    BY <1>1, <2>1 DEF PollInv
  <2>3. EveryRecordForwarded'
    BY <1>2, <2>1, <2>2 DEF EveryRecordForwarded
  <2>4. PollInv'
    BY <1>1, <1>2, <1>4, <2>1, <2>2 DEF PollInv
  <2> QED
    BY <1>3, <2>3, <2>4
<1> QED
  BY <1>5, <1>6

\* A poll moves what is in the log to the sink and the flag to a signal, and
\* leaves what earlier polls said true: it forwards only later faults.
LEMMA DrainHeard ==
  ASSUME TypeInv, ArrayFits, EveryRecordForwarded, PollInv, LossIsSignalled, Drain
  PROVE  EveryRecordForwarded' /\ PollInv' /\ LossIsSignalled'
<1>1. /\ Range(forwarded') = Range(forwarded) \cup Range(log)
      /\ Range(log') = {} /\ unrecorded' = FALSE
      /\ recorded' = recorded /\ occurred' = occurred
  BY DrainForwardsLog
<1>2. /\ Len(polls) \in Nat /\ DOMAIN polls = 1..Len(polls)
      /\ DOMAIN polls' = 1..(Len(polls) + 1)
      /\ \A k \in 1..Len(polls) : polls'[k] = polls[k]
      /\ polls'[Len(polls) + 1] = Len(occurred)
      /\ overflows' = overflows \cup (IF unrecorded THEN {Len(polls) + 1} ELSE {})
      /\ overflows \subseteq 1..Len(polls) /\ polls' \in Seq(Nat)
  BY OnePollMore
<1>3. Len(occurred) \in Nat /\ Read \in 0..Len(occurred) /\ polls \in Seq(Nat)
  BY LenProperties DEF TypeInv, TypeOK, PollInv
<1>4. \A k \in 1..Len(polls) : polls[k] \in Nat
  BY <1>3, ElementOfSeq
<1>5. Read' = Len(occurred)
  <2>1. Len(polls') = Len(polls) + 1 /\ polls' # <<>>
    BY <1>2, LenProperties
  <2> QED
    BY <1>2, <2>1 DEF Read
<1>6. EveryRecordForwarded'
  BY <1>1 DEF EveryRecordForwarded
<1>7. PollInv'
  <2>1. ((Len(occurred) + 1)..Len(occurred)) = {}
    BY <1>3
  <2>2. \A k \in DOMAIN polls' : polls'[k] <= Len(occurred)
    BY <1>2, <1>3, <1>4 DEF PollInv
  <2>3. Range(forwarded') \subseteq 1..Len(occurred)
    BY <1>1, <1>3 DEF PollInv
  <2> QED
    BY <1>1, <1>3, <1>5, <2>1, <2>2, <2>3 DEF PollInv
<1>8. ASSUME NEW k \in 1..Len(polls)
      PROVE  k \in overflows' <=> Since(k)' \ Range(forwarded') # {}
  <2>1. Since(k)' = Since(k)
    BY <1>2 DEF Since
  <2>2. Since(k) \subseteq Int /\ \A f \in Since(k) : f <= Read
    <3>1. \A f \in Since(k) : f \in Int /\ f <= polls[k]
      <4>1. IF k = 1 THEN TRUE ELSE k - 1 \in 1..Len(polls)
        BY <1>2
      <4> QED
        BY <1>4, <4>1 DEF Since
    <3>2. polls[k] <= Read /\ polls[k] \in Nat /\ Read \in Nat
      <4>1. k \in DOMAIN polls
        BY <1>2
      <4>2. polls[k] <= Read
        BY <4>1 DEF PollInv
      <4>3. polls[k] \in Nat
        BY <1>4
      <4>4. Read \in Nat
        BY <1>3
      <4> QED
        BY <4>2, <4>3, <4>4
    <3> QED
      BY <3>1, <3>2
  <2>3. Since(k) \cap Range(log) = {}
    BY <1>3, <2>2 DEF PollInv
  <2>4. k \in overflows' <=> k \in overflows
    BY <1>2
  <2> QED
    BY <1>1, <1>2, <2>1, <2>3, <2>4 DEF LossIsSignalled
<1>9. ASSUME NEW k \in Nat, k = Len(polls) + 1
      PROVE  k \in overflows' <=> Since(k)' \ Range(forwarded') # {}
  <2>1. Since(k)' = (Read + 1)..Len(occurred)
    <3>1. CASE k = 1
      <4>1. polls = <<>>
        BY <1>2, <1>3, <1>9, <3>1, EmptySeq
      <4>2. Since(k)' = (0 + 1)..polls'[k]
        BY <3>1 DEF Since
      <4> QED
        BY <1>2, <1>9, <4>1, <4>2 DEF Read
    <3>2. CASE k # 1
      <4>1. polls # <<>> /\ Len(polls) \in 1..Len(polls) /\ k - 1 = Len(polls)
        BY <1>2, <1>9, <3>2
      <4>2. Since(k)' = (polls'[k-1] + 1)..polls'[k]
        BY <3>2 DEF Since
      <4> QED
        BY <1>2, <1>9, <4>1, <4>2 DEF Read
    <3> QED
      BY <3>1, <3>2
  <2>2. ((Read + 1)..Len(occurred)) \cap Range(forwarded) = {}
    BY <1>3 DEF PollInv
  <2>3. k \in overflows' <=> unrecorded
    BY <1>2, <1>9
  <2> QED
    BY <1>1, <2>1, <2>2, <2>3 DEF PollInv
<1>10. LossIsSignalled'
  <2>1. \A k \in DOMAIN polls' : k \in 1..Len(polls) \/ (k \in Nat /\ k = Len(polls) + 1)
    BY <1>2
  <2> QED
    BY <1>8, <1>9, <2>1 DEF LossIsSignalled
<1> QED
  BY <1>6, <1>7, <1>10

\* Every step keeps it.
LEMMA StepHeard == TypeInv /\ Heard /\ [Next]_vars => Heard'
<1> SUFFICES ASSUME TypeInv, Heard, [Next]_vars, ArrayFits
             PROVE  EveryRecordForwarded' /\ PollInv' /\ LossIsSignalled'
  BY DEF Heard, ArrayFits, MaxQueryFaultCount
<1>0. EveryRecordForwarded /\ PollInv /\ LossIsSignalled
  BY DEF Heard
<1>1. CASE FaultOccurs
  BY <1>0, <1>1, FaultHeard
<1>2. CASE Drain
  BY <1>0, <1>2, DrainHeard
<1>3. CASE UNCHANGED <<log, unrecorded, observers>>
  BY <1>0, <1>3 DEF observers, EveryRecordForwarded, PollInv, Read, LossIsSignalled, Since
<1> QED
  BY <1>1, <1>2, <1>3
     DEF Next, DrainFail, FinishFrame, AbortFrame, Terminated, vars, observers

\* Heard in every state.
LEMMA AlwaysHeard == Spec => []Heard
<1>1. Init => Heard
  <2> SUFFICES ASSUME Init PROVE EveryRecordForwarded /\ PollInv /\ LossIsSignalled
    BY DEF Heard
  <2>1. /\ occurred = <<>> /\ log = <<>> /\ forwarded = <<>> /\ polls = <<>>
        /\ recorded = {} /\ unrecorded = FALSE
    BY DEF Init
  <2>2. Len(occurred) = 0 /\ Range(log) = {} /\ Range(forwarded) = {} /\ Read = 0 /\ DOMAIN polls = {}
    BY <2>1 DEF Range, Read
  <2> QED
    BY <2>1, <2>2 DEF EveryRecordForwarded, PollInv, LossIsSignalled
<1> QED
  BY <1>1, StepHeard, Typed, PTL DEF Spec

\* What the documentation says of the drain, "forwards every recorded fault",
\* is true of every driver whose log the array can take.
THEOREM EveryRecordIsForwarded == ArrayFits /\ Spec => []EveryRecordForwarded
<1> SUFFICES ASSUME ArrayFits PROVE Spec => []EveryRecordForwarded
  OBVIOUS
<1>1. Heard => EveryRecordForwarded
  BY DEF Heard
<1> QED
  BY <1>1, AlwaysHeard, PTL

\* On such a driver no loss goes without a signal, and no signal without a loss:
\* each successful poll calls OnUnrecordedFaults exactly if some fault since the
\* last successful one is never forwarded, whatever was signalled before.
THEOREM LossesAreSignalled == ArrayFits /\ Spec => []LossIsSignalled
<1> SUFFICES ASSUME ArrayFits PROVE Spec => []LossIsSignalled
  OBVIOUS
<1>1. Heard => LossIsSignalled
  BY DEF Heard
<1> QED
  BY <1>1, AlwaysHeard, PTL

\* A poll that succeeds leaves no recorded fault behind that the sink has not
\* heard of, whatever happened since the last one.
THEOREM LatencyIsOneFrame == Spec => LatencyOneFrame
<1> DEFINE Kept == Drain /\ MaxQueryFaultCount <= MaxFaultEntries =>
                     recorded' \subseteq Range(forwarded')
<1>1. TypeInv /\ Heard /\ [Next]_vars => [Kept]_vars
  <2> SUFFICES ASSUME TypeInv, Heard, Drain, ArrayFits
               PROVE  recorded' \subseteq Range(forwarded')
    BY DEF ArrayFits
  <2>1. recorded \subseteq Range(forwarded) \cup Range(log)
    BY DEF Heard, EveryRecordForwarded
  <2> QED
    BY <2>1, DrainForwardsLog
<1> HIDE DEF Kept
<1>2. Spec => [][Kept]_vars
  BY <1>1, Typed, AlwaysHeard, PTL DEF Spec
<1> QED
  BY <1>2 DEF LatencyOneFrame, Kept
==============================================================================
