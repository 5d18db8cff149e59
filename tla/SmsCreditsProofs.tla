-------------------------- MODULE SmsCreditsProofs --------------------------
(***************************************************************************)
(* The quota's books balance, for every set of messages and every limit.    *)
(***************************************************************************)
EXTENDS SmsCredits, FiniteSetTheorems, TLAPS

\* Disjoint finite sets add up.
LEMMA CardinalityOfUnion ==
    ASSUME NEW S, NEW T, IsFiniteSet(S), IsFiniteSet(T), S \cap T = {}
    PROVE  Cardinality(S \cup T) = Cardinality(S) + Cardinality(T)
<1>1. Cardinality(S) \in Nat /\ Cardinality(T) \in Nat
    BY FS_CardinalityType
<1>2. Cardinality(S \cup T) = Cardinality(S) + Cardinality(T) - Cardinality({})
    BY FS_Union
<1> QED
    BY <1>1, <1>2, FS_EmptySet

\* A part taken out of a finite set is subtracted.
LEMMA CardinalityOfRest ==
    ASSUME NEW S, NEW T, IsFiniteSet(S), T \subseteq S
    PROVE  Cardinality(S \ T) = Cardinality(S) - Cardinality(T)
<1>1. IsFiniteSet(T) /\ IsFiniteSet(S \ T)
    BY FS_Subset
<1>2. Cardinality(T) \in Nat /\ Cardinality(S \ T) \in Nat
    BY <1>1, FS_CardinalityType
<1>3. (S \ T) \cup T = S /\ (S \ T) \cap T = {}
    OBVIOUS
<1>4. Cardinality(S) = Cardinality(S \ T) + Cardinality(T)
    BY <1>1, <1>3, CardinalityOfUnion
<1> QED
    BY <1>2, <1>4

\* What holds in every state: types, the books, and the limit
Sound == TypeOK /\ Balanced /\ WithinLimit

\* They hold initially,
LEMMA SoundInit == ASSUME SmsLimit \in Nat PROVE Init => Sound
<1> SUFFICES ASSUME Init PROVE Sound
    OBVIOUS
<1>1. TypeOK
    BY DEF Init, TypeOK, Credit
<1>2. Charged = {}
    BY DEF Init, Charged
<1> QED
    BY <1>1, <1>2, FS_EmptySet DEF Init, Sound, Balanced, WithinLimit

\* and every step keeps them.
LEMMA SoundNext ==
    ASSUME SmsLimit \in Nat, IsFiniteSet(Messages), Sound, [Next]_vars
    PROVE  Sound'
<1>0. /\ TypeOK /\ Balanced /\ WithinLimit
      /\ IsFiniteSet(Charged) /\ Cardinality(Charged) \in Nat
    <2>1. Charged \in SUBSET Messages
        BY DEF Charged
    <2>2. IsFiniteSet(Charged)
        BY <2>1, FS_Subset
    <2> QED
        BY <2>2, FS_CardinalityType DEF Sound
<1>1. ASSUME NEW batch \in SUBSET Messages
      PROVE  IsFiniteSet(batch) /\ Cardinality(batch) \in Nat
    BY FS_Subset, FS_CardinalityType
<1>2. ASSUME NEW batch \in SUBSET Messages, Reserve(batch)
      PROVE  Sound'
    <2>1. TypeOK'
        BY <1>0, <1>1, <1>2 DEF Reserve, Move, TypeOK, Credit, In
    <2>2. Charged' = Charged \cup batch /\ Charged \cap batch = {}
        BY <1>0, <1>2 DEF Reserve, Move, Charged, TypeOK, In
    <2>3. Cardinality(Charged') = Cardinality(Charged) + Cardinality(batch)
        BY <1>0, <1>1, <2>2, CardinalityOfUnion
    <2> QED
        BY <1>0, <1>1, <1>2, <2>1, <2>3 DEF Reserve, Sound, Balanced, WithinLimit, TypeOK
<1>3. ASSUME NEW batch \in SUBSET Messages, Hold(batch)
      PROVE  Sound'
    <2>1. TypeOK'
        BY <1>0, <1>3 DEF Hold, Move, TypeOK, Credit
    <2>2. Charged' = Charged
        BY <1>0, <1>3 DEF Hold, Move, Charged, TypeOK, In
    <2> QED
        BY <1>0, <1>3, <2>1, <2>2 DEF Hold, Sound, Balanced, WithinLimit
<1>4. ASSUME NEW batch \in SUBSET Messages, GiveBack(batch)
      PROVE  Sound'
    <2>1. Charged' = Charged \ batch /\ batch \subseteq Charged
        BY <1>0, <1>4 DEF GiveBack, Move, Charged, TypeOK, In
    <2>2. Cardinality(Charged') = Cardinality(Charged) - Cardinality(batch)
        BY <1>0, <2>1, CardinalityOfRest
    <2>3. Cardinality(Charged') \in Nat
        BY <1>0, <2>1, FS_Subset, FS_CardinalityType
    <2>4. used' = Cardinality(Charged') + lost' /\ used' \in Nat /\ used' <= used
        BY <1>0, <1>1, <1>4, <2>2, <2>3 DEF GiveBack, Balanced, TypeOK
    <2>5. TypeOK'
        BY <1>0, <1>4, <2>4 DEF GiveBack, Move, TypeOK, Credit
    <2> QED
        BY <1>0, <2>4, <2>5 DEF Sound, Balanced, WithinLimit, TypeOK
<1>5. ASSUME NEW m \in Messages, Spend(m)
      PROVE  Sound'
    <2>1. TypeOK'
        BY <1>0, <1>5 DEF Spend, TypeOK, Credit
    <2>2. Charged' = Charged
        BY <1>0, <1>5 DEF Spend, Charged, TypeOK
    <2> QED
        BY <1>0, <1>5, <2>1, <2>2 DEF Spend, Sound, Balanced, WithinLimit
<1>6. ASSUME NEW m \in Messages, Refund(m)
      PROVE  Sound'
    <2>1. Charged' = Charged \ {m} /\ m \in Charged
        BY <1>0, <1>6 DEF Refund, Charged, TypeOK
    <2>2. Cardinality(Charged') = Cardinality(Charged) - 1
        BY <1>0, <2>1, FS_RemoveElement
    <2>3. Cardinality(Charged') \in Nat
        BY <1>0, <2>1, FS_RemoveElement, FS_CardinalityType
    <2>4. used' = Cardinality(Charged') + lost' /\ used' \in Nat /\ used' <= used
        BY <1>0, <1>6, <2>2, <2>3 DEF Refund, Balanced, TypeOK
    <2>5. TypeOK'
        BY <1>0, <1>6, <2>4 DEF Refund, TypeOK, Credit
    <2> QED
        BY <1>0, <2>4, <2>5 DEF Sound, Balanced, WithinLimit, TypeOK
<1>7. ASSUME NEW batch \in SUBSET Messages, Lose(batch)
      PROVE  Sound'
    <2>1. Charged' = Charged \ batch /\ batch \subseteq Charged
        BY <1>0, <1>7 DEF Lose, Move, Charged, TypeOK, In
    <2>2. Cardinality(Charged') = Cardinality(Charged) - Cardinality(batch)
        BY <1>0, <2>1, CardinalityOfRest
    <2>3. used' = Cardinality(Charged') + lost' /\ lost' \in Nat /\ used' = used
        BY <1>0, <1>1, <1>7, <2>2 DEF Lose, Balanced, TypeOK
    <2>4. TypeOK'
        BY <1>0, <1>7, <2>3 DEF Lose, Move, TypeOK, Credit
    <2> QED
        BY <1>0, <2>3, <2>4 DEF Sound, Balanced, WithinLimit
<1>8. CASE UNCHANGED vars
    BY <1>0, <1>8 DEF vars, Sound, TypeOK, Balanced, Charged, WithinLimit
<1> QED
    BY <1>2, <1>3, <1>4, <1>5, <1>6, <1>7, <1>8 DEF Next

\* Every credit charged to a user belongs to a request in flight, to a message
\* that was not refunded, or was lost by a crash or a failed release, whatever the
\* number of messages: no release of sms.go takes a credit twice and none is given
\* away.
THEOREM CreditsBalance ==
    ASSUME SmsLimit \in Nat, IsFiniteSet(Messages)
    PROVE  Spec => []Balanced
<1>1. Init => Sound
    BY SoundInit
<1>2. Sound /\ [Next]_vars => Sound'
    BY SoundNext
<1>3. Sound => Balanced
    BY DEF Sound
<1> QED
    BY <1>1, <1>2, <1>3, PTL DEF Spec

\* ReserveSMSQuota keeps the month's counter within the plan's limit.
THEOREM CreditsWithinLimit ==
    ASSUME SmsLimit \in Nat, IsFiniteSet(Messages)
    PROVE  Spec => []WithinLimit
<1>1. Init => Sound
    BY SoundInit
<1>2. Sound /\ [Next]_vars => Sound'
    BY SoundNext
<1>3. Sound => WithinLimit
    BY DEF Sound
<1> QED
    BY <1>1, <1>2, <1>3, PTL DEF Spec
=============================================================================
