--------------------------- MODULE SessionListProofs ---------------------------
(***************************************************************************)
(* Proofs about SessionList, for any number of sessions, any page size and *)
(* any clock.  A session can only be missed by slipping past the offset    *)
(* towards the young end; rows are never deleted and their dates never     *)
(* change, so the number of younger rows only grows.                       *)
(***************************************************************************)
EXTENDS SessionList, FiniteSetTheorems, TLAPS

\* The rows that stand before s on every page.
Younger(s) == {x \in stored : createdAt[x] > createdAt[s]}

\* A session of the start is shown, or still ahead of the client.
Ahead(s) == walking /\ Cardinality(Younger(s)) >= offset
NothingSlipsPast == \A s \in atStart : s \in shown \/ Tied(s) \/ Ahead(s)

IInv == /\ TypeOK
        /\ IsFiniteSet(stored)
        /\ NothingSlipsPast

\* A head of n rows holds n rows, or all there are.
LEMMA HeadsAreBounded ==
    ASSUME NEW S, IsFiniteSet(S), NEW n \in Nat, NEW X \in Heads(S, n)
    PROVE  /\ X \subseteq S /\ IsFiniteSet(X)
           /\ Cardinality(X) \in Nat /\ Cardinality(X) <= n
           /\ Cardinality(X) = n \/ X = S
<1>1. X \in SUBSET S
  BY DEF Heads
<1>2. IsFiniteSet(X) /\ Cardinality(X) \in Nat
  BY <1>1, FS_Subset, FS_CardinalityType
<1> QED
  BY <1>1, <1>2 DEF Heads

\* A page shows s, or is full and leaves s ahead of the next offset.
LEMMA PageStep ==
    ASSUME TypeOK, IsFiniteSet(stored),
           NEW X \in Heads(stored, offset),
           NEW P \in Heads(stored \ X, PageSize),
           NEW s \in stored, ~Tied(s), Cardinality(Younger(s)) >= offset
    PROVE  \/ s \in P
           \/ /\ Cardinality(P) = PageSize
              /\ Cardinality(Younger(s)) >= offset + PageSize
<1>1. /\ IsFiniteSet(Younger(s)) /\ Cardinality(Younger(s)) \in Nat
      /\ IsFiniteSet(stored \ X)
  <2>1. Younger(s) \in SUBSET stored /\ stored \ X \in SUBSET stored
    BY DEF Younger
  <2> QED
    BY <2>1, FS_Subset, FS_CardinalityType
<1>2. /\ X \subseteq stored /\ IsFiniteSet(X) /\ Cardinality(X) \in Nat
      /\ Cardinality(X) <= offset
      /\ Cardinality(X) = offset \/ X = stored
  BY HeadsAreBounded DEF TypeOK
<1>3. /\ P \subseteq stored \ X /\ IsFiniteSet(P) /\ Cardinality(P) \in Nat
      /\ Cardinality(P) = PageSize \/ P = stored \ X
  BY <1>1, HeadsAreBounded, ListAssumption
<1>4. \A x \in stored : createdAt[x] \in Int
  BY ListAssumption DEF TypeOK
<1>5. s \notin X
  <2> SUFFICES ASSUME s \in X PROVE FALSE
    OBVIOUS
  <2>1. Younger(s) \in SUBSET (X \ {s})
    <3>1. \A x \in stored \ X : createdAt[s] >= createdAt[x]
      BY DEF Heads, First
    <3> QED
      BY <1>4, <3>1 DEF Younger
  <2>2. /\ IsFiniteSet(X \ {s})
        /\ Cardinality(X \ {s}) = Cardinality(X) - 1
    BY <1>2, FS_RemoveElement
  <2>3. Cardinality(Younger(s)) <= Cardinality(X \ {s})
    BY <2>1, <2>2, FS_Subset
  <2>4. offset \in Nat
    BY DEF TypeOK
  <2> QED
    BY <1>1, <1>2, <2>2, <2>3, <2>4
<1>6. Cardinality(X) = offset
  BY <1>2, <1>5
<1> SUFFICES ASSUME s \notin P
             PROVE  /\ Cardinality(P) = PageSize
                    /\ Cardinality(Younger(s)) >= offset + PageSize
  OBVIOUS
<1>7. Cardinality(P) = PageSize
  BY <1>3, <1>5
<1>8. X \cup P \in SUBSET Younger(s)
  <2>1. \A x \in X \cup P : createdAt[x] >= createdAt[s]
    BY <1>5 DEF Heads, First
  <2>2. \A x \in X \cup P : x \in stored /\ createdAt[x] # createdAt[s]
    BY <1>2, <1>3, <1>5 DEF Tied
  <2> QED
    BY <1>4, <2>1, <2>2 DEF Younger
<1>9. Cardinality(X \cup P) = offset + PageSize
  <2>1. Cardinality(X \cap P) = 0
    <3>1. X \cap P = {}
      BY <1>3
    <3> QED
      BY <3>1, FS_EmptySet
  <2>2. Cardinality(X \cup P)
          = Cardinality(X) + Cardinality(P) - Cardinality(X \cap P)
    BY <1>2, <1>3, FS_Union
  <2> QED
    BY <1>6, <1>7, <2>1, <2>2, ListAssumption DEF TypeOK
<1>10. Cardinality(X \cup P) <= Cardinality(Younger(s))
  BY <1>1, <1>8, FS_Subset
<1> QED
  BY <1>7, <1>9, <1>10

\* What the other actions do: rows stay, with their dates, and so do ties and
\* the rows that stand before a session.
LEMMA YoungerGrows ==
    ASSUME TypeOK, IsFiniteSet(stored'), NothingSlipsPast,
           stored \subseteq stored',
           \A s \in stored : createdAt'[s] = createdAt[s],
           UNCHANGED walkVars
    PROVE  NothingSlipsPast'
<1> SUFFICES ASSUME NEW s \in atStart, ~Tied(s)', s \notin shown
             PROVE  Ahead(s)'
  BY DEF NothingSlipsPast, walkVars
<1>1. s \in stored
  BY DEF TypeOK
<1>2. ~Tied(s)
  BY <1>1 DEF Tied
<1>3. Ahead(s)
  BY <1>2 DEF NothingSlipsPast
<1>4. Younger(s) \in SUBSET Younger(s)' /\ Younger(s)' \in SUBSET stored'
  BY <1>1 DEF Younger
<1>5. /\ IsFiniteSet(Younger(s)') /\ Cardinality(Younger(s)') \in Nat
      /\ IsFiniteSet(Younger(s)) /\ Cardinality(Younger(s)) \in Nat
      /\ Cardinality(Younger(s)) <= Cardinality(Younger(s)')
  BY <1>4, FS_Subset, FS_CardinalityType
<1> QED
  BY <1>3, <1>5 DEF Ahead, walkVars, TypeOK

\* The inductive invariant, for any sessions, page size and clock.
THEOREM Invariance == Spec => []IInv
<1>1. Init => IInv
  BY FS_EmptySet, ListAssumption DEF Init, IInv, TypeOK, NothingSlipsPast
<1>2. IInv /\ [Next]_vars => IInv'
  <2> SUFFICES ASSUME IInv, [Next]_vars PROVE IInv'
    OBVIOUS
  <2> USE DEF IInv
  <2>1. CASE Tick
    <3>1. TypeOK' /\ IsFiniteSet(stored')
      BY <2>1, ListAssumption DEF Tick, walkVars, TypeOK
    <3> QED
      BY <2>1, <3>1, YoungerGrows DEF Tick
  <2>2. ASSUME NEW s \in SessionId, BeginCreate(s)
        PROVE  IInv'
    <3>1. TypeOK' /\ IsFiniteSet(stored')
      BY <2>2 DEF BeginCreate, walkVars, TypeOK
    <3>2. \A x \in stored : createdAt'[x] = createdAt[x]
      BY <2>2 DEF BeginCreate, TypeOK
    <3> QED
      BY <2>2, <3>1, <3>2, YoungerGrows DEF BeginCreate
  <2>3. ASSUME NEW s \in SessionId, CommitCreate(s)
        PROVE  IInv'
    <3>1. TypeOK'
      BY <2>3 DEF CommitCreate, walkVars, TypeOK
    <3>2. IsFiniteSet(stored')
      BY <2>3, FS_AddElement DEF CommitCreate
    <3> QED
      BY <2>3, <3>1, <3>2, YoungerGrows DEF CommitCreate
  <2>4. ASSUME NEW s \in SessionId, RollBackCreate(s)
        PROVE  IInv'
    <3>1. TypeOK' /\ IsFiniteSet(stored')
      BY <2>4 DEF RollBackCreate, walkVars, TypeOK
    <3> QED
      BY <2>4, <3>1, YoungerGrows DEF RollBackCreate
  <2>5. ASSUME NEW s \in SessionId, Use(s)
        PROVE  IInv'
    <3>1. TypeOK' /\ IsFiniteSet(stored')
      BY <2>5 DEF Use, walkVars, TypeOK
    <3> QED
      BY <2>5, <3>1, YoungerGrows DEF Use
  <2>6. CASE ReadPage
    <3>1. PICK X \in Heads(stored, offset) :
             \E page \in Heads(stored \ X, PageSize) :
                /\ shown' = shown \cup page
                /\ walking' = (Cardinality(page) = PageSize)
      BY <2>6 DEF ReadPage
    <3>2. PICK P \in Heads(stored \ X, PageSize) :
                /\ shown' = shown \cup P
                /\ walking' = (Cardinality(P) = PageSize)
      BY <3>1
    <3>3. /\ walking /\ UNCHANGED tableVars /\ offset' = offset + PageSize
          /\ atStart' = IF offset = 0 THEN stored ELSE atStart
      BY <2>6 DEF ReadPage
    <3>4. TypeOK' /\ IsFiniteSet(stored')
      <4>1. P \subseteq stored
        BY DEF Heads
      <4>2. (Cardinality(P) = PageSize) \in BOOLEAN
        OBVIOUS
      <4> QED
        BY <3>2, <3>3, <4>1, <4>2, ListAssumption DEF tableVars, TypeOK
    <3>5. ASSUME NEW s \in atStart', ~Tied(s)', s \notin shown'
          PROVE  Ahead(s)'
      <4>1. s \in stored /\ ~Tied(s) /\ s \notin shown /\ s \notin P
        BY <3>2, <3>3, <3>5 DEF TypeOK, Tied, tableVars
      <4>2. Cardinality(Younger(s)) >= offset
        <5>1. CASE offset = 0
          <6>1. Younger(s) \in SUBSET stored
            BY DEF Younger
          <6> QED
            BY <5>1, <6>1, FS_Subset, FS_CardinalityType
        <5>2. CASE offset # 0
          BY <3>3, <4>1, <5>2 DEF NothingSlipsPast, Ahead
        <5> QED
          BY <5>1, <5>2
      <4>3. /\ Cardinality(P) = PageSize
            /\ Cardinality(Younger(s)) >= offset + PageSize
        BY <4>1, <4>2, PageStep
      <4>4. Younger(s)' = Younger(s)
        BY <3>3 DEF Younger, tableVars
      <4> QED
        BY <3>2, <3>3, <4>3, <4>4 DEF Ahead
    <3> QED
      BY <3>4, <3>5 DEF NothingSlipsPast
  <2>7. CASE UNCHANGED vars
    <3>1. TypeOK' /\ IsFiniteSet(stored')
      BY <2>7 DEF vars, tableVars, walkVars, TypeOK
    <3> QED
      BY <2>7, <3>1, YoungerGrows DEF vars, tableVars
  <2> QED
    BY <2>1, <2>2, <2>3, <2>4, <2>5, <2>6, <2>7 DEF Next
<1> QED
  BY <1>1, <1>2, PTL DEF Spec

\* A client that reads the list to its end has seen every session that was
\* there when it began and shares its date with no other (chat_repo.py,
\* list_sessions), however many are created and used meanwhile.
THEOREM WalksMissNothing == Spec => []WalkMissesNothing
<1>1. IInv => WalkMissesNothing
  BY DEF IInv, NothingSlipsPast, Ahead, WalkMissesNothing
<1> QED
  BY <1>1, Invariance, PTL
=============================================================================
