----------------------- MODULE RecalculationJobsProofs -----------------------
(***************************************************************************)
(* Proofs about RecalculationJobs, for any jobs, page sizes and number of  *)
(* overlapping invocations, and whatever fails: its types, that a job is   *)
(* given up only after enough failures of its own, and that a completed    *)
(* job has done all of its work.                                           *)
(***************************************************************************)
EXTENDS RecalculationJobs, FiniteSetTheorems, WellFoundedInduction, TLAPS

(* Attempts, where they are stored and where they were read, are failures. *)
AttemptsAreFailures ==
  \A j \in Jobs :
    /\ attempts[j] <= failures[j]
    /\ \A r \in Runs : seenAttempts[r][j] <= failures[j]

AttemptInv == AttemptsAreFailures /\ FailedHasFailedOften

(* What an invocation has in hand, and what it still has to process. *)
JobInHand ==
  \A r \in Runs :
    /\ phase[r] = "fan out" => cur[r] \in FanOuts \X {0} /\ cur[r] \notin todo[r]
    /\ phase[r] = "recalculate" => cur[r] \in Leaves /\ cur[r] \notin todo[r] /\ at[r] >= 1

(* The cursor of a leaf job is a day from the first on. *)
CursorsAreDays ==
  \A j \in Leaves :
    /\ cursor[j] >= 1
    /\ \A r \in Runs : j \in todo[r] => seenCursor[r][j] >= 1

(* The days before a cursor, new or old, are recalculated, and those that  *)
(* an invocation has passed in its page.                                   *)
DaysBehindAreCovered ==
  \A d \in Items :
    /\ \A j \in Leaves :
         /\ d < cursor[j] => <<j, d>> \in covered
         /\ \A r \in Runs : d < seenCursor[r][j] => <<j, d>> \in covered
    /\ \A r \in Runs :
         phase[r] = "recalculate" /\ d < at[r] => <<cur[r], d>> \in covered

(* The members before a cursor, new or old, have their jobs. *)
MembersBehindHaveJobs ==
  \A p \in FanOuts, m \in Members :
    /\ m <= cursor[<<p, 0>>] => state[<<p, m>>] # "none"
    /\ \A r \in Runs : m <= seenCursor[r][<<p, 0>>] => state[<<p, m>>] # "none"

TypeInv == TypeOK /\ JobInHand /\ CursorsAreDays

CoverInv ==
  /\ DaysBehindAreCovered /\ MembersBehindHaveJobs
  /\ CompletedIsCovered

-----------------------------------------------------------------------------
(* Jobs and pages. *)

(* A job is a leaf or the root of a fan-out, and not both. *)
LEMMA JobKinds ==
  /\ Leaves \subseteq Jobs /\ FanOuts \X {0} \subseteq Jobs
  /\ \A j \in Jobs : j \in Leaves \/ j \in FanOuts \X {0}
  /\ \A j \in FanOuts \X {0} : j \notin Leaves
  /\ \A p \in FanOuts, m \in Members : <<p, m>> \in Leaves /\ <<p, m>> \in Jobs
BY JobsAssumption DEF Jobs, Leaves, Roots, Children

(* A nonempty set of naturals has a least element. *)
LEMMA LeastNatural ==
  ASSUME NEW S \in SUBSET Nat, S # {}
  PROVE  \E x \in S : \A y \in S : x <= y
<1>1. \E x \in S : \A y \in S : <<y, x>> \notin OpToRel(<, Nat)
  BY NatLessThanWellFounded, WFMin, Zenon
<1>2. PICK x \in S : \A y \in S : <<y, x>> \notin OpToRel(<, Nat)
  BY <1>1
<1>3. ASSUME NEW y \in S
      PROVE  x <= y
  <2>1. x \in Nat /\ y \in Nat
    OBVIOUS
  <2>2. ~(y < x)
    BY <1>2, <2>1 DEF OpToRel
  <2> QED
    BY <2>1, <2>2
<1> QED
  BY <1>3

(* A finite nonempty set of naturals has a greatest element: the one with   *)
(* the fewest elements above it.                                            *)
LEMMA GreatestNatural ==
  ASSUME NEW S \in SUBSET Nat, IsFiniteSet(S), S # {}
  PROVE  \E x \in S : \A y \in S : y <= x
<1> DEFINE above(x) == {y \in S : x < y}
           counts == {Cardinality(above(x)) : x \in S}
<1>1. ASSUME NEW x \in S
      PROVE  IsFiniteSet(above(x)) /\ Cardinality(above(x)) \in Nat
  <2>1. above(x) \in SUBSET S
    OBVIOUS
  <2> QED
    BY <2>1, FS_Subset, FS_CardinalityType
<1>2. counts \in SUBSET Nat /\ counts # {}
  BY <1>1
<1>3. PICK k \in counts : \A n \in counts : k <= n
  BY <1>2, LeastNatural
<1>4. PICK x \in S : k = Cardinality(above(x))
  OBVIOUS
<1>5. ASSUME NEW y \in S, ~(y <= x)
      PROVE  FALSE
  <2>0. x \in Nat /\ y \in Nat /\ x < y
    BY <1>5
  <2>1. above(y) \in SUBSET above(x) /\ y \in above(x) /\ y \notin above(y)
    <3>1. ASSUME NEW z \in above(y)
          PROVE  z \in above(x)
      <4>1. z \in Nat /\ y < z /\ z \in S
        OBVIOUS
      <4>2. x < z
        BY <2>0, <4>1
      <4> QED
        BY <4>1, <4>2
    <3>2. y \in above(x) /\ y \notin above(y)
      BY <2>0
    <3> QED
      BY <3>1, <3>2
  <2>2. Cardinality(above(y)) <= Cardinality(above(x)) /\ Cardinality(above(y)) # Cardinality(above(x))
    BY <1>1, <2>1, FS_Subset
  <2>3. k <= Cardinality(above(y))
    BY <1>3
  <2> QED
    BY <1>1, <1>4, <2>2, <2>3
<1> QED
  BY <1>5

(* A page that is not full holds all members that are left. *)
LEMMA ShortPage ==
  ASSUME NEW c \in Nat, Cardinality(PageAfter(c)) < Page
  PROVE  PageAfter(c) = {m \in Members : m > c}
<1> DEFINE rest == {m \in Members : m > c}
           page == PageAfter(c)
           before(m) == {n \in rest : n < m}
<1>1. page = {m \in rest : Cardinality(before(m)) < Page}
  BY DEF PageAfter
<1>2. IsFiniteSet(page) /\ Cardinality(page) \in Nat
  <2>1. page \in SUBSET Members
    BY <1>1
  <2> QED
    BY <2>1, JobsAssumption, FS_Subset, FS_CardinalityType
<1>3. rest \in SUBSET Nat
  BY JobsAssumption
<1>4. SUFFICES ASSUME rest \ page # {}
               PROVE  FALSE
  BY <1>1
<1>5. PICK m \in rest \ page : \A n \in rest \ page : m <= n
  BY <1>3, <1>4, LeastNatural
<1>6. before(m) \in SUBSET page
  BY <1>3, <1>5
<1>7. Cardinality(before(m)) \in Nat /\ Cardinality(before(m)) <= Cardinality(page)
  BY <1>2, <1>6, FS_Subset, FS_CardinalityType
<1>8. ~(Cardinality(before(m)) < Page)
  BY <1>1, <1>5
<1> QED
  BY <1>2, <1>7, <1>8, JobsAssumption

(* A full page has a last member, and no member before it is left out. *)
LEMMA FullPage ==
  ASSUME NEW c \in Nat, ~(Cardinality(PageAfter(c)) < Page)
  PROVE  LET l == CHOOSE m \in PageAfter(c) : \A n \in PageAfter(c) : n <= m
         IN  /\ l \in Members
             /\ \A m \in Members : m <= l => m <= c \/ m \in PageAfter(c)
<1> DEFINE rest == {m \in Members : m > c}
           page == PageAfter(c)
           before(m) == {n \in rest : n < m}
           l == CHOOSE m \in page : \A n \in page : n <= m
<1>1. page = {m \in rest : Cardinality(before(m)) < Page}
  BY DEF PageAfter
<1>2. page \in SUBSET Nat /\ page \in SUBSET Members /\ IsFiniteSet(page)
  <2>1. page \in SUBSET Members /\ page \in SUBSET Nat
    BY <1>1, JobsAssumption
  <2> QED
    BY <2>1, JobsAssumption, FS_Subset
<1>3. page # {}
  <2>1. Cardinality({}) = 0
    BY FS_EmptySet
  <2> QED
    BY <2>1, JobsAssumption
<1>4. \E m \in page : \A n \in page : n <= m
  BY <1>2, <1>3, GreatestNatural
<1> HIDE DEF page
<1>5. l \in page /\ \A n \in page : n <= l
  BY <1>4
<1>6. ASSUME NEW m \in Members, m <= l, ~(m <= c)
      PROVE  m \in page
  <2>0. m \in Nat /\ l \in Nat /\ rest \in SUBSET Nat /\ rest \in SUBSET Members
    BY <1>2, <1>5, <1>6, JobsAssumption
  <2>1. m \in rest /\ l \in rest /\ IsFiniteSet(rest)
    <3>1. l \in rest
      BY <1>1, <1>5
    <3>2. m \in rest
      BY <1>6, <2>0
    <3> QED
      BY <2>0, <3>1, <3>2, JobsAssumption, FS_Subset
  <2>2. before(m) \in SUBSET before(l) /\ IsFiniteSet(before(l)) /\ IsFiniteSet(before(m))
    <3>1. ASSUME NEW n \in before(m)
          PROVE  n \in before(l)
      <4>1. n \in rest /\ n \in Nat /\ n < m
        BY <2>0
      <4>2. n < l
        BY <1>6, <2>0, <4>1
      <4> QED
        BY <4>1, <4>2
    <3>2. before(m) \in SUBSET rest /\ before(l) \in SUBSET rest
      OBVIOUS
    <3> QED
      BY <2>1, <3>1, <3>2, FS_Subset
  <2>3. Cardinality(before(m)) <= Cardinality(before(l)) /\ Cardinality(before(m)) \in Nat
        /\ Cardinality(before(l)) \in Nat
    BY <2>2, FS_Subset, FS_CardinalityType
  <2>4. Cardinality(before(l)) < Page
    BY <1>1, <1>5
  <2>5. Cardinality(before(m)) < Page
    BY <2>3, <2>4, JobsAssumption
  <2> QED
    BY <1>1, <2>1, <2>5
<1> QED
  BY <1>2, <1>5, <1>6 DEF page

-----------------------------------------------------------------------------
(* Types, and what the invocations have in hand. *)

(* What an invocation r that forgets the jobs js keeps, and what the others *)
(* keep.                                                                    *)
Forgets(r, js, p) ==
  /\ phase'[r] = p
  /\ \A q \in Runs : q # r => phase'[q] = phase[q] /\ cur'[q] = cur[q] /\ at'[q] = at[q]
  /\ \A q \in Runs, j \in Jobs :
       q # r \/ j \notin js => /\ seenCursor'[q][j] = seenCursor[q][j]
                              /\ seenAttempts'[q][j] = seenAttempts[q][j]
  /\ \A j \in Jobs : j \in js => seenCursor'[r][j] = 0 /\ seenAttempts'[r][j] = 0

(* Forget keeps the types of the variables of an invocation. *)
LEMMA ForgetTyped ==
  ASSUME TypeOK, NEW r \in Runs, NEW js,
         NEW p \in {"idle", "picking"}, Forget(r, js, p)
  PROVE  /\ phase' \in [Runs -> {"idle", "picking", "fan out", "recalculate"}]
         /\ cur' \in [Runs -> Jobs \union {NoJob}] /\ at' \in [Runs -> Nat]
         /\ seenCursor' \in [Runs -> [Jobs -> Nat]]
         /\ seenAttempts' \in [Runs -> [Jobs -> Nat]]
         /\ Forgets(r, js, p)
<1>1. phase' \in [Runs -> {"idle", "picking", "fan out", "recalculate"}]
  BY DEF TypeOK, Forget
<1>2. cur' \in [Runs -> Jobs \union {NoJob}] /\ at' \in [Runs -> Nat]
  BY DEF TypeOK, Forget
<1>3. seenCursor' \in [Runs -> [Jobs -> Nat]]
  BY DEF TypeOK, Forget
<1>4. seenAttempts' \in [Runs -> [Jobs -> Nat]]
  BY DEF TypeOK, Forget
<1>5. /\ phase'[r] = p
      /\ \A q \in Runs : q # r => phase'[q] = phase[q] /\ cur'[q] = cur[q] /\ at'[q] = at[q]
  BY DEF TypeOK, Forget
<1>6. \A q \in Runs, j \in Jobs :
        seenCursor'[q][j] = IF q = r /\ j \in js THEN 0 ELSE seenCursor[q][j]
  BY DEF TypeOK, Forget
<1>7. \A q \in Runs, j \in Jobs :
        seenAttempts'[q][j] = IF q = r /\ j \in js THEN 0 ELSE seenAttempts[q][j]
  BY DEF TypeOK, Forget
<1> QED
  BY <1>1, <1>2, <1>3, <1>4, <1>5, <1>6, <1>7 DEF Forgets

(* The documents after a page of a fan-out job: those of the children are   *)
(* written anew, and the cursor is at the last member of a full page.       *)
LEMMA FanOutWrites ==
  ASSUME TypeInv, NEW r \in Runs, FanOut(r)
  PROVE  \E p \in FanOuts :
           /\ cur[r] = <<p, 0>>
           /\ state' \in [Jobs -> {"none", "pending", "completed", "failed"}]
           /\ cursor' \in [Jobs -> Nat] /\ attempts' \in [Jobs -> Nat]
           /\ \A j \in Jobs : state[j] # "none" => state'[j] # "none"
           /\ \A j \in Jobs : state'[j] = "completed" => state[j] = "completed" \/ j = <<p, 0>>
           /\ state'[<<p, 0>>] = "completed" =>
                 \A m \in Members : m > seenCursor[r][<<p, 0>>] => state'[<<p, m>>] # "none"
           /\ \A m \in Members :
                 m <= cursor'[<<p, 0>>] =>
                   \/ m <= cursor[<<p, 0>>] \/ m <= seenCursor[r][<<p, 0>>]
                   \/ state'[<<p, m>>] # "none"
           /\ \A j \in Jobs \ {<<p, 0>>} : cursor'[j] = cursor[j] \/ (j \in Leaves /\ cursor'[j] = 1)
           /\ \A j \in Jobs : attempts'[j] = 0 \/ attempts'[j] = attempts[j]
<1>1. PICK p \in FanOuts : cur[r] = <<p, 0>>
  <2>1. phase[r] = "fan out"
    BY DEF FanOut
  <2>2. cur[r] \in FanOuts \X {0}
    BY <2>1 DEF TypeInv, JobInHand
  <2> QED
    BY <2>2
<1> DEFINE c == seenCursor[r][<<p, 0>>]
<1>2. <<p, 0>> \in Jobs /\ <<p, 0>> \notin Leaves /\ c \in Nat
  <2>1. <<p, 0>> \in FanOuts \X {0}
    OBVIOUS
  <2>2. <<p, 0>> \in Jobs /\ <<p, 0>> \notin Leaves
    BY <2>1, JobKinds
  <2> QED
    BY <2>2 DEF TypeInv, TypeOK
<1>3. NextPage(r) = PageAfter(c) /\ NextPage(r) \in SUBSET Members
  BY <1>1 DEF NextPage, PageAfter
<1>4. PageJobs(r) = {<<p, m>> : m \in NextPage(r)}
  BY <1>1 DEF PageJobs
<1>5. ASSUME ~PageIsFull(r)
      PROVE  NextPage(r) = {m \in Members : m > c}
  <2>1. IsFiniteSet(NextPage(r)) /\ Cardinality(NextPage(r)) \in Nat
    BY <1>3, JobsAssumption, FS_Subset, FS_CardinalityType
  <2>2. Cardinality(PageAfter(c)) < Page
    BY <1>3, <1>5, <2>1, JobsAssumption DEF PageIsFull
  <2> QED
    BY <1>2, <1>3, <2>2, ShortPage
<1>6. ASSUME PageIsFull(r)
      PROVE  /\ LastMember(r) \in Members
             /\ \A m \in Members : m <= LastMember(r) => m <= c \/ m \in NextPage(r)
  <2>1. IsFiniteSet(NextPage(r)) /\ Cardinality(NextPage(r)) \in Nat
    BY <1>3, JobsAssumption, FS_Subset, FS_CardinalityType
  <2>2. ~(Cardinality(PageAfter(c)) < Page)
    BY <1>3, <1>6, <2>1, JobsAssumption DEF PageIsFull
  <2> QED
    BY <1>2, <1>3, <2>2, FullPage DEF LastMember
<1>7. /\ \A m \in NextPage(r) : <<p, m>> \in PageJobs(r) /\ <<p, m>> \in Jobs
      /\ PageJobs(r) \in SUBSET Leaves
      /\ <<p, 0>> \notin PageJobs(r)
  <2>1. \A m \in NextPage(r) : <<p, m>> \in Leaves /\ <<p, m>> \in Jobs
    BY <1>3, JobKinds
  <2>2. PageJobs(r) \in SUBSET Leaves
    BY <1>4, <2>1
  <2> QED
    BY <1>2, <1>4, <2>1, <2>2
<1>8. state' = [j \in Jobs |-> IF j \in PageJobs(r) THEN "pending"
                              ELSE IF j # <<p, 0>> THEN state[j]
                              ELSE IF PageIsFull(r) THEN "pending" ELSE "completed"]
  BY <1>1 DEF FanOut
<1>9. cursor' = [j \in Jobs |-> IF j \in PageJobs(r) THEN 1
                               ELSE IF j = <<p, 0>> /\ PageIsFull(r) THEN LastMember(r)
                               ELSE cursor[j]]
  BY <1>1 DEF FanOut
<1>10. attempts' = [j \in Jobs |-> IF j \in PageJobs(r) THEN 0 ELSE attempts[j]]
  BY <1>1 DEF FanOut
<1> HIDE DEF c
<1>11. state' \in [Jobs -> {"none", "pending", "completed", "failed"}]
  BY <1>8 DEF TypeInv, TypeOK
<1>12. cursor' \in [Jobs -> Nat] /\ attempts' \in [Jobs -> Nat]
  BY <1>6, <1>9, <1>10, JobsAssumption DEF TypeInv, TypeOK
<1>13. /\ \A j \in Jobs : state[j] # "none" => state'[j] # "none"
       /\ \A j \in Jobs : state'[j] = "completed" => state[j] = "completed" \/ j = <<p, 0>>
  BY <1>8
<1>14. ASSUME state'[<<p, 0>>] = "completed", NEW m \in Members, m > c
       PROVE  state'[<<p, m>>] # "none"
  <2>1. ~PageIsFull(r)
    BY <1>2, <1>7, <1>8, <1>14
  <2>2. m \in NextPage(r)
    BY <1>5, <1>14, <2>1
  <2> QED
    BY <1>7, <1>8, <2>2
<1>15. ASSUME NEW m \in Members, m <= cursor'[<<p, 0>>], ~(m <= cursor[<<p, 0>>]), ~(m <= c)
       PROVE  state'[<<p, m>>] # "none"
  <2>1. PageIsFull(r) /\ cursor'[<<p, 0>>] = LastMember(r)
    BY <1>2, <1>7, <1>9, <1>15
  <2>2. m \in NextPage(r)
    BY <1>6, <1>15, <2>1
  <2> QED
    BY <1>7, <1>8, <2>2
<1>16. /\ \A j \in Jobs \ {<<p, 0>>} : cursor'[j] = cursor[j] \/ (j \in Leaves /\ cursor'[j] = 1)
       /\ \A j \in Jobs : attempts'[j] = 0 \/ attempts'[j] = attempts[j]
  BY <1>7, <1>9, <1>10
<1> QED
  BY <1>1, <1>11, <1>12, <1>13, <1>14, <1>15, <1>16 DEF c

(* The module starts well-formed, with nothing in hand. *)
LEMMA InitTyped == Init => TypeInv
<1> SUFFICES ASSUME Init PROVE TypeInv
  OBVIOUS
<1>1. TypeOK
  <2>1. cursor \in [Jobs -> Nat]
    BY DEF Init, Start
  <2>2. covered \subseteq Leaves \X Items /\ faults \in Nat
    BY DEF Init
  <2>3. /\ state \in [Jobs -> {"none", "pending", "completed", "failed"}]
        /\ attempts \in [Jobs -> Nat] /\ failures \in [Jobs -> Nat]
    BY DEF Init
  <2>4. /\ phase \in [Runs -> {"idle", "picking", "fan out", "recalculate"}]
        /\ todo \in [Runs -> SUBSET Jobs] /\ cur \in [Runs -> Jobs \union {NoJob}]
        /\ at \in [Runs -> Nat]
    BY DEF Init
  <2>5. /\ seenCursor \in [Runs -> [Jobs -> Nat]]
        /\ seenAttempts \in [Runs -> [Jobs -> Nat]]
    BY DEF Init
  <2> QED
    BY <2>1, <2>2, <2>3, <2>4, <2>5 DEF TypeOK
<1>2. JobInHand
  BY DEF Init, JobInHand
<1>3. CursorsAreDays
  BY JobKinds DEF Init, CursorsAreDays, Start
<1> QED
  BY <1>1, <1>2, <1>3 DEF TypeInv

(* Every step leaves the variables well-formed. *)
LEMMA NextTyped == TypeInv /\ [Next]_vars => TypeOK'
<1> SUFFICES ASSUME TypeInv, [Next]_vars PROVE TypeOK'
  OBVIOUS
<1>0. TypeOK /\ JobInHand
  BY DEF TypeInv
<1>00. /\ at \in [Runs -> Nat] /\ covered \subseteq Leaves \X Items
       /\ attempts \in [Jobs -> Nat] /\ failures \in [Jobs -> Nat] /\ faults \in Nat
  BY <1>0 DEF TypeOK
<1>1. ASSUME NEW j \in Roots, Create(j)
      PROVE  TypeOK'
  BY <1>0, <1>1 DEF TypeOK, Create, run
<1>2. ASSUME NEW r \in Runs, StartRun(r)
      PROVE  TypeOK'
  <2>1. Queried \in SUBSET Jobs
    BY DEF Queried, Pending
  <2>2. todo' \in [Runs -> SUBSET Jobs]
    BY <1>0, <1>2, <2>1 DEF TypeOK, StartRun
  <2>3. seenCursor' \in [Runs -> [Jobs -> Nat]]
    BY <1>0, <1>2 DEF TypeOK, StartRun
  <2>4. seenAttempts' \in [Runs -> [Jobs -> Nat]]
    BY <1>0, <1>2 DEF TypeOK, StartRun
  <2> QED
    BY <1>0, <1>2, <2>2, <2>3, <2>4 DEF TypeOK, StartRun, docs
<1>3. ASSUME NEW r \in Runs, PickJob(r)
      PROVE  TypeOK'
  <2>1. PICK j \in todo[r] :
          /\ cur' = [cur EXCEPT ![r] = j]
          /\ todo' = [todo EXCEPT ![r] = @ \ {j}]
          /\ at' = [at EXCEPT ![r] = seenCursor[r][j]]
          /\ phase' = [phase EXCEPT ![r] = IF j \in Leaves THEN "recalculate" ELSE "fan out"]
    BY <1>3 DEF PickJob
  <2>2. j \in Jobs /\ seenCursor[r][j] \in Nat
    BY <1>0 DEF TypeOK
  <2>3. /\ cur' \in [Runs -> Jobs \union {NoJob}] /\ todo' \in [Runs -> SUBSET Jobs]
        /\ at' \in [Runs -> Nat]
    BY <1>0, <2>1, <2>2 DEF TypeOK
  <2>4. phase' \in [Runs -> {"idle", "picking", "fan out", "recalculate"}]
    BY <1>0, <2>1 DEF TypeOK
  <2> QED
    BY <1>0, <1>3, <2>3, <2>4 DEF TypeOK, PickJob, docs
<1>4. ASSUME NEW r \in Runs, EndRun(r)
      PROVE  TypeOK'
  <2>1. Forget(r, Jobs, "idle")
    BY <1>4 DEF EndRun
  <2> QED
    BY <1>0, <1>4, <2>1, ForgetTyped DEF TypeOK, EndRun, docs
<1>5. ASSUME NEW r \in Runs, FanOut(r)
      PROVE  TypeOK'
  <2>1. Forget(r, {cur[r]}, "picking")
    BY <1>5 DEF FanOut
  <2>2. /\ state' \in [Jobs -> {"none", "pending", "completed", "failed"}]
        /\ cursor' \in [Jobs -> Nat] /\ attempts' \in [Jobs -> Nat]
    BY <1>5, FanOutWrites
  <2>3. UNCHANGED <<todo, covered, failures, faults>>
    BY <1>5 DEF FanOut
  <2> QED
    BY <1>0, <2>1, <2>2, <2>3, ForgetTyped DEF TypeOK
<1>6. ASSUME NEW r \in Runs, Recalculate(r)
      PROVE  TypeOK'
  <2>1. at[r] \in Items /\ cur[r] \in Leaves
    BY <1>0, <1>6 DEF Recalculate, InPage, JobInHand
  <2>2. covered' = covered \union {<<cur[r], at[r]>>}
    BY <1>6 DEF Recalculate
  <2>3. covered' \subseteq Leaves \X Items
    BY <1>00, <2>1, <2>2
  <2>4. at[r] \in Nat /\ at' = [at EXCEPT ![r] = @ + 1]
    BY <1>0, <1>6 DEF TypeOK, Recalculate
  <2>5. at' \in [Runs -> Nat]
    BY <1>00, <2>4
  <2>6. UNCHANGED <<docs, phase, todo, cur, seenCursor, seenAttempts, failures, faults>>
    BY <1>6 DEF Recalculate
  <2> QED
    BY <1>0, <2>3, <2>5, <2>6 DEF TypeOK, docs
<1>7. ASSUME NEW r \in Runs, FinishPage(r)
      PROVE  TypeOK'
  <2>1. Forget(r, {cur[r]}, "picking")
    BY <1>7 DEF FinishPage
  <2>2. /\ state' \in [Jobs -> {"none", "pending", "completed", "failed"}]
        /\ cursor' \in [Jobs -> Nat]
    BY <1>0, <1>7 DEF TypeOK, FinishPage, CursorAfter
  <2>3. UNCHANGED <<attempts, todo, covered, failures, faults>>
    BY <1>7 DEF FinishPage
  <2> QED
    BY <1>0, <2>1, <2>2, <2>3, ForgetTyped DEF TypeOK
<1>8. ASSUME NEW r \in Runs, JobFails(r)
      PROVE  TypeOK'
  <2>1. Forget(r, {cur[r]}, "picking")
    BY <1>8 DEF JobFails
  <2>2. cur[r] \in Jobs
    BY <1>0, <1>8, JobKinds DEF JobFails, JobInHand
  <2>3. Attempt(r) \in Nat
    <3>1. seenAttempts[r] \in [Jobs -> Nat]
      BY <1>0 DEF TypeOK
    <3>2. seenAttempts[r][cur[r]] \in Nat
      BY <2>2, <3>1
    <3> QED
      BY <3>2 DEF Attempt
  <2>4. /\ state' \in [Jobs -> {"none", "pending", "completed", "failed"}]
        /\ attempts' \in [Jobs -> Nat] /\ failures' \in [Jobs -> Nat]
    <3>1. state' = [state EXCEPT ![cur[r]] = IF GivesUp(r) THEN "failed" ELSE @]
      BY <1>8 DEF JobFails
    <3>2. /\ attempts' = [attempts EXCEPT ![cur[r]] = Attempt(r)]
          /\ failures' = [failures EXCEPT ![cur[r]] = @ + 1]
      BY <1>8 DEF JobFails
    <3>3. state' \in [Jobs -> {"none", "pending", "completed", "failed"}]
      BY <1>0, <3>1 DEF TypeOK
    <3>4. attempts' \in [Jobs -> Nat]
      BY <1>00, <2>3, <3>2
    <3>5. failures[cur[r]] + 1 \in Nat
      BY <1>00, <2>2
    <3>6. failures' \in [Jobs -> Nat]
      BY <1>00, <3>2, <3>5
    <3> QED
      BY <3>3, <3>4, <3>6
  <2>5. faults' \in Nat
    <3>1. faults' = faults \/ faults' = faults + 1
      BY <1>8 DEF JobFails, Fault
    <3> QED
      BY <1>00, <3>1
  <2>6. UNCHANGED <<cursor, todo, covered>>
    BY <1>8 DEF JobFails
  <2> QED
    BY <1>0, <2>1, <2>4, <2>5, <2>6, ForgetTyped DEF TypeOK
<1>9. ASSUME NEW r \in Runs, RunDies(r)
      PROVE  TypeOK'
  <2>1. Forget(r, Jobs, "idle")
    BY <1>9 DEF RunDies
  <2>2. todo' \in [Runs -> SUBSET Jobs] /\ faults' \in Nat
    <3>1. todo' = [todo EXCEPT ![r] = {}] /\ faults' = faults + 1
      BY <1>9 DEF RunDies, Fault
    <3>2. todo' \in [Runs -> SUBSET Jobs]
      BY <1>0, <3>1 DEF TypeOK
    <3> QED
      BY <1>00, <3>1, <3>2
  <2>3. UNCHANGED <<docs, covered, failures>>
    BY <1>9 DEF RunDies
  <2> QED
    BY <1>0, <2>1, <2>2, <2>3, ForgetTyped DEF TypeOK, docs
<1>10. CASE UNCHANGED vars
  BY <1>0, <1>10 DEF TypeOK, vars, docs, run
<1> QED
  BY <1>1, <1>2, <1>3, <1>4, <1>5, <1>6, <1>7, <1>8, <1>9, <1>10 DEF Next, RunStep

(* Every step leaves what is in hand, and the cursors, as they should be.  *)
LEMMA NextInHand == TypeInv /\ [Next]_vars => JobInHand' /\ CursorsAreDays'
<1> SUFFICES ASSUME TypeInv, [Next]_vars PROVE JobInHand' /\ CursorsAreDays'
  OBVIOUS
<1>0. Leaves \subseteq Jobs /\ TypeOK /\ JobInHand /\ CursorsAreDays
  BY JobKinds DEF TypeInv
<1>1. ASSUME NEW j \in Roots, Create(j)
      PROVE  JobInHand' /\ CursorsAreDays'
  BY <1>0, <1>1 DEF JobInHand, CursorsAreDays, Create, run
<1>2. ASSUME NEW r \in Runs, StartRun(r)
      PROVE  JobInHand' /\ CursorsAreDays'
  <2>1. JobInHand'
    BY <1>0, <1>2 DEF TypeOK, JobInHand, StartRun
  <2>2. ASSUME NEW j \in Leaves, NEW q \in Runs, j \in todo'[q]
        PROVE  seenCursor'[q][j] >= 1
    <3>1. CASE q = r
      <4>1. j \in Queried /\ seenCursor'[q][j] = cursor[j]
        BY <1>0, <1>2, <2>2, <3>1 DEF TypeOK, StartRun
      <4> QED
        BY <1>0, <4>1 DEF CursorsAreDays
    <3>2. CASE q # r
      BY <1>0, <1>2, <2>2, <3>2 DEF TypeOK, CursorsAreDays, StartRun
    <3> QED
      BY <1>0, <3>1, <3>2
  <2> QED
    BY <1>0, <1>2, <2>1, <2>2 DEF CursorsAreDays, StartRun, docs
<1>3. ASSUME NEW r \in Runs, PickJob(r)
      PROVE  JobInHand' /\ CursorsAreDays'
  <2>1. PICK j \in todo[r] :
          /\ cur' = [cur EXCEPT ![r] = j]
          /\ todo' = [todo EXCEPT ![r] = @ \ {j}]
          /\ at' = [at EXCEPT ![r] = seenCursor[r][j]]
          /\ phase' = [phase EXCEPT ![r] = IF j \in Leaves THEN "recalculate" ELSE "fan out"]
    BY <1>0, <1>3 DEF PickJob
  <2>2. j \in Jobs /\ j \notin todo'[r] /\ cur'[r] = j /\ at'[r] = seenCursor[r][j]
    BY <1>0, <2>1 DEF TypeOK
  <2>3. j \in Leaves => at'[r] >= 1
    BY <1>0, <2>2 DEF CursorsAreDays
  <2>4. j \notin Leaves => j \in FanOuts \X {0}
    BY <1>0, <2>2, JobKinds
  <2>5. JobInHand'
    BY <1>0, <2>1, <2>2, <2>3, <2>4 DEF TypeOK, JobInHand
  <2>6. CursorsAreDays'
    BY <1>0, <1>3, <2>1 DEF TypeOK, CursorsAreDays, PickJob, docs
  <2> QED
    BY <1>0, <2>5, <2>6
<1>4. ASSUME NEW r \in Runs, EndRun(r)
      PROVE  JobInHand' /\ CursorsAreDays'
  <2>1. Forget(r, Jobs, "idle") /\ todo[r] = {} /\ UNCHANGED <<docs, todo>>
    BY <1>4 DEF EndRun
  <2>2. Forgets(r, Jobs, "idle")
    BY <1>0, <2>1, ForgetTyped
  <2>3. JobInHand'
    BY <1>0, <2>1, <2>2 DEF Forgets, JobInHand
  <2>4. CursorsAreDays'
    BY <1>0, <2>1, <2>2 DEF Forgets, CursorsAreDays, docs
  <2> QED
    BY <2>3, <2>4
<1>5. ASSUME NEW r \in Runs, FanOut(r)
      PROVE  JobInHand' /\ CursorsAreDays'
  <2>1. Forget(r, {cur[r]}, "picking") /\ phase[r] = "fan out" /\ UNCHANGED todo
    BY <1>5 DEF FanOut
  <2>0. Forgets(r, {cur[r]}, "picking")
    BY <1>0, <2>1, ForgetTyped
  <2>2. cur[r] \in FanOuts \X {0}
    BY <1>0, <2>1 DEF JobInHand
  <2>3. cur[r] \notin Leaves
    BY <1>0, <2>2, JobKinds
  <2>4. JobInHand'
    BY <1>0, <2>0, <2>1 DEF Forgets, JobInHand
  <2>5. ASSUME NEW j \in Leaves
        PROVE  cursor'[j] >= 1
    <3>1. cursor'[j] = cursor[j] \/ cursor'[j] = 1
      BY <1>0, <1>5, <2>3, FanOutWrites
    <3> QED
      BY <1>0, <3>1 DEF CursorsAreDays
  <2>6. \A j \in Leaves, q \in Runs : seenCursor'[q][j] = seenCursor[q][j]
    BY <1>0, <2>0, <2>3 DEF Forgets
  <2> QED
    BY <1>0, <2>1, <2>4, <2>5, <2>6 DEF CursorsAreDays
<1>6. ASSUME NEW r \in Runs, Recalculate(r)
      PROVE  JobInHand' /\ CursorsAreDays'
  <2>1. at[r] \in Nat /\ at' = [at EXCEPT ![r] = @ + 1] /\ at \in [Runs -> Nat]
    BY <1>0, <1>6 DEF TypeOK, Recalculate
  <2>2. \A q \in Runs : at'[q] = at[q] \/ (q = r /\ at'[q] = at[q] + 1)
    BY <2>1
  <2>3. \A q \in Runs : at[q] \in Nat /\ (at[q] >= 1 => at'[q] >= 1)
    BY <2>1, <2>2
  <2>4. UNCHANGED <<docs, phase, todo, cur, seenCursor>>
    BY <1>6 DEF Recalculate
  <2>5. JobInHand'
    BY <1>0, <2>3, <2>4 DEF JobInHand
  <2>6. CursorsAreDays'
    BY <1>0, <2>4 DEF CursorsAreDays, docs
  <2> QED
    BY <2>5, <2>6
<1>7. ASSUME NEW r \in Runs, FinishPage(r)
      PROVE  JobInHand' /\ CursorsAreDays'
  <2>1. Forget(r, {cur[r]}, "picking") /\ phase[r] = "recalculate" /\ UNCHANGED todo
    BY <1>7 DEF FinishPage
  <2>0. Forgets(r, {cur[r]}, "picking")
    BY <1>0, <2>1, ForgetTyped
  <2>2. cur[r] \in Leaves /\ at[r] >= 1 /\ cur[r] \notin todo[r]
    BY <1>0, <2>1 DEF JobInHand
  <2>3. JobInHand'
    BY <1>0, <2>0, <2>1 DEF Forgets, JobInHand
  <2>4. \A j \in Leaves : cursor'[j] >= 1
    BY <1>0, <1>7, <2>2 DEF TypeOK, CursorsAreDays, FinishPage, CursorAfter
  <2>5. \A j \in Leaves, q \in Runs : j \in todo'[q] => seenCursor'[q][j] = seenCursor[q][j]
    BY <1>0, <2>0, <2>1, <2>2 DEF Forgets
  <2> QED
    BY <1>0, <2>1, <2>3, <2>4, <2>5 DEF CursorsAreDays
<1>8. ASSUME NEW r \in Runs, JobFails(r)
      PROVE  JobInHand' /\ CursorsAreDays'
  <2>1. Forget(r, {cur[r]}, "picking") /\ UNCHANGED <<cursor, todo>> /\ cur[r] \notin todo[r]
    BY <1>0, <1>8 DEF JobFails, JobInHand
  <2>0. Forgets(r, {cur[r]}, "picking")
    BY <1>0, <2>1, ForgetTyped
  <2>2. JobInHand'
    BY <1>0, <2>0, <2>1 DEF Forgets, JobInHand
  <2>3. \A j \in Leaves, q \in Runs : j \in todo'[q] => seenCursor'[q][j] = seenCursor[q][j]
    BY <1>0, <2>0, <2>1 DEF Forgets
  <2> QED
    BY <1>0, <2>1, <2>2, <2>3 DEF CursorsAreDays
<1>9. ASSUME NEW r \in Runs, RunDies(r)
      PROVE  JobInHand' /\ CursorsAreDays'
  <2>1. Forget(r, Jobs, "idle") /\ todo' = [todo EXCEPT ![r] = {}] /\ UNCHANGED docs
    BY <1>0, <1>9 DEF RunDies
  <2>2. \A q \in Runs : todo'[q] = IF q = r THEN {} ELSE todo[q]
    BY <1>0, <2>1 DEF TypeOK
  <2>0. Forgets(r, Jobs, "idle")
    BY <1>0, <2>1, ForgetTyped
  <2>3. JobInHand'
    BY <1>0, <2>0, <2>2 DEF Forgets, JobInHand
  <2>4. CursorsAreDays'
    BY <1>0, <2>0, <2>1, <2>2 DEF Forgets, CursorsAreDays, docs
  <2> QED
    BY <1>0, <2>3, <2>4
<1>10. CASE UNCHANGED vars
  BY <1>0, <1>10 DEF JobInHand, CursorsAreDays, vars, docs, run
<1> QED
  BY <1>0, <1>1, <1>2, <1>3, <1>4, <1>5, <1>6, <1>7, <1>8, <1>9, <1>10 DEF Next, RunStep

(* TypeInv is inductive. *)
LEMMA TypeInvAlways == Spec => []TypeInv
<1>1. TypeInv /\ [Next]_vars => TypeInv'
  BY NextTyped, NextInHand DEF TypeInv
<1> QED
  BY <1>1, InitTyped, PTL DEF Spec

(* The job documents and the invocations keep their types. *)
THEOREM JobTypes == Spec => []TypeOK
<1>1. TypeInv => TypeOK
  BY DEF TypeInv
<1> QED
  BY <1>1, TypeInvAlways, PTL

-----------------------------------------------------------------------------
(* A job is given up only after MaxAttempts failures of its own. *)

(* Attempts in a document or in a snapshot never exceed the failures.      *)
LEMMA NextAttempts == TypeInv /\ AttemptInv /\ [Next]_vars => AttemptInv'
<1> SUFFICES ASSUME TypeInv, AttemptInv, [Next]_vars PROVE AttemptInv'
  OBVIOUS
<1>0. TypeOK /\ JobInHand /\ AttemptsAreFailures /\ FailedHasFailedOften
  BY DEF TypeInv, AttemptInv
<1>00. /\ attempts \in [Jobs -> Nat] /\ failures \in [Jobs -> Nat]
       /\ state \in [Jobs -> {"none", "pending", "completed", "failed"}]
       /\ seenAttempts \in [Runs -> [Jobs -> Nat]]
  BY <1>0 DEF TypeOK
<1>a. ASSUME NEW r \in Runs, NEW js, NEW p \in {"idle", "picking"}, Forget(r, js, p)
      PROVE  \A j \in Jobs, q \in Runs : seenAttempts'[q][j] <= failures[j]
  <2>1. Forgets(r, js, p)
    BY <1>0, <1>a, ForgetTyped
  <2>2. \A j \in Jobs, q \in Runs : seenAttempts'[q][j] = seenAttempts[q][j] \/ seenAttempts'[q][j] = 0
    BY <2>1 DEF Forgets
  <2> QED
    BY <1>0, <1>00, <2>2 DEF AttemptsAreFailures
<1>1. ASSUME NEW j \in Roots, Create(j)
      PROVE  AttemptInv'
  <2>1. /\ state' = [state EXCEPT ![j] = "pending"]
        /\ UNCHANGED <<attempts, seenAttempts, failures>>
    BY <1>1 DEF Create, run
  <2> QED
    BY <1>0, <1>00, <2>1 DEF AttemptInv, AttemptsAreFailures, FailedHasFailedOften
<1>2. ASSUME NEW r \in Runs, StartRun(r)
      PROVE  AttemptInv'
  <2>1. /\ seenAttempts' = [seenAttempts EXCEPT ![r] =
                              [j \in Jobs |-> IF j \in Queried THEN attempts[j] ELSE 0]]
        /\ UNCHANGED <<state, attempts, failures>>
    BY <1>2 DEF StartRun, docs
  <2>2. \A q \in Runs, j \in Jobs :
          seenAttempts'[q][j] = seenAttempts[q][j] \/ seenAttempts'[q][j] \in {attempts[j], 0}
    BY <1>00, <2>1
  <2>3. \A q \in Runs, j \in Jobs : seenAttempts'[q][j] <= failures[j]
    BY <1>0, <1>00, <2>2 DEF AttemptsAreFailures
  <2> QED
    BY <1>0, <2>1, <2>3 DEF AttemptInv, AttemptsAreFailures, FailedHasFailedOften
<1>3. ASSUME NEW r \in Runs, PickJob(r)
      PROVE  AttemptInv'
  <2>1. UNCHANGED <<state, attempts, seenAttempts, failures>>
    BY <1>3 DEF PickJob, docs
  <2> QED
    BY <1>0, <2>1 DEF AttemptInv, AttemptsAreFailures, FailedHasFailedOften
<1>4. ASSUME NEW r \in Runs, EndRun(r) \/ RunDies(r)
      PROVE  AttemptInv'
  <2>1. Forget(r, Jobs, "idle") /\ UNCHANGED <<state, attempts, failures>>
    BY <1>4 DEF EndRun, RunDies, docs
  <2>2. \A j \in Jobs, q \in Runs : seenAttempts'[q][j] <= failures[j]
    BY <1>a, <2>1
  <2> QED
    BY <1>0, <2>1, <2>2 DEF AttemptInv, AttemptsAreFailures, FailedHasFailedOften
<1>5. ASSUME NEW r \in Runs, FanOut(r)
      PROVE  AttemptInv'
  <2>1. Forget(r, {cur[r]}, "picking") /\ UNCHANGED failures
    BY <1>5 DEF FanOut
  <2>2. \A j \in Jobs : attempts'[j] = 0 \/ attempts'[j] = attempts[j]
    BY <1>5, FanOutWrites
  <2>3. \A j \in Jobs : state'[j] = "failed" => state[j] = "failed"
    BY <1>5 DEF FanOut
  <2>4. \A j \in Jobs, q \in Runs : seenAttempts'[q][j] <= failures[j]
    BY <1>a, <2>1
  <2> QED
    BY <1>0, <1>00, <2>1, <2>2, <2>3, <2>4 DEF AttemptInv, AttemptsAreFailures, FailedHasFailedOften
<1>6. ASSUME NEW r \in Runs, Recalculate(r)
      PROVE  AttemptInv'
  <2>1. UNCHANGED <<state, attempts, seenAttempts, failures>>
    BY <1>6 DEF Recalculate, docs
  <2> QED
    BY <1>0, <2>1 DEF AttemptInv, AttemptsAreFailures, FailedHasFailedOften
<1>7. ASSUME NEW r \in Runs, FinishPage(r)
      PROVE  AttemptInv'
  <2>1. Forget(r, {cur[r]}, "picking") /\ UNCHANGED <<attempts, failures>>
    BY <1>7 DEF FinishPage
  <2>2. \A j \in Jobs : state'[j] = "failed" => state[j] = "failed"
    BY <1>00, <1>7 DEF FinishPage
  <2>3. \A j \in Jobs, q \in Runs : seenAttempts'[q][j] <= failures[j]
    BY <1>a, <2>1
  <2> QED
    BY <1>0, <2>1, <2>2, <2>3 DEF AttemptInv, AttemptsAreFailures, FailedHasFailedOften
<1>8. ASSUME NEW r \in Runs, JobFails(r)
      PROVE  AttemptInv'
  <2> DEFINE j == cur[r]
  <2>1. /\ Forget(r, {j}, "picking")
        /\ attempts' = [attempts EXCEPT ![j] = Attempt(r)]
        /\ state' = [state EXCEPT ![j] = IF GivesUp(r) THEN "failed" ELSE @]
        /\ failures' = [failures EXCEPT ![j] = @ + 1]
    BY <1>8 DEF JobFails
  <2>2. j \in Jobs
    BY <1>0, <1>8, JobKinds DEF JobFails, JobInHand
  <2> HIDE DEF j
  <2>3. \A k \in Jobs : failures'[k] = IF k = j THEN failures[k] + 1 ELSE failures[k]
    BY <1>00, <2>1, <2>2
  <2>4. \A k \in Jobs : failures[k] \in Nat /\ failures'[k] \in Nat /\ failures[k] <= failures'[k]
    BY <1>00, <2>3
  <2>5. Attempt(r) \in Nat /\ Attempt(r) <= failures'[j]
    <3>1. seenAttempts[r][j] \in Nat /\ seenAttempts[r][j] <= failures[j]
      BY <1>0, <1>00, <2>2 DEF AttemptsAreFailures
    <3>2. Attempt(r) = seenAttempts[r][j] + 1
      BY DEF Attempt, j
    <3> QED
      BY <2>2, <2>3, <2>4, <3>1, <3>2
  <2>6. \A k \in Jobs : attempts'[k] <= failures'[k]
    <3>1. \A k \in Jobs : attempts'[k] = IF k = j THEN Attempt(r) ELSE attempts[k]
      BY <1>00, <2>1, <2>2
    <3>2. \A k \in Jobs : attempts[k] \in Nat /\ attempts[k] <= failures[k]
      BY <1>0, <1>00 DEF AttemptsAreFailures
    <3> QED
      BY <2>4, <2>5, <3>1, <3>2
  <2>7. \A k \in Jobs, q \in Runs : seenAttempts'[q][k] <= failures'[k]
    <3>1. \A k \in Jobs, q \in Runs : seenAttempts'[q][k] <= failures[k]
      BY <1>a, <2>1
    <3>2. \A k \in Jobs, q \in Runs : seenAttempts'[q][k] \in Nat
      <4>1. seenAttempts' \in [Runs -> [Jobs -> Nat]]
        BY <1>0, <2>1, ForgetTyped
      <4> QED
        BY <4>1
    <3> QED
      BY <2>4, <3>1, <3>2
  <2>8. ASSUME NEW k \in Jobs, state'[k] = "failed"
        PROVE  failures'[k] >= MaxAttempts
    <3>1. CASE state[k] = "failed"
      BY <1>0, <2>4, <3>1, JobsAssumption DEF FailedHasFailedOften
    <3>2. CASE state[k] # "failed"
      <4>1. k = j /\ GivesUp(r)
        BY <1>00, <2>1, <2>2, <2>8, <3>2
      <4> QED
        BY <2>4, <2>5, <4>1, JobsAssumption DEF GivesUp
    <3> QED
      BY <3>1, <3>2
  <2> QED
    BY <2>6, <2>7, <2>8 DEF AttemptInv, AttemptsAreFailures, FailedHasFailedOften
<1>9. CASE UNCHANGED vars
  BY <1>0, <1>9 DEF AttemptInv, AttemptsAreFailures, FailedHasFailedOften, vars, docs, run
<1> QED
  BY <1>1, <1>2, <1>3, <1>4, <1>5, <1>6, <1>7, <1>8, <1>9 DEF Next, RunStep

(* A job is failed only after MaxAttempts failures of its own, although    *)
(* the attempts are counted from snapshots and children are written anew.  *)
THEOREM GivenUpForGoodReason == Spec => []FailedHasFailedOften
<1>1. Init => AttemptInv
  BY DEF Init, AttemptInv, AttemptsAreFailures, FailedHasFailedOften
<1>2. AttemptInv => FailedHasFailedOften
  BY DEF AttemptInv
<1> QED
  BY <1>1, <1>2, NextAttempts, TypeInvAlways, PTL DEF Spec

-----------------------------------------------------------------------------
(* A completed job has done its work. *)

(* A step that starts no day behind a cursor, takes no day back and writes  *)
(* no leaf job's cursor.                                                    *)
LEMMA DaysStay ==
  ASSUME TypeInv, DaysBehindAreCovered, covered \subseteq covered',
         \A j \in Leaves : cursor'[j] = cursor[j] \/ cursor'[j] = 1,
         \A q \in Runs, j \in Leaves :
           \/ seenCursor'[q][j] = seenCursor[q][j]
           \/ seenCursor'[q][j] = cursor[j]
           \/ seenCursor'[q][j] = 0,
         \A q \in Runs : phase'[q] = "recalculate" =>
           \/ phase[q] = "recalculate" /\ cur'[q] = cur[q] /\ at'[q] = at[q]
           \/ cur'[q] \in Leaves /\ at'[q] = seenCursor[q][cur'[q]]
  PROVE  DaysBehindAreCovered'
<1> SUFFICES ASSUME NEW d \in Items
             PROVE  /\ \A j \in Leaves :
                         /\ d < cursor'[j] => <<j, d>> \in covered'
                         /\ \A q \in Runs : d < seenCursor'[q][j] => <<j, d>> \in covered'
                    /\ \A q \in Runs :
                         phase'[q] = "recalculate" /\ d < at'[q] => <<cur'[q], d>> \in covered'
  BY DEF DaysBehindAreCovered
<1>1. d \in Nat /\ ~(d < 1) /\ ~(d < 0)
  BY JobsAssumption DEF Items
<1>2. \A j \in Leaves :
        /\ d < cursor[j] => <<j, d>> \in covered
        /\ \A q \in Runs : d < seenCursor[q][j] => <<j, d>> \in covered
  BY DEF DaysBehindAreCovered
<1>3. \A q \in Runs : phase[q] = "recalculate" /\ d < at[q] => <<cur[q], d>> \in covered
  BY DEF DaysBehindAreCovered
<1>4. \A j \in Leaves : d < cursor'[j] => <<j, d>> \in covered'
  BY <1>1, <1>2
<1>5. \A j \in Leaves, q \in Runs : d < seenCursor'[q][j] => <<j, d>> \in covered'
  BY <1>1, <1>2
<1>6. \A q \in Runs :
        phase'[q] = "recalculate" /\ d < at'[q] => <<cur'[q], d>> \in covered'
  BY <1>2, <1>3
<1> QED
  BY <1>4, <1>5, <1>6

(* A step that deletes no job and writes no fan-out job's cursor. *)
LEMMA MembersStay ==
  ASSUME TypeInv, MembersBehindHaveJobs,
         \A j \in Jobs : state[j] # "none" => state'[j] # "none",
         \A p \in FanOuts : cursor'[<<p, 0>>] = cursor[<<p, 0>>],
         \A q \in Runs, p \in FanOuts :
           \/ seenCursor'[q][<<p, 0>>] = seenCursor[q][<<p, 0>>]
           \/ seenCursor'[q][<<p, 0>>] = cursor[<<p, 0>>]
           \/ seenCursor'[q][<<p, 0>>] = 0
  PROVE  MembersBehindHaveJobs'
<1> SUFFICES ASSUME NEW p \in FanOuts, NEW m \in Members
             PROVE  /\ m <= cursor'[<<p, 0>>] => state'[<<p, m>>] # "none"
                    /\ \A q \in Runs : m <= seenCursor'[q][<<p, 0>>] => state'[<<p, m>>] # "none"
  BY DEF MembersBehindHaveJobs
<1>1. m \in Nat /\ ~(m <= 0)
  BY JobsAssumption
<1>2. <<p, m>> \in Jobs
  BY JobKinds
<1>3. /\ m <= cursor[<<p, 0>>] => state[<<p, m>>] # "none"
      /\ \A q \in Runs : m <= seenCursor[q][<<p, 0>>] => state[<<p, m>>] # "none"
  BY DEF MembersBehindHaveJobs
<1> QED
  BY <1>1, <1>2, <1>3

(* A step that completes no job, deletes none and takes no day back. *)
LEMMA CompletedStays ==
  ASSUME CompletedIsCovered, covered \subseteq covered',
         \A j \in Jobs : state[j] # "none" => state'[j] # "none",
         \A j \in Jobs : state'[j] = "completed" => state[j] = "completed"
  PROVE  CompletedIsCovered'
<1>1. ASSUME NEW j \in Leaves, state'[j] = "completed", NEW d \in Items
      PROVE  <<j, d>> \in covered'
  BY <1>1, JobKinds DEF CompletedIsCovered
<1>2. ASSUME NEW p \in FanOuts, state'[<<p, 0>>] = "completed", NEW m \in Members
      PROVE  state'[<<p, m>>] # "none"
  <2>1. <<p, 0>> \in FanOuts \X {0}
    OBVIOUS
  <2>2. <<p, 0>> \in Jobs /\ <<p, m>> \in Jobs
    BY <2>1, JobKinds
  <2> QED
    BY <1>2, <2>2 DEF CompletedIsCovered
<1> QED
  BY <1>1, <1>2 DEF CompletedIsCovered

(* The roots of the fan-out jobs are jobs and no leaves. *)
LEMMA FanOutRoots == \A p \in FanOuts : <<p, 0>> \in Jobs /\ <<p, 0>> \notin Leaves
<1> SUFFICES ASSUME NEW p \in FanOuts
             PROVE  <<p, 0>> \in Jobs /\ <<p, 0>> \notin Leaves
  OBVIOUS
<1>1. <<p, 0>> \in FanOuts \X {0}
  OBVIOUS
<1> QED
  BY <1>1, JobKinds

(* Every step keeps what lies behind the cursors, and completes a job only *)
(* when nothing is ahead.                                                  *)
LEMMA NextCovers == TypeInv /\ CoverInv /\ [Next]_vars => CoverInv'
<1> SUFFICES ASSUME TypeInv, CoverInv, [Next]_vars PROVE CoverInv'
  OBVIOUS
<1>0. /\ TypeOK /\ JobInHand /\ CursorsAreDays
      /\ DaysBehindAreCovered /\ MembersBehindHaveJobs /\ CompletedIsCovered
  BY DEF TypeInv, CoverInv
<1>00. /\ cursor \in [Jobs -> Nat] /\ at \in [Runs -> Nat]
       /\ state \in [Jobs -> {"none", "pending", "completed", "failed"}]
       /\ seenCursor \in [Runs -> [Jobs -> Nat]]
       /\ Leaves \subseteq Jobs
  BY <1>0, JobKinds DEF TypeOK
<1>1. ASSUME NEW j \in Roots, Create(j)
      PROVE  CoverInv'
  <2>1. state' = [state EXCEPT ![j] = "pending"] /\ UNCHANGED <<cursor, phase, cur, at, seenCursor, covered>>
    BY <1>1 DEF Create, run
  <2>2. \A k \in Jobs : state'[k] = state[k] \/ state'[k] = "pending"
    BY <1>00, <2>1
  <2>3. DaysBehindAreCovered'
    BY <1>0, <2>1 DEF DaysBehindAreCovered
  <2>4. MembersBehindHaveJobs'
    BY <1>0, <2>1, <2>2, FanOutRoots, MembersStay
  <2>5. CompletedIsCovered'
    BY <1>0, <2>1, <2>2, CompletedStays
  <2> QED
    BY <2>3, <2>4, <2>5 DEF CoverInv
<1>2. ASSUME NEW r \in Runs, StartRun(r)
      PROVE  CoverInv'
  <2>1. /\ phase' = [phase EXCEPT ![r] = "picking"]
        /\ seenCursor' = [seenCursor EXCEPT ![r] =
                            [j \in Jobs |-> IF j \in Queried THEN cursor[j] ELSE 0]]
        /\ UNCHANGED <<state, cursor, cur, at, covered>>
    BY <1>2 DEF StartRun, docs
  <2>2. \A q \in Runs, j \in Jobs : \/ seenCursor'[q][j] = seenCursor[q][j]
                                   \/ seenCursor'[q][j] = cursor[j]
                                   \/ seenCursor'[q][j] = 0
    BY <1>00, <2>1
  <2>3. \A q \in Runs : phase'[q] = "recalculate" => phase[q] = "recalculate"
    BY <1>0, <2>1 DEF TypeOK
  <2>4. DaysBehindAreCovered'
    BY <1>0, <1>00, <2>1, <2>2, <2>3, DaysStay
  <2>5. MembersBehindHaveJobs'
    BY <1>0, <2>1, <2>2, FanOutRoots, MembersStay
  <2>6. CompletedIsCovered'
    BY <1>0, <2>1, CompletedStays
  <2> QED
    BY <2>4, <2>5, <2>6 DEF CoverInv
<1>3. ASSUME NEW r \in Runs, PickJob(r)
      PROVE  CoverInv'
  <2>1. PICK j \in todo[r] :
          /\ cur' = [cur EXCEPT ![r] = j]
          /\ at' = [at EXCEPT ![r] = seenCursor[r][j]]
          /\ phase' = [phase EXCEPT ![r] = IF j \in Leaves THEN "recalculate" ELSE "fan out"]
    BY <1>3 DEF PickJob
  <2>2. UNCHANGED <<state, cursor, seenCursor, covered>>
    BY <1>3 DEF PickJob, docs
  <2>3. ASSUME NEW q \in Runs, phase'[q] = "recalculate"
        PROVE  \/ phase[q] = "recalculate" /\ cur'[q] = cur[q] /\ at'[q] = at[q]
               \/ cur'[q] \in Leaves /\ at'[q] = seenCursor[q][cur'[q]]
    BY <1>0, <2>1, <2>3 DEF TypeOK
  <2>4. DaysBehindAreCovered'
    BY <1>0, <2>2, <2>3, DaysStay
  <2> QED
    BY <1>0, <2>2, <2>4 DEF CoverInv, MembersBehindHaveJobs, CompletedIsCovered
<1>4. ASSUME NEW r \in Runs, NEW js, NEW p \in {"idle", "picking"}, Forget(r, js, p)
      PROVE  /\ \A q \in Runs, j \in Jobs : seenCursor'[q][j] = seenCursor[q][j] \/ seenCursor'[q][j] = 0
             /\ \A q \in Runs : phase'[q] = "recalculate" =>
                  phase[q] = "recalculate" /\ cur'[q] = cur[q] /\ at'[q] = at[q]
  <2>1. Forgets(r, js, p)
    BY <1>0, <1>4, ForgetTyped
  <2> QED
    BY <2>1 DEF Forgets
<1>5. ASSUME NEW r \in Runs, EndRun(r) \/ RunDies(r)
      PROVE  CoverInv'
  <2>1. Forget(r, Jobs, "idle") /\ UNCHANGED <<state, cursor, covered>>
    BY <1>5 DEF EndRun, RunDies, docs
  <2>2. DaysBehindAreCovered'
    BY <1>0, <1>00, <1>4, <2>1, DaysStay
  <2>3. MembersBehindHaveJobs'
    BY <1>0, <1>4, <2>1, FanOutRoots, MembersStay
  <2> QED
    BY <1>0, <2>1, <2>2, <2>3 DEF CoverInv, CompletedIsCovered
<1>6. ASSUME NEW r \in Runs, FanOut(r)
      PROVE  CoverInv'
  <2>1. Forget(r, {cur[r]}, "picking") /\ UNCHANGED covered
    BY <1>6 DEF FanOut
  <2>2. PICK p \in FanOuts :
           /\ \A j \in Jobs : state[j] # "none" => state'[j] # "none"
           /\ \A j \in Jobs : state'[j] = "completed" => state[j] = "completed" \/ j = <<p, 0>>
           /\ state'[<<p, 0>>] = "completed" =>
                 \A m \in Members : m > seenCursor[r][<<p, 0>>] => state'[<<p, m>>] # "none"
           /\ \A m \in Members :
                 m <= cursor'[<<p, 0>>] =>
                   \/ m <= cursor[<<p, 0>>] \/ m <= seenCursor[r][<<p, 0>>]
                   \/ state'[<<p, m>>] # "none"
           /\ \A j \in Jobs \ {<<p, 0>>} : cursor'[j] = cursor[j] \/ (j \in Leaves /\ cursor'[j] = 1)
    BY <1>6, FanOutWrites, Zenon
  <2>3. <<p, 0>> \in Jobs /\ <<p, 0>> \notin Leaves
    BY FanOutRoots
  <2>4. \A j \in Leaves : cursor'[j] = cursor[j] \/ cursor'[j] = 1
    BY <1>00, <2>2, <2>3
  <2>5. DaysBehindAreCovered'
    BY <1>0, <1>00, <1>4, <2>1, <2>4, DaysStay
  <2>6. ASSUME NEW g \in FanOuts, NEW m \in Members
        PROVE  /\ state[<<g, m>>] # "none" => state'[<<g, m>>] # "none"
               /\ m <= cursor[<<g, 0>>] => state[<<g, m>>] # "none"
               /\ \A q \in Runs : m <= seenCursor[q][<<g, 0>>] => state[<<g, m>>] # "none"
    BY <1>0, <2>2, JobKinds DEF MembersBehindHaveJobs
  <2>7. MembersBehindHaveJobs'
    <3>1. ASSUME NEW g \in FanOuts, NEW m \in Members, m <= cursor'[<<g, 0>>]
          PROVE  state'[<<g, m>>] # "none"
      <4>1. CASE g = p
        BY <2>2, <2>6, <3>1, <4>1
      <4>2. CASE g # p
        <5>1. <<g, 0>> \in Jobs \ {<<p, 0>>} /\ <<g, 0>> \notin Leaves
          BY <4>2, FanOutRoots
        <5> QED
          BY <2>2, <2>6, <3>1, <5>1
      <4> QED
        BY <4>1, <4>2
    <3>2. ASSUME NEW g \in FanOuts, NEW m \in Members, NEW q \in Runs, m <= seenCursor'[q][<<g, 0>>]
          PROVE  state'[<<g, m>>] # "none"
      <4>1. seenCursor'[q][<<g, 0>>] = seenCursor[q][<<g, 0>>] \/ seenCursor'[q][<<g, 0>>] = 0
        BY <1>4, <2>1, FanOutRoots
      <4>2. ~(m <= 0)
        BY JobsAssumption
      <4> QED
        BY <2>6, <3>2, <4>1, <4>2
    <3> QED
      BY <3>1, <3>2 DEF MembersBehindHaveJobs
  <2>8. CompletedIsCovered'
    <3>1. ASSUME NEW j \in Leaves, state'[j] = "completed", NEW d \in Items
          PROVE  <<j, d>> \in covered'
      BY <1>0, <1>00, <2>1, <2>2, <2>3, <3>1 DEF CompletedIsCovered
    <3>2. ASSUME NEW g \in FanOuts, state'[<<g, 0>>] = "completed", NEW m \in Members
          PROVE  state'[<<g, m>>] # "none"
      <4>1. CASE g = p
        <5>1. seenCursor[r][<<p, 0>>] \in Nat /\ m \in Nat
          BY <1>00, <2>3, JobsAssumption
        <5>2. m > seenCursor[r][<<p, 0>>] \/ m <= seenCursor[r][<<p, 0>>]
          BY <5>1
        <5> QED
          BY <2>2, <2>6, <3>2, <4>1, <5>2
      <4>2. CASE g # p
        <5>1. state[<<g, 0>>] = "completed"
          BY <2>2, <3>2, <4>2, FanOutRoots
        <5> QED
          BY <1>0, <2>6, <5>1 DEF CompletedIsCovered
      <4> QED
        BY <4>1, <4>2
    <3> QED
      BY <3>1, <3>2 DEF CompletedIsCovered
  <2> QED
    BY <2>5, <2>7, <2>8 DEF CoverInv
<1>7. ASSUME NEW r \in Runs, Recalculate(r)
      PROVE  CoverInv'
  <2>1. /\ phase[r] = "recalculate" /\ covered' = covered \union {<<cur[r], at[r]>>}
        /\ at' = [at EXCEPT ![r] = @ + 1]
        /\ UNCHANGED <<state, cursor, phase, cur, seenCursor>>
    BY <1>7 DEF Recalculate, docs
  <2>2. ASSUME NEW d \in Items, NEW q \in Runs, phase[q] = "recalculate", d < at'[q]
        PROVE  <<cur[q], d>> \in covered'
    <3>1. CASE d < at[q]
      BY <1>0, <2>1, <2>2, <3>1 DEF DaysBehindAreCovered
    <3>2. CASE ~(d < at[q])
      <4>1. d \in Nat /\ at[q] \in Nat
        BY <1>00, JobsAssumption DEF Items
      <4>2. at'[q] = IF q = r THEN at[q] + 1 ELSE at[q]
        BY <1>00, <2>1
      <4>3. q = r /\ d = at[r]
        BY <2>2, <3>2, <4>1, <4>2
      <4> QED
        BY <2>1, <4>3
    <3> QED
      BY <3>1, <3>2
  <2>3. DaysBehindAreCovered'
    BY <1>0, <2>1, <2>2 DEF DaysBehindAreCovered
  <2>4. MembersBehindHaveJobs' /\ CompletedIsCovered'
    BY <1>0, <2>1 DEF MembersBehindHaveJobs, CompletedIsCovered
  <2> QED
    BY <2>3, <2>4 DEF CoverInv
<1>8. ASSUME NEW r \in Runs, FinishPage(r)
      PROVE  CoverInv'
  <2> DEFINE j == cur[r]
  <2>1. /\ phase[r] = "recalculate" /\ ~InPage(r)
        /\ state' = [state EXCEPT ![j] = IF LastPage(r) THEN "completed" ELSE "pending"]
        /\ Forget(r, {j}, "picking") /\ UNCHANGED covered
    BY <1>8 DEF FinishPage
  <2>2. j \in Leaves /\ j \in Jobs /\ at[r] \in Nat /\ at[r] >= 1
    BY <1>0, <1>00, <2>1 DEF JobInHand
  <2>3. \A d \in Items : d < at[r] => <<j, d>> \in covered
    BY <1>0, <2>1 DEF DaysBehindAreCovered
  <2>4. \A k \in Jobs : cursor'[k] = cursor[k] \/ (k = j /\ cursor'[k] = at[r])
    BY <1>00, <1>8, <2>2 DEF FinishPage, CursorAfter
  <2>5. LastPage(r) => \A d \in Items : <<j, d>> \in covered
    <3>1. seenCursor[r][j] \in Nat
      BY <1>00, <2>2
    <3>2. ASSUME LastPage(r), NEW d \in Items
          PROVE  d < at[r]
      <4>1. at[r] > LastItem
        BY <2>1, <2>2, <3>2, JobsAssumption DEF LastPage, InPage, Items
      <4> QED
        BY <2>2, <4>1, JobsAssumption DEF Items
    <3> QED
      BY <2>3, <3>2
  <2> HIDE DEF j
  <2>6. \A q \in Runs, k \in Jobs : seenCursor'[q][k] = seenCursor[q][k] \/ seenCursor'[q][k] = 0
    BY <1>4, <2>1
  <2>7. \A q \in Runs : phase'[q] = "recalculate" =>
                  phase[q] = "recalculate" /\ cur'[q] = cur[q] /\ at'[q] = at[q]
    BY <1>4, <2>1
  <2>8. DaysBehindAreCovered'
    <3>1. ASSUME NEW d \in Items, NEW k \in Leaves, d < cursor'[k]
          PROVE  <<k, d>> \in covered'
      BY <1>0, <1>00, <2>1, <2>3, <2>4, <3>1 DEF DaysBehindAreCovered
    <3>2. ASSUME NEW d \in Items, NEW k \in Leaves, NEW q \in Runs, d < seenCursor'[q][k]
          PROVE  <<k, d>> \in covered'
      <4>1. ~(d < 0)
        BY JobsAssumption DEF Items
      <4> QED
        BY <1>0, <1>00, <2>1, <2>6, <3>2, <4>1 DEF DaysBehindAreCovered
    <3>3. ASSUME NEW d \in Items, NEW q \in Runs, phase'[q] = "recalculate", d < at'[q]
          PROVE  <<cur'[q], d>> \in covered'
      BY <1>0, <2>1, <2>7, <3>3 DEF DaysBehindAreCovered
    <3> QED
      BY <3>1, <3>2, <3>3 DEF DaysBehindAreCovered
  <2>9. \A k \in Jobs : state'[k] = IF k = j THEN IF LastPage(r) THEN "completed" ELSE "pending" ELSE state[k]
    BY <1>00, <2>1, <2>2
  <2>10. \A p \in FanOuts : cursor'[<<p, 0>>] = cursor[<<p, 0>>] /\ state'[<<p, 0>>] = state[<<p, 0>>]
    BY <2>2, <2>4, <2>9, FanOutRoots
  <2>11. \A k \in Jobs : state[k] # "none" => state'[k] # "none"
    BY <2>9
  <2>12. MembersBehindHaveJobs'
    BY <1>0, <2>6, <2>10, <2>11, FanOutRoots, MembersStay
  <2>13. CompletedIsCovered'
    <3>1. ASSUME NEW k \in Leaves, state'[k] = "completed", NEW d \in Items
          PROVE  <<k, d>> \in covered'
      <4>1. CASE k = j
        BY <2>1, <2>2, <2>5, <2>9, <3>1, <4>1
      <4>2. CASE k # j
        BY <1>0, <1>00, <2>1, <2>9, <3>1, <4>2 DEF CompletedIsCovered
      <4> QED
        BY <4>1, <4>2
    <3>2. ASSUME NEW p \in FanOuts, state'[<<p, 0>>] = "completed", NEW m \in Members
          PROVE  state'[<<p, m>>] # "none"
      BY <1>0, <2>10, <2>11, <3>2, JobKinds DEF CompletedIsCovered
    <3> QED
      BY <3>1, <3>2 DEF CompletedIsCovered
  <2> QED
    BY <2>8, <2>12, <2>13 DEF CoverInv
<1>9. ASSUME NEW r \in Runs, JobFails(r)
      PROVE  CoverInv'
  <2>1. /\ state' = [state EXCEPT ![cur[r]] = IF GivesUp(r) THEN "failed" ELSE @]
        /\ Forget(r, {cur[r]}, "picking") /\ UNCHANGED <<cursor, covered>>
    BY <1>9 DEF JobFails
  <2>2. \A k \in Jobs : state'[k] = state[k] \/ state'[k] = "failed"
    BY <1>00, <2>1
  <2>3. DaysBehindAreCovered'
    BY <1>0, <1>00, <1>4, <2>1, DaysStay
  <2>4. MembersBehindHaveJobs'
    BY <1>0, <1>4, <2>1, <2>2, FanOutRoots, MembersStay
  <2>5. CompletedIsCovered'
    BY <1>0, <2>1, <2>2, CompletedStays
  <2> QED
    BY <2>3, <2>4, <2>5 DEF CoverInv
<1>10. CASE UNCHANGED vars
  BY <1>0, <1>10 DEF CoverInv, DaysBehindAreCovered, MembersBehindHaveJobs, CompletedIsCovered,
                     vars, docs, run
<1> QED
  BY <1>1, <1>2, <1>3, <1>5, <1>6, <1>7, <1>8, <1>9, <1>10 DEF Next, RunStep

(* A completed job has recalculated all of its days, or has a job for every *)
(* member, whatever invocations overlap, repeat pages or die.               *)
THEOREM CompletedDidItsWork == Spec => []CompletedIsCovered
<1>1. Init => CoverInv
  <2> SUFFICES ASSUME Init PROVE CoverInv
    OBVIOUS
  <2>2. DaysBehindAreCovered
    BY JobKinds, JobsAssumption DEF Init, Start, DaysBehindAreCovered, Items
  <2>3. MembersBehindHaveJobs
    <3>1. \A p \in FanOuts : cursor[<<p, 0>>] = 0 /\ \A r \in Runs : seenCursor[r][<<p, 0>>] = 0
      BY FanOutRoots DEF Init, Start
    <3>2. \A m \in Members : ~(m <= 0)
      BY JobsAssumption
    <3> QED
      BY <3>1, <3>2 DEF MembersBehindHaveJobs
  <2>4. CompletedIsCovered
    BY JobKinds, FanOutRoots DEF Init, CompletedIsCovered
  <2> QED
    BY <2>2, <2>3, <2>4 DEF CoverInv
<1>2. CoverInv => CompletedIsCovered
  BY DEF CoverInv
<1> QED
  BY <1>1, <1>2, NextCovers, TypeInvAlways, PTL DEF Spec

=============================================================================
