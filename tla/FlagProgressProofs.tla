------------------------- MODULE FlagProgressProofs -------------------------
(***************************************************************************)
(* The award is exact, and max_attempts is exceeded by a bounded number,   *)
(* for any number of flags, members, admins and requests.                  *)
(***************************************************************************)
EXTENDS FlagProgress, FiniteSetTheorems, TLAPS

USE FlagsAssumption

\* What owner_progress concludes from its count.
LEMMA WholeSet ==
  ASSUME NEW S \in SUBSET Flags, Cardinality(S) >= Cardinality(Flags)
  PROVE  S = Flags
<1>1. /\ Cardinality(S) <= Cardinality(Flags)
      /\ Cardinality(S) = Cardinality(Flags) => S = Flags
  BY FS_Subset
<1>2. Cardinality(S) \in Nat /\ Cardinality(Flags) \in Nat
  BY FS_Subset, FS_CardinalityType
<1> QED BY <1>1, <1>2

\* What attempt() concludes from its count.
LEMMA LastFlag ==
  ASSUME NEW S \in SUBSET Flags, NEW f \in Flags \ S,
         Cardinality(S) + 1 >= Cardinality(Flags)
  PROVE  S \cup {f} = Flags
<1>1. IsFiniteSet(S)
  BY FS_Subset
<1>2. Cardinality(S \cup {f}) = Cardinality(S) + 1
  BY <1>1, FS_AddElement
<1> QED BY <1>2, WholeSet

\* What a process knows of its next step: where it is and what it holds.
MoveOK(l, m) == l \in Pcs /\ m \in LocType /\ (l \in {"record", "credit"} => m.sub \in Flags)

LEMMA TypeMove ==
  ASSUME TypeOK, NEW p \in Procs, NEW l, NEW m, Goto(p, l, m), MoveOK(l, m)
  PROVE  /\ pc' \in [Procs -> Pcs]
         /\ loc' \in [Procs -> LocType]
         /\ \A q \in Procs : pc'[q] \in {"record", "credit"} => loc'[q].sub \in Flags
BY DEF TypeOK, Goto, MoveOK

LEMMA MoveOf ==
  /\ MoveOK("idle", NoLoc)
  /\ \A s \in Flags \cup {Wrong} : MoveOK("fail", [NoLoc EXCEPT !.sub = s])
  /\ \A s \in Flags : /\ MoveOK("record", [NoLoc EXCEPT !.sub = s])
                     /\ MoveOK("credit", [NoLoc EXCEPT !.sub = s])
  /\ TypeOK => \A p \in Procs : /\ MoveOK("progress", loc[p])
                               /\ MoveOK("award", loc[p])
                               /\ MoveOK("solve", [loc[p] EXCEPT !.seen = solved])
<1>1. MoveOK("idle", NoLoc)
  BY DEF MoveOK, NoLoc, LocType, Pcs
<1>2. ASSUME NEW s \in Flags \cup {Wrong}
      PROVE  [NoLoc EXCEPT !.sub = s] \in LocType /\ [NoLoc EXCEPT !.sub = s].sub = s
  BY DEF NoLoc, LocType
<1>3. ASSUME TypeOK, NEW p \in Procs
      PROVE  loc[p] \in LocType /\ [loc[p] EXCEPT !.seen = solved] \in LocType
  <2>1. loc[p] \in LocType /\ solved \in BOOLEAN
    BY <1>3 DEF TypeOK
  <2> QED BY <2>1 DEF LocType
<1>4. {"idle", "record", "progress", "solve", "fail", "credit", "award"} = Pcs
  BY DEF Pcs
<1>5. \A s \in Flags \cup {Wrong} : MoveOK("fail", [NoLoc EXCEPT !.sub = s])
  BY <1>2, <1>4 DEF MoveOK
<1>6. \A s \in Flags : /\ MoveOK("record", [NoLoc EXCEPT !.sub = s])
                      /\ MoveOK("credit", [NoLoc EXCEPT !.sub = s])
  BY <1>2, <1>4 DEF MoveOK
<1>7. TypeOK => \A p \in Procs : /\ MoveOK("progress", loc[p])
                                /\ MoveOK("award", loc[p])
                                /\ MoveOK("solve", [loc[p] EXCEPT !.seen = solved])
  BY <1>3, <1>4 DEF MoveOK
<1> QED BY <1>1, <1>5, <1>6, <1>7

LEMMA TypeInit == Init => TypeOK
<1> SUFFICES ASSUME Init PROVE TypeOK
  OBVIOUS
<1>1. NoLoc \in LocType /\ "idle" \in Pcs
  BY DEF NoLoc, LocType, Pcs
<1>2. /\ pc \in [Procs -> Pcs] /\ loc \in [Procs -> LocType]
      /\ \A p \in Procs : pc[p] = "idle"
  BY <1>1 DEF Init
<1>3. calls \in 0..MaxCalls /\ deaths \in 0..MaxDeaths
  BY DEF Init
<1> QED BY <1>2, <1>3 DEF Init, TypeOK

LEMMA TypeStep == TypeOK /\ [Next]_vars => TypeOK'
<1> SUFFICES ASSUME TypeOK, [Next]_vars PROVE TypeOK'
  OBVIOUS
<1> DEFINE Moved == /\ pc' \in [Procs -> Pcs]
                    /\ loc' \in [Procs -> LocType]
                    /\ \A q \in Procs : pc'[q] \in {"record", "credit"} => loc'[q].sub \in Flags
<1>1. CASE UNCHANGED vars
  BY <1>1 DEF vars, TypeOK
<1>2. ASSUME NEW p \in Procs, Submit(p) PROVE TypeOK'
  <2>1. Moved
    <3>1. PICK s \in Flags \cup {Wrong} :
             \/ Return(p)
             \/ Goto(p, "fail", [NoLoc EXCEPT !.sub = s])
             \/ s \in Flags /\ Goto(p, "record", [NoLoc EXCEPT !.sub = s])
      BY <1>2 DEF Submit
    <3> QED BY <3>1, TypeMove, MoveOf DEF Return
  <2> QED BY <1>2, <2>1 DEF Submit, Enter, TypeOK
<1>3. ASSUME NEW p \in Procs, Native(p) PROVE TypeOK'
  <2>1. Moved
    <3>1. PICK s \in Flags \cup {Wrong} :
             Goto(p, IF Completes(s) THEN "credit" ELSE "fail", [NoLoc EXCEPT !.sub = s])
      BY <1>3 DEF Native
    <3>2. CASE Completes(s)
      BY <3>1, <3>2, TypeMove, MoveOf DEF Completes
    <3>3. CASE ~ Completes(s)
      BY <3>1, <3>3, TypeMove, MoveOf
    <3> QED BY <3>2, <3>3
  <2> QED BY <1>3, <2>1 DEF Native, Enter, TypeOK
<1>4. ASSUME NEW p \in Procs, Record(p) \/ Credit(p) PROVE TypeOK'
  <2>1. loc[p].sub \in Flags
    BY <1>4 DEF Record, Credit, TypeOK
  <2>2. Moved
    BY <1>4, TypeMove, MoveOf DEF Record, Credit, Return
  <2> QED BY <1>4, <2>1, <2>2 DEF Record, Credit, TypeOK
<1>5. ASSUME NEW p \in Procs, Progress(p) \/ Award(p) PROVE TypeOK'
  <2>1. Moved
    BY <1>5, TypeMove, MoveOf DEF Progress, Award, Return
  <2> QED BY <1>5, <2>1 DEF Progress, Award, TypeOK
<1>6. ASSUME NEW p \in Procs, InsertSolve(p) \/ InsertFail(p) PROVE TypeOK'
  <2>1. Moved
    BY <1>6, TypeMove, MoveOf DEF InsertSolve, InsertFail, Return
  <2>2. CASE InsertSolve(p)
    <3>1. solved' \in BOOLEAN
      BY <2>2 DEF InsertSolve
    <3> QED BY <2>1, <2>2, <3>1 DEF InsertSolve, TypeOK
  <2>3. CASE InsertFail(p)
    BY <2>1, <2>3 DEF InsertFail, TypeOK
  <2> QED BY <1>6, <2>2, <2>3
<1>7. ASSUME NEW p \in Procs, Reset(p) PROVE TypeOK'
  <2>1. calls' \in 0..MaxCalls
    BY <1>7 DEF Reset, Enter, TypeOK
  <2>2. found' \subseteq Flags /\ resets' \in Nat
    BY <1>7 DEF Reset, TypeOK
  <2>3. solved' \in BOOLEAN
    BY <1>7 DEF Reset
  <2> QED BY <1>7, <2>1, <2>2, <2>3 DEF Reset, TypeOK
<1>8. ASSUME NEW p \in Procs, Die(p) PROVE TypeOK'
  <2>1. Moved
    BY <1>8, TypeMove, MoveOf DEF Die, Return
  <2> QED BY <1>8, <2>1 DEF Die, TypeOK
<1> QED BY <1>1, <1>2, <1>3, <1>4, <1>5, <1>6, <1>7, <1>8 DEF Next, Continue

-----------------------------------------------------------------------------
\* The award.

\* A step of a process leaves the next step and the locals of all others alone.
Only(p) == \A q \in Procs \ {p} : pc'[q] = pc[q] /\ loc'[q] = loc[q]

LEMMA OverStep == TypeOK /\ OverInv /\ [Next]_vars => OverInv'
<1> SUFFICES ASSUME TypeOK, OverInv, [Next]_vars, resets' = 0 PROVE
       /\ solved' => found' = Flags
       /\ \A q \in Procs : pc'[q] \in {"award", "solve"} => found' = Flags
       /\ \A q \in Procs : pc'[q] = "credit" => found' \cup {loc'[q].sub} = Flags
  BY DEF OverInv
<1> DEFINE P(q) == /\ pc'[q] \in {"award", "solve"} => found' = Flags
                   /\ pc'[q] = "credit" => found' \cup {loc'[q].sub} = Flags
<1>0. /\ resets = 0 /\ solved => found = Flags
      /\ \A q \in Procs : resets = 0 /\ pc[q] \in {"award", "solve"} => found = Flags
      /\ \A q \in Procs : resets = 0 /\ pc[q] = "credit" => found \cup {loc[q].sub} = Flags
      /\ found \subseteq Flags
      /\ pc \in [Procs -> Pcs] /\ loc \in [Procs -> LocType]
  BY DEF OverInv, TypeOK
<1>1. CASE UNCHANGED vars
  <2>1. /\ found' = found /\ solved' = solved /\ resets' = resets
        /\ pc' = pc /\ loc' = loc
    BY <1>1 DEF vars
  <2> QED BY <1>0, <2>1
<1>2. ASSUME NEW p \in Procs, Reset(p) PROVE FALSE
  BY <1>2 DEF Reset, TypeOK
<1>3. ASSUME NEW p \in Procs, resets = 0, found \subseteq found', found' \subseteq Flags, Only(p)
      PROVE  \A q \in Procs \ {p} : P(q)
  <2> SUFFICES ASSUME NEW q \in Procs \ {p} PROVE P(q)
    OBVIOUS
  <2>1. pc'[q] = pc[q] /\ loc'[q] = loc[q]
    BY <1>3 DEF Only
  <2>2. pc[q] \in {"award", "solve"} => found' = Flags
    BY <1>0, <1>3
  <2>3. pc[q] = "credit" => found' \cup {loc[q].sub} = Flags
    <3>1. pc[q] = "credit" => found \cup {loc[q].sub} = Flags
      BY <1>0, <1>3
    <3> QED BY <1>3, <3>1
  <2> QED BY <2>1, <2>2, <2>3
<1>4. ASSUME NEW p \in Procs, NEW l, NEW m, Goto(p, l, m)
      PROVE  Only(p) /\ pc'[p] = l /\ loc'[p] = m
  BY <1>0, <1>4 DEF Goto, Only
<1>5. ASSUME NEW p \in Procs, Submit(p) PROVE (solved' => found' = Flags) /\ \A q \in Procs : P(q)
  <2>1. UNCHANGED <<found, solved, resets>>
    BY <1>5 DEF Submit
  <2>2. \E l, m : Goto(p, l, m) /\ l \in {"idle", "fail", "record"}
    BY <1>5 DEF Submit, Return
  <2>3. Only(p) /\ P(p)
    BY <2>2, <1>4
  <2> QED BY <1>0, <1>3, <2>1, <2>3
<1>6. ASSUME NEW p \in Procs, Native(p) PROVE (solved' => found' = Flags) /\ \A q \in Procs : P(q)
  <2>1. UNCHANGED <<found, solved, resets>>
    BY <1>6 DEF Native
  <2>2. PICK s \in Flags \cup {Wrong} :
           Goto(p, IF Completes(s) THEN "credit" ELSE "fail", [NoLoc EXCEPT !.sub = s])
    BY <1>6 DEF Native
  <2>3. Completes(s) => found \cup {s} = Flags
    BY <1>0, LastFlag DEF Completes
  <2>4. [NoLoc EXCEPT !.sub = s].sub = s
    BY DEF NoLoc
  <2>5. Only(p) /\ P(p)
    <3>1. CASE Completes(s)
      <4>1. Goto(p, "credit", [NoLoc EXCEPT !.sub = s])
        BY <2>2, <3>1
      <4>2. Only(p) /\ pc'[p] = "credit" /\ loc'[p].sub = s
        BY <4>1, <2>4, <1>4
      <4> QED BY <2>1, <2>3, <3>1, <4>2
    <3>2. CASE ~ Completes(s)
      BY <2>2, <1>4, <3>2
    <3> QED BY <3>1, <3>2
  <2> QED BY <1>0, <1>3, <2>1, <2>5
<1>7. ASSUME NEW p \in Procs, Record(p) PROVE (solved' => found' = Flags) /\ \A q \in Procs : P(q)
  <2>1. UNCHANGED <<solved, resets>> /\ found \subseteq found' /\ found' \subseteq Flags
    BY <1>7 DEF Record, TypeOK
  <2>2. Only(p) /\ pc'[p] \in {"idle", "progress"}
    BY <1>7, <1>4 DEF Record, Return
  <2> QED BY <1>0, <1>3, <2>1, <2>2
<1>8. ASSUME NEW p \in Procs, Progress(p) PROVE (solved' => found' = Flags) /\ \A q \in Procs : P(q)
  <2>1. UNCHANGED <<found, solved, resets>>
    BY <1>8 DEF Progress
  <2>2. Cardinality(found) >= Cardinality(Flags) => found = Flags
    BY <1>0, WholeSet
  <2>3. /\ Only(p)
        /\ \/ pc'[p] = "idle"
           \/ pc'[p] = "solve" /\ Cardinality(found) >= Cardinality(Flags)
    BY <1>8, <1>4 DEF Progress, Return
  <2> QED BY <1>0, <1>3, <2>1, <2>2, <2>3
<1>9. ASSUME NEW p \in Procs, Credit(p) PROVE (solved' => found' = Flags) /\ \A q \in Procs : P(q)
  <2>1. UNCHANGED <<solved, resets>> /\ found \subseteq found' /\ found' \subseteq Flags
    BY <1>9 DEF Credit, TypeOK
  <2>2. pc[p] = "credit"
    BY <1>9 DEF Credit
  <2>3. CASE loc[p].sub \in found
    BY <1>0, <1>3, <1>4, <1>9, <2>1, <2>3 DEF Credit, Return
  <2>4. CASE found' = found \cup {loc[p].sub} /\ Goto(p, "award", loc[p])
    BY <1>0, <1>3, <1>4, <2>1, <2>2, <2>4
  <2> QED BY <1>9, <2>3, <2>4 DEF Credit
<1>10. ASSUME NEW p \in Procs, Award(p) PROVE (solved' => found' = Flags) /\ \A q \in Procs : P(q)
  <2>1. UNCHANGED <<found, solved, resets>> /\ pc[p] = "award"
    BY <1>10 DEF Award
  <2>2. Only(p) /\ pc'[p] = "solve"
    BY <1>10, <1>4 DEF Award
  <2> QED BY <1>0, <1>3, <2>1, <2>2
<1>11. ASSUME NEW p \in Procs, InsertSolve(p)
       PROVE  (solved' => found' = Flags) /\ \A q \in Procs : P(q)
  <2>1. UNCHANGED <<found, resets>> /\ pc[p] = "solve"
    BY <1>11 DEF InsertSolve
  <2>2. Only(p) /\ P(p)
    BY <1>11, <1>4 DEF InsertSolve, Return
  <2>3. found' = Flags /\ resets = 0 /\ found \subseteq found'
    BY <1>0, <2>1
  <2> QED BY <1>3, <2>2, <2>3
<1>12. ASSUME NEW p \in Procs, InsertFail(p) \/ Die(p)
       PROVE  (solved' => found' = Flags) /\ \A q \in Procs : P(q)
  <2>1. UNCHANGED <<found, solved, resets>>
    BY <1>12 DEF InsertFail, Die
  <2>2. Only(p) /\ P(p)
    BY <1>12, <1>4 DEF InsertFail, Die, Return
  <2> QED BY <1>0, <1>3, <2>1, <2>2
<1> QED BY <1>1, <1>2, <1>5, <1>6, <1>7, <1>8, <1>9, <1>10, <1>11, <1>12 DEF Next, Continue

LEMMA UnderStep == TypeOK /\ NoUnderAward /\ [Next]_vars => NoUnderAward'
<1> SUFFICES ASSUME TypeOK, NoUnderAward, [Next]_vars,
                    found' = Flags, solved' = FALSE, ~ (deaths' > 0)
             PROVE  \E q \in Procs : Awarding(q)'
  <2>1. TypeOK /\ [Next]_vars => solved' \in BOOLEAN
    BY TypeStep DEF TypeOK
  <2> QED BY <2>1 DEF NoUnderAward
<1>0. /\ found \subseteq Flags /\ deaths \in Nat
      /\ pc \in [Procs -> Pcs] /\ loc \in [Procs -> LocType]
      /\ \A q \in Procs : [loc[q] EXCEPT !.seen = FALSE].seen = FALSE
  <2>1. \A q \in Procs : loc[q] \in LocType
    BY DEF TypeOK
  <2> QED BY <2>1 DEF TypeOK, LocType
<1>1. ASSUME NEW p \in Procs, NEW l, NEW m, Goto(p, l, m)
      PROVE  Only(p) /\ pc'[p] = l /\ loc'[p] = m
  BY <1>0, <1>1 DEF Goto, Only
<1>2. ASSUME found = Flags, solved = FALSE, ~ (deaths > 0)
      PROVE  \E q \in Procs : Awarding(q)
  BY <1>2 DEF NoUnderAward
<1>3. ASSUME NEW p \in Procs, Only(p), Awarding(p)' \/ ~ Awarding(p),
             found = Flags, solved = FALSE, ~ (deaths > 0)
      PROVE  \E q \in Procs : Awarding(q)'
  <2>1. PICK q \in Procs : Awarding(q)
    BY <1>2, <1>3
  <2> QED BY <1>3, <2>1 DEF Only, Awarding
<1>4. CASE UNCHANGED vars
  BY <1>2, <1>4 DEF vars, Awarding
<1>5. ASSUME NEW p \in Procs, Reset(p) PROVE FALSE
  BY <1>5 DEF Reset
<1>6. ASSUME NEW p \in Procs, Die(p) PROVE FALSE
  BY <1>0, <1>6 DEF Die
<1>7. ASSUME NEW p \in Procs, Submit(p) \/ Native(p) PROVE \E q \in Procs : Awarding(q)'
  <2>1. UNCHANGED <<found, solved, deaths>> /\ pc[p] = "idle"
    BY <1>7 DEF Submit, Native, Enter
  <2>2. Only(p)
    <3>1. \E l, m : Goto(p, l, m)
      BY <1>7 DEF Submit, Native, Return
    <3> QED BY <1>1, <3>1
  <2> QED BY <1>3, <2>1, <2>2 DEF Awarding
<1>8. ASSUME NEW p \in Procs, Record(p) \/ Credit(p) PROVE \E q \in Procs : Awarding(q)'
  <2>1. UNCHANGED <<solved, deaths>> /\ pc[p] \in {"record", "credit"}
    BY <1>8 DEF Record, Credit
  <2>2. CASE found' = found
    <3>1. Only(p)
      BY <1>1, <1>8 DEF Record, Credit, Return
    <3> QED BY <1>3, <2>1, <2>2, <3>1 DEF Awarding
  <2>3. CASE found' # found
    <3>1. pc'[p] \in {"progress", "award"}
      BY <1>1, <1>8, <2>3 DEF Record, Credit
    <3> QED BY <3>1 DEF Awarding
  <2> QED BY <2>2, <2>3
<1>9. ASSUME NEW p \in Procs, Progress(p) \/ Award(p) PROVE \E q \in Procs : Awarding(q)'
  <2>1. UNCHANGED <<found, solved>>
    BY <1>9 DEF Progress, Award
  <2>2. Goto(p, "solve", [loc[p] EXCEPT !.seen = FALSE])
    <3>1. Cardinality(found) \in Nat /\ found = Flags /\ solved = FALSE
      BY <2>1, FS_CardinalityType
    <3>2. Cardinality(found) >= Cardinality(Flags)
      BY <3>1
    <3>3. Goto(p, "solve", [loc[p] EXCEPT !.seen = solved])
      BY <1>9, <3>2 DEF Progress, Award
    <3> QED BY <3>1, <3>3
  <2> QED BY <1>0, <1>1, <2>2 DEF Awarding
<1>10. ASSUME NEW p \in Procs, InsertSolve(p) \/ InsertFail(p)
       PROVE  \E q \in Procs : Awarding(q)'
  <2>1. UNCHANGED <<found, deaths>> /\ pc[p] \in {"solve", "fail"}
    BY <1>10 DEF InsertSolve, InsertFail
  <2>2. solved = FALSE /\ ~ Awarding(p)
    <3>1. CASE InsertSolve(p)
      <4>1. ~ (solved \/ ~ loc[p].seen)
        BY <3>1 DEF InsertSolve
      <4>2. solved \in BOOLEAN
        BY DEF TypeOK
      <4> QED BY <3>1, <4>1, <4>2 DEF InsertSolve, Awarding
    <3>2. CASE InsertFail(p)
      BY <3>2 DEF InsertFail, Awarding
    <3> QED BY <1>10, <3>1, <3>2
  <2>3. Only(p)
    BY <1>1, <1>10 DEF InsertSolve, InsertFail, Return
  <2> QED BY <1>3, <2>1, <2>2, <2>3
<1> QED BY <1>4, <1>5, <1>6, <1>7, <1>8, <1>9, <1>10 DEF Next, Continue

-----------------------------------------------------------------------------
\* max_attempts.

LEMMA FailingFinite ==
  /\ IsFiniteSet(Failing) /\ Cardinality(Failing) \in Nat
  /\ Cardinality(Members) \in Nat /\ Cardinality(Failing) <= Cardinality(Members)
BY FS_Subset, FS_CardinalityType DEF Failing

LEMMA AttemptsStep == TypeOK /\ AttemptsInv /\ [Next]_vars => AttemptsInv'
<1> SUFFICES ASSUME TypeOK, AttemptsInv, [Next]_vars PROVE AttemptsInv'
  OBVIOUS
<1> DEFINE F == Cardinality(Failing)
           F1 == Cardinality(Failing')
           Bound == MaxAttempts # 0 => fails' + F1 < MaxAttempts + Cardinality(Members)
<1>0. /\ IsFiniteSet(Failing) /\ F \in Nat /\ Cardinality(Members) \in Nat
      /\ F1 \in Nat /\ F1 <= Cardinality(Members) /\ IsFiniteSet(Failing')
      /\ fails \in Nat /\ MaxAttempts \in Nat /\ pc \in [Procs -> Pcs]
      /\ \A a \in Admins : pc[a] = "idle"
      /\ MaxAttempts # 0 => fails + F < MaxAttempts + Cardinality(Members)
  <2>1. IsFiniteSet(Failing') /\ F1 \in Nat /\ F1 <= Cardinality(Members)
    BY FS_Subset, FS_CardinalityType DEF Failing
  <2> QED BY <2>1, FailingFinite DEF TypeOK, AttemptsInv
<1>1. ASSUME fails' = fails, Failing' \subseteq Failing PROVE Bound
  <2>1. F1 <= F
    BY <1>0, <1>1, FS_Subset
  <2> QED BY <1>0, <1>1, <2>1
<1>2. ASSUME fails' = fails, AttemptsLeft PROVE Bound
  BY <1>0, <1>2 DEF AttemptsLeft
<1>3. ASSUME NEW p \in Procs, NEW l, NEW m, Goto(p, l, m)
      PROVE  /\ \A q \in Procs \ {p} : pc'[q] = pc[q]
             /\ pc'[p] = l
             /\ l # "fail" => Failing' \subseteq Failing
             /\ p \in Members \/ l = "idle" => \A a \in Admins : pc'[a] = "idle"
  BY <1>0, <1>3 DEF Goto, Failing, Procs
<1>4. CASE UNCHANGED vars
  <2>1. Failing' = Failing
    BY <1>4 DEF vars, Failing
  <2> QED BY <1>0, <1>1, <1>4, <2>1 DEF vars, AttemptsInv
<1>5. ASSUME NEW p \in Procs, Submit(p) PROVE AttemptsInv'
  <2>1. PICK l, m : Goto(p, l, m) /\ (AttemptsLeft \/ l = "idle")
    BY <1>5 DEF Submit, Return
  <2>2. fails' = fails /\ p \in Members
    BY <1>5 DEF Submit
  <2>3. Bound
    BY <1>1, <1>2, <1>3, <2>1, <2>2
  <2> QED BY <1>3, <2>1, <2>2, <2>3 DEF AttemptsInv
<1>6. ASSUME NEW p \in Procs, Native(p) PROVE AttemptsInv'
  <2>1. PICK l, m : Goto(p, l, m)
    BY <1>6 DEF Native
  <2>2. fails' = fails /\ p \in Members /\ AttemptsLeft
    BY <1>6 DEF Native
  <2> QED BY <1>2, <1>3, <2>1, <2>2 DEF AttemptsInv
<1>7. ASSUME NEW p \in Procs, Record(p) \/ Progress(p) \/ InsertSolve(p) \/ Credit(p) \/ Award(p)
                              \/ Die(p)
      PROVE  AttemptsInv'
  <2>1. PICK l, m : Goto(p, l, m) /\ l # "fail"
    BY <1>7 DEF Record, Progress, InsertSolve, Credit, Award, Die, Return
  <2>2. fails' = fails /\ pc[p] # "idle"
    BY <1>7 DEF Record, Progress, InsertSolve, Credit, Award, Die
  <2>3. p \in Members
    BY <1>0, <2>2 DEF Procs
  <2> QED BY <1>1, <1>3, <2>1, <2>2, <2>3 DEF AttemptsInv
<1>8. ASSUME NEW p \in Procs, InsertFail(p) PROVE AttemptsInv'
  <2>1. p \in Members /\ pc[p] = "fail"
    BY <1>0, <1>8 DEF InsertFail, Procs
  <2>2. Goto(p, "idle", NoLoc)
    BY <1>8 DEF InsertFail, Return
  <2>3. Failing' = Failing \ {p} /\ p \in Failing
    BY <1>3, <2>1, <2>2 DEF Failing, Procs
  <2>4. F1 = F - 1
    BY <1>0, <2>3, FS_RemoveElement
  <2>5. Bound
    BY <1>0, <1>8, <2>4 DEF InsertFail
  <2> QED BY <1>3, <2>1, <2>2, <2>5 DEF AttemptsInv
<1>9. ASSUME NEW p \in Procs, Reset(p) PROVE AttemptsInv'
  <2>1. Failing' = Failing /\ fails' = fails /\ pc' = pc
    BY <1>9 DEF Reset, Failing
  <2> QED BY <1>0, <1>1, <2>1 DEF AttemptsInv
<1> QED BY <1>4, <1>5, <1>6, <1>7, <1>8, <1>9 DEF Next, Continue

-----------------------------------------------------------------------------
\* The inductive invariant: types, the completeness behind every award, and the
\* failures let through (submit_flag, attempt, solve, fail, reset_owner_progress).
THEOREM InductiveInvariant == Spec => []IInv
<1>1. Init => IInv
  <2> SUFFICES ASSUME Init PROVE IInv
    OBVIOUS
  <2>1. OverInv /\ NoUnderAward
    BY DEF Init, OverInv, NoUnderAward
  <2>2. Failing = {} /\ \A a \in Admins : pc[a] = "idle"
    BY DEF Init, Failing, Procs
  <2>3. AttemptsInv
    BY <2>2, FS_EmptySet, FailingFinite DEF Init, AttemptsInv
  <2> QED BY TypeInit, <2>1, <2>3 DEF IInv
<1>2. IInv /\ [Next]_vars => IInv'
  BY TypeStep, OverStep, UnderStep, AttemptsStep DEF IInv
<1> QED BY <1>1, <1>2, PTL DEF Spec

\* The tables and what the requests hold keep their types.
THEOREM TypeCorrect == Spec => []TypeOK
<1>1. IInv => TypeOK
  BY DEF IInv
<1> QED BY <1>1, InductiveInvariant, PTL

\* Without a reset the owner's Solves row stands for every flag, whichever of the
\* two endpoints its members use at the same time.
THEOREM AwardsAreWhole == Spec => []NoOverAward
<1>1. IInv => NoOverAward
  BY DEF IInv, OverInv, NoOverAward
<1> QED BY <1>1, InductiveInvariant, PTL

\* The request that completes the set awards it, unless its worker dies.
THEOREM WholeIsAwarded == Spec => []NoUnderAward
<1>1. IInv => NoUnderAward
  BY DEF IInv
<1> QED BY <1>1, InductiveInvariant, PTL

\* Requests that read the count of failures together exceed max_attempts by less
\* than the number of members.
THEOREM AttemptsAreBounded == Spec => []AttemptsBounded
<1>1. IInv => AttemptsBounded
  BY FailingFinite DEF IInv, TypeOK, AttemptsInv, AttemptsBounded
<1> QED BY <1>1, InductiveInvariant, PTL
=============================================================================
