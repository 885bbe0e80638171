-------------------------- MODULE SheetIntakeProofs --------------------------
(***************************************************************************)
(* Theorems about the intake of a list, for every file, every set of       *)
(* canonical fields, every way to score a header and any number of         *)
(* uploads.                                                                *)
(***************************************************************************)
EXTENDS SheetIntake, FiniteSetTheorems, WellFoundedInduction, TLAPS

\* A list_runs row, whatever its columns hold.
IsRun(r) == r = [status |-> r.status, rows |-> r.rows, key |-> r.key,
                 proposed |-> r.proposed, confirmed |-> r.confirmed]

\* A run that may be committed.
Complete(r) ==
    /\ IsRun(r)
    /\ r.key \in stored /\ r.rows # <<>>
    /\ r.status \in {"mapping_pending", "mapping_confirmed"}
    /\ r.confirmed # Null =>
          r.status = "mapping_confirmed" /\ r.confirmed["supplier_item_number"] # Null

\* Where a request is, and what it has put together so far.
Inv ==
    /\ pc \in {"idle", "created", "stored", "propose", "commit"}
    /\ run # Null => Complete(run)
    /\ pc = "created" => tx = NewRun
    /\ pc = "stored" => tx = [NewRun EXCEPT !.key = upload] /\ upload \in stored
    /\ pc = "propose" => run # Null /\ tx = run
    /\ pc = "commit" => Complete(tx)

LEMMA InitInv == Init => Inv
BY DEF Init, Inv

\* The file is in S3 before its row is written, and stays there.
LEMMA UploadInv ==
    ASSUME Inv, (\E f \in Files : UploadList(f)) \/ UploadSourceFile
    PROVE  Inv'
<1>1. stored \subseteq stored' /\ UNCHANGED run
  BY DEF UploadList, UploadSourceFile
<1>2. run' # Null => Complete(run)'
  BY <1>1 DEF Inv, Complete, IsRun
<1>3. CASE \E f \in Files : UploadList(f)
  BY <1>2, <1>3 DEF Inv, UploadList
<1>4. CASE UploadSourceFile
  BY <1>2, <1>4 DEF Inv, UploadSourceFile
<1> QED BY <1>3, <1>4

LEMMA ParseFileInv == ASSUME Inv, ParseFile PROVE Inv'
<1> DEFINE rows == ParsedRows(file)
<1>1. rows # <<>> /\ pc' = "commit" /\ UNCHANGED <<stored, run, upload>>
      /\ tx' = [tx EXCEPT !.rows = rows, !.status = "mapping_pending"]
      /\ tx = [NewRun EXCEPT !.key = upload] /\ upload \in stored
  BY DEF Inv, ParseFile
<1> HIDE DEF rows
<1>2. tx' = [status |-> "mapping_pending", rows |-> rows, key |-> upload,
             proposed |-> Null, confirmed |-> Null]
  BY <1>1 DEF NewRun
<1>3. /\ tx'.status = "mapping_pending" /\ tx'.rows = rows /\ tx'.key = upload
      /\ tx'.proposed = Null /\ tx'.confirmed = Null
  BY <1>2
<1>4. IsRun(tx')
  BY <1>2, <1>3 DEF IsRun
<1>5. tx'.rows # <<>> /\ tx'.key \in stored'
  BY <1>1, <1>3
<1>6. Complete(tx)'
  BY <1>3, <1>4, <1>5 DEF Complete, IsRun
<1> QED BY <1>1, <1>6 DEF Inv, Complete, IsRun

LEMMA EndInv == ASSUME Inv, Commit \/ RollBack PROVE Inv'
BY DEF Inv, Commit, RollBack, Complete, IsRun

LEMMA ProposeInv ==
    ASSUME Inv, ProposeMapping \/ FinishProposal \/ \E p \in Fields \X HeadersOf(tx) : Claim(p)
    PROVE  Inv'
<1>1. UNCHANGED <<stored, run>>
  BY DEF ProposeMapping, FinishProposal, Claim
<1>2. run' # Null => Complete(run)'
  BY <1>1 DEF Inv, Complete, IsRun
<1>3. CASE FinishProposal
  <2>1. Complete(tx) /\ tx' = [tx EXCEPT !.proposed = claimed] /\ pc' = "commit"
    BY <1>3 DEF Inv, FinishProposal
  <2>2. Complete(tx)'
    BY <1>1, <2>1 DEF Complete, IsRun
  <2> QED BY <1>2, <2>1, <2>2 DEF Inv
<1>4. CASE ProposeMapping \/ \E p \in Fields \X HeadersOf(tx) : Claim(p)
  BY <1>1, <1>2, <1>4 DEF Inv, ProposeMapping, Claim
<1> QED BY <1>3, <1>4

LEMMA ConfirmMappingInv == ASSUME Inv, NEW mapping, ConfirmMapping(mapping) PROVE Inv'
<1>1. /\ Complete(run) /\ UNCHANGED <<stored, run>> /\ pc' = "commit"
      /\ tx' = [run EXCEPT !.confirmed = mapping, !.status = "mapping_confirmed"]
      /\ mapping["supplier_item_number"] # Null
  BY DEF Inv, ConfirmMapping
<1>2. Complete(tx)' /\ Complete(run)'
  BY <1>1 DEF Complete, IsRun
<1> QED BY <1>1, <1>2 DEF Inv

LEMMA ClaimedPairs ==
    ASSUME Next, pc = "propose"
    PROVE  (\E p \in Fields \X HeadersOf(tx) : Claim(p)) \/ FinishProposal \/ RollBack
BY DEF Next, UploadList, UploadSourceFile, ParseFile, Commit, ProposeMapping, ConfirmMapping

LEMMA StepInv == ASSUME Inv, [Next]_vars PROVE Inv'
<1>1. CASE UNCHANGED vars
  BY <1>1 DEF Inv, Complete, IsRun, vars
<1>2. CASE Next /\ pc = "propose"
  BY <1>2, ClaimedPairs, ProposeInv, EndInv
<1>3. CASE Next /\ pc # "propose"
  <2>1. ~\E p \in Fields \X (IF tx = Null \/ tx.rows = <<>> THEN {} ELSE HeadersOf(tx)) : Claim(p)
    BY <1>3 DEF Claim
  <2> QED BY <1>3, <2>1, UploadInv, ParseFileInv, EndInv, ProposeInv, ConfirmMappingInv DEF Next
<1> QED BY <1>1, <1>2, <1>3

LEMMA Invariance == Spec => []Inv
BY InitInv, StepInv, PTL DEF Spec

\* Every list that is committed has its original in S3, rows to work on, and, once
\* it may be processed, a header named for the item number.
THEOREM CompleteRuns == Spec => []RunIsComplete
<1>1. Inv => RunIsComplete
  BY DEF Inv, RunIsComplete, Complete
<1> QED BY <1>1, Invariance, PTL

----------------------------------------------------------------------------
(***************************************************************************)
(* The greedy assignment of propose_column_mapping                         *)
(***************************************************************************)
Injective(claims) ==
    \A f, g \in Fields : claims[f] = claims[g] /\ claims[f] # Null => f = g

\* A pair that was good enough is still free, or has lost to one as good.
Stable(claims, headers) ==
    \A p \in Pairs(headers) : Free(claims, p) \/ ClaimsBeat(claims, p)

\* Claiming one of the best free pairs keeps both.
LEMMA ClaimKeeps ==
    ASSUME NEW claims, claims = [f \in Fields |-> claims[f]], NEW headers,
           NEW p \in BestPairs(claims, headers), Injective(claims), Stable(claims, headers)
    PROVE  LET next == [claims EXCEPT ![p[1]] = p[2]]
           IN  Injective(next) /\ Stable(next, headers)
<1> DEFINE next == [claims EXCEPT ![p[1]] = p[2]]
<1>1. /\ p \in Pairs(headers) /\ p[1] \in Fields /\ p[2] \in headers /\ p[2] # Null
      /\ claims[p[1]] = Null /\ \A f \in Fields : claims[f] # p[2]
  BY DEF BestPairs, FreePairs, Pairs, Free
<1>2. next[p[1]] = p[2] /\ \A f \in Fields \ {p[1]} : next[f] = claims[f]
  BY <1>1
<1> HIDE DEF next
<1>3. Injective(next)
  BY <1>1, <1>2 DEF Injective
<1>4. ASSUME NEW q \in Pairs(headers), ~Free(next, q)
      PROVE  ClaimsBeat(next, q)
  <2>0. q[1] \in Fields
    BY DEF Pairs
  <2>1. CASE ClaimsBeat(claims, q)
    <3>1. PICK f \in Fields : /\ claims[f] # Null
                              /\ f = q[1] \/ claims[f] = q[2]
                              /\ Score(q[1], q[2]) <= Score(f, claims[f])
      BY <2>1 DEF ClaimsBeat
    <3>2. next[f] = claims[f]
      BY <1>1, <1>2, <3>1
    <3> QED BY <3>1, <3>2 DEF ClaimsBeat
  <2>2. CASE Free(claims, q)
    <3>1. Score(q[1], q[2]) <= Score(p[1], p[2])
      BY <2>2 DEF BestPairs, FreePairs
    <3>2. q[1] = p[1] \/ q[2] = p[2]
      BY <1>1, <1>2, <1>4, <2>0, <2>2 DEF Free
    <3> QED BY <1>1, <1>2, <3>1, <3>2 DEF ClaimsBeat
  <2> QED BY <2>1, <2>2 DEF Stable
<1>5. Stable(next, headers)
  BY <1>4 DEF Stable
<1> QED BY <1>3, <1>5 DEF next

Settled(r) ==
    r.proposed # Null =>
        /\ Injective(r.proposed)
        /\ \A p \in Pairs(HeadersOf(r)) : ClaimsBeat(r.proposed, p)

\* What is claimed so far is injective and stable, and so is what was proposed.
MappingInv ==
    /\ run # Null => Settled(run)
    /\ pc = "commit" => Settled(tx)
    /\ pc = "propose" =>
          /\ claimed = [f \in Fields |-> claimed[f]]
          /\ Injective(claimed) /\ Stable(claimed, HeadersOf(tx))

LEMMA ProposeMappingStep == ASSUME Inv, MappingInv, ProposeMapping PROVE MappingInv'
<1>1. /\ claimed' = [f \in Fields |-> Null] /\ tx' = run /\ run' = run /\ pc' = "propose"
  BY DEF ProposeMapping
<1>2. claimed' = [f \in Fields |-> claimed'[f]] /\ \A f \in Fields : claimed'[f] = Null
  BY <1>1
<1>3. Injective(claimed')
  BY <1>2 DEF Injective
<1>4. ASSUME NEW p \in Pairs(HeadersOf(tx')) PROVE Free(claimed', p)
  <2>1. p[1] \in Fields /\ p[2] # Null
    BY NoTextAssumption DEF Pairs
  <2> QED BY <1>2, <2>1 DEF Free
<1>5. Stable(claimed', HeadersOf(tx'))
  BY <1>4 DEF Stable
<1> QED BY <1>1, <1>2, <1>3, <1>5 DEF MappingInv, Settled, Injective, Stable, HeadersOf

LEMMA ClaimStep ==
    ASSUME Inv, MappingInv, NEW p \in Fields \X HeadersOf(tx), Claim(p)
    PROVE  MappingInv'
<1>1. /\ pc = "propose" /\ pc' = "propose" /\ p \in BestPairs(claimed, HeadersOf(tx))
      /\ claimed' = [claimed EXCEPT ![p[1]] = p[2]] /\ tx' = tx /\ run' = run
  BY DEF Claim
<1>2. Injective(claimed') /\ Stable(claimed', HeadersOf(tx))
  BY <1>1, ClaimKeeps DEF MappingInv
<1>3. claimed' = [f \in Fields |-> claimed'[f]]
  BY <1>1 DEF MappingInv
<1> QED BY <1>1, <1>2, <1>3 DEF MappingInv

LEMMA FinishStep == ASSUME Inv, MappingInv, FinishProposal PROVE MappingInv'
<1>1. /\ pc = "propose" /\ pc' = "commit" /\ run' = run
      /\ tx' = [tx EXCEPT !.proposed = claimed]
      /\ FreePairs(claimed, HeadersOf(tx)) = {}
      /\ IsRun(tx)
  BY DEF FinishProposal, Inv, Complete
<1>2. tx'.proposed = claimed /\ tx'.rows = tx.rows
  BY <1>1 DEF IsRun
<1>3. \A p \in Pairs(HeadersOf(tx)) : ClaimsBeat(claimed, p)
  BY <1>1 DEF MappingInv, Stable, FreePairs
<1>4. Settled(tx')
  BY <1>1, <1>2, <1>3 DEF Settled, HeadersOf, MappingInv
<1> QED BY <1>1, <1>4 DEF MappingInv

LEMMA MappingStep == ASSUME Inv, MappingInv, [Next]_vars PROVE MappingInv'
<1>1. CASE UNCHANGED vars
  BY <1>1 DEF MappingInv, vars
<1>2. CASE Next /\ pc = "propose"
  <2>1. CASE RollBack
    BY <2>1 DEF MappingInv, RollBack
  <2> QED BY <1>2, <2>1, ClaimedPairs, ClaimStep, FinishStep
<1>3. CASE ProposeMapping
  BY <1>3, ProposeMappingStep
<1>4. CASE \E mapping : ConfirmMapping(mapping)
  <2>1. PICK mapping : ConfirmMapping(mapping)
    BY <1>4
  <2>2. /\ run # Null /\ IsRun(run) /\ run' = run /\ pc' = "commit"
        /\ tx' = [run EXCEPT !.confirmed = mapping, !.status = "mapping_confirmed"]
    BY <2>1 DEF ConfirmMapping, Inv, Complete
  <2>3. tx'.proposed = run.proposed /\ tx'.rows = run.rows
    BY <2>2 DEF IsRun
  <2> QED BY <2>2, <2>3 DEF MappingInv, Settled, HeadersOf
<1>5. CASE ParseFile
  <2>1. /\ run' = run /\ pc' = "commit" /\ tx = [NewRun EXCEPT !.key = upload]
        /\ tx' = [tx EXCEPT !.rows = ParsedRows(file), !.status = "mapping_pending"]
    BY <1>5 DEF ParseFile, Inv
  <2>2. tx'.proposed = Null
    BY <2>1 DEF NewRun
  <2> QED BY <2>1, <2>2 DEF MappingInv, Settled
<1>6. CASE (\E f \in Files : UploadList(f)) \/ UploadSourceFile
  BY <1>6 DEF MappingInv, UploadList, UploadSourceFile
<1>7. CASE Commit \/ RollBack
  BY <1>7 DEF MappingInv, Commit, RollBack
<1>8. CASE Next /\ pc # "propose"
  <2>1. ~\E p \in Fields \X (IF tx = Null \/ tx.rows = <<>> THEN {} ELSE HeadersOf(tx)) : Claim(p)
    BY <1>8 DEF Claim
  <2>2. ~FinishProposal
    BY <1>8 DEF FinishProposal
  <2> QED BY <1>3, <1>4, <1>5, <1>6, <1>7, <1>8, <2>1, <2>2 DEF Next
<1> QED BY <1>1, <1>2, <1>8

LEMMA MappingInvariance == Spec => []MappingInv
<1>1. Init => MappingInv
  BY DEF Init, MappingInv
<1> QED BY <1>1, MappingStep, Invariance, PTL DEF Spec

\* No two canonical fields are ever proposed the same column.
THEOREM InjectiveProposal == Spec => []ProposalIsInjective
<1>1. MappingInv => ProposalIsInjective
  BY DEF MappingInv, Settled, Injective, ProposalIsInjective
<1> QED BY <1>1, MappingInvariance, PTL

\* A pair of a field and a header that was good enough and not proposed lost to
\* one at least as good, however the headers are scored.
THEOREM StableProposal == Spec => []ProposalIsStable
<1>1. MappingInv => ProposalIsStable
  BY DEF MappingInv, Settled, ProposalIsStable
<1> QED BY <1>1, MappingInvariance, PTL

----------------------------------------------------------------------------
(***************************************************************************)
(* Numbers.  The least element of a set of naturals stands in for          *)
(* induction: the least counterexample has none below it.                  *)
(***************************************************************************)
LEMMA Least == ASSUME NEW T \in SUBSET Nat, T # {} PROVE \E n \in T : \A m \in T : n <= m
<1>1. PICK n \in T : \A m \in T : ~(<<m, n>> \in OpToRel(<, Nat))
  BY NatLessThanWellFounded, WFMin
<1>2. \A m \in T : ~(m < n)
  BY <1>1 DEF OpToRel
<1> QED BY <1>2

LEMMA MinIs ==
    ASSUME NEW T \in SUBSET Nat, T # {}
    PROVE  Min(T) \in T /\ \A m \in T : Min(T) <= m
BY Least DEF Min

LEMMA MaxIs ==
    ASSUME NEW n \in Nat, NEW T \in SUBSET (1..n), T # {}
    PROVE  Max(T) \in T
<1> DEFINE D == {d \in Nat : \E m \in T : d = n - m}
<1>0. \A m \in T : m \in Nat /\ n - m \in Nat
  OBVIOUS
<1>1. D \in SUBSET Nat /\ D # {}
  <2>1. PICK m \in T : TRUE
    OBVIOUS
  <2>2. n - m \in D
    BY <1>0
  <2> QED BY <2>2
<1>2. PICK d \in D : \A e \in D : d <= e
  BY <1>1, Least
<1>3. PICK m \in T : d = n - m
  OBVIOUS
<1>4. ASSUME NEW k \in T PROVE k <= m
  <2>1. n - k \in D
    BY <1>0
  <2>2. d <= n - k
    BY <1>2, <2>1
  <2> QED BY <1>0, <1>3, <2>2
<1> QED BY <1>4 DEF Max

\* A finite set of numbers has a k-th smallest for every k up to its size.
LEMMA KthOfIs ==
    ASSUME NEW S \in SUBSET Nat, IsFiniteSet(S), NEW k \in 1..Cardinality(S)
    PROVE  KthOf(S, k) \in S
<1> DEFINE UpTo(n) == {m \in S : m <= n}
           rank == [n \in S |-> Cardinality(UpTo(n))]
<1>1. Cardinality(S) \in Nat
  BY FS_CardinalityType
<1>2. \A n \in S : /\ IsFiniteSet(UpTo(n)) /\ Cardinality(UpTo(n)) \in Nat
                   /\ Cardinality(UpTo(n)) <= Cardinality(S)
  BY FS_Subset, FS_CardinalityType
<1>3. \A n \in S : Cardinality(UpTo(n)) # 0
  <2> SUFFICES ASSUME NEW n \in S, Cardinality(UpTo(n)) = 0 PROVE FALSE
    OBVIOUS
  <2>1. UpTo(n) = {}
    BY <1>2, FS_EmptySet
  <2> QED BY <2>1
<1>4. ASSUME NEW m \in S, NEW n \in S, m < n PROVE Cardinality(UpTo(m)) # Cardinality(UpTo(n))
  <2>1. UpTo(m) \subseteq UpTo(n) /\ n \in UpTo(n) /\ n \notin UpTo(m)
    <3>1. \A j \in S : j \in Nat
      OBVIOUS
    <3>2. \A j \in S : j <= m => j <= n
      BY <1>4, <3>1
    <3>3. n <= n /\ ~(n <= m)
      BY <1>4, <3>1
    <3> QED BY <3>2, <3>3
  <2> HIDE DEF UpTo
  <2>2. Cardinality(UpTo(m)) = Cardinality(UpTo(n)) => UpTo(n) = UpTo(m)
    BY <1>2, <2>1, FS_Subset
  <2> QED BY <2>1, <2>2
<1> HIDE DEF UpTo
<1>5. rank \in [S -> 1..Cardinality(S)]
  BY <1>1, <1>2, <1>3
<1>6. rank \in Injection(S, 1..Cardinality(S))
  <2>1. ASSUME NEW m \in S, NEW n \in S, rank[m] = rank[n] PROVE m = n
    <3>1. ~(m < n) /\ ~(n < m)
      BY <1>4, <2>1
    <3> QED BY <3>1
  <2> QED BY <1>5, <2>1 DEF Injection, IsInjective
<1>7. IsFiniteSet(1..Cardinality(S)) /\ Cardinality(1..Cardinality(S)) = Cardinality(S)
  BY <1>1, FS_Interval
<1>8. rank \in Surjection(S, 1..Cardinality(S))
  BY <1>6, <1>7, FS_Injection
<1>9. \E n \in S : rank[n] = k
  BY <1>8 DEF Surjection
<1>10. \E n \in S : Cardinality(UpTo(n)) = k
  BY <1>9
<1> QED BY <1>10 DEF KthOf, UpTo

----------------------------------------------------------------------------
(***************************************************************************)
(* FlattenSeq                                                              *)
(***************************************************************************)
Joins(F, s, n) == F = [i \in 1..n |-> IF i = 1 THEN s[i] ELSE F[i - 1] \o s[i]]

\* The recursive function that FlattenSeq speaks of exists.
LEMMA FlattenIs ==
    ASSUME NEW s, Len(s) \in Nat, Len(s) # 0
    PROVE  \E F : Joins(F, s, Len(s)) /\ FlattenSeq(s) = F[Len(s)]
<1> DEFINE T == {n \in 1..Len(s) : ~\E F : Joins(F, s, n)}
<1>1. T = {}
  <2> SUFFICES ASSUME T # {} PROVE FALSE
    OBVIOUS
  <2>1. PICK n \in T : \A m \in T : n <= m
    <3>1. T \in SUBSET Nat
      OBVIOUS
    <3> QED BY <3>1, Least
  <2>2. CASE n = 1
    <3>1. Joins([i \in 1..1 |-> s[1]], s, 1)
      BY DEF Joins
    <3> QED BY <2>1, <2>2, <3>1
  <2>3. CASE n # 1
    <3>1. n \in 1..Len(s) /\ n - 1 \in 1..Len(s) /\ ~(n <= n - 1)
      BY <2>3
    <3>2. PICK F : Joins(F, s, n - 1)
      BY <2>1, <3>1
    <3> DEFINE G == [i \in 1..n |-> IF i = n THEN F[n - 1] \o s[n] ELSE F[i]]
    <3>3. \A i \in 1..(n - 1) : F[i] = IF i = 1 THEN s[i] ELSE F[i - 1] \o s[i]
      BY <3>2 DEF Joins
    <3>4. \A i \in 1..n : G[i] = IF i = 1 THEN s[i] ELSE G[i - 1] \o s[i]
      BY <2>3, <3>1, <3>3
    <3>5. Joins(G, s, n)
      <4>1. G = [i \in 1..n |-> G[i]]
        OBVIOUS
      <4> HIDE DEF G
      <4> QED BY <3>4, <4>1 DEF Joins
    <3> QED BY <2>1, <3>5
  <2> QED BY <2>2, <2>3
<1>2. Len(s) \in 1..Len(s)
  OBVIOUS
<1>3. \E F : Joins(F, s, Len(s))
  BY <1>1, <1>2
<1> QED BY <1>3 DEF FlattenSeq, Joins

\* The first row of the first table that has one comes first, and every other row
\* from another place.
From(s, n, p, row) ==
    \E i \in 1..n : \E j \in DOMAIN s[i] : <<i, j>> # <<p, 1>> /\ row = s[i][j]
Flat(grid, s, n, p, S) ==
    /\ grid \in Seq(S)
    /\ n < p => grid = <<>>
    /\ n >= p => /\ grid # <<>> /\ grid[1] = s[p][1]
                 /\ \A k \in 2..Len(grid) : From(s, n, p, grid[k])

LEMMA JoinIsFlat ==
    ASSUME NEW S, NEW s \in Seq(Seq(S)), NEW n \in 1..Len(s), NEW p \in 1..Len(s), n # 1,
           s[p] # <<>>, \A i \in 1..(p - 1) : s[i] = <<>>,
           NEW grid, Flat(grid, s, n - 1, p, S)
    PROVE  Flat(grid \o s[n], s, n, p, S)
<1>1. n \in Nat /\ p \in Nat /\ s[n] \in Seq(S) /\ grid \in Seq(S)
  BY DEF Flat
<1> DEFINE g == grid \o s[n]
<1>2. /\ g \in Seq(S) /\ Len(g) = Len(grid) + Len(s[n])
      /\ \A k \in 1..Len(g) : g[k] = IF k <= Len(grid) THEN grid[k] ELSE s[n][k - Len(grid)]
  BY <1>1
<1> HIDE DEF g
<1>3. CASE n < p
  <2>1. n \in 1..(p - 1) /\ s[n] = <<>> /\ grid = <<>>
    BY <1>3 DEF Flat
  <2>2. g = <<>>
    BY <2>1 DEF g
  <2> QED BY <1>2, <1>3, <2>2 DEF Flat, g
<1>4. CASE n = p
  <2>1. grid = <<>> /\ g = s[p]
    <3>1. n - 1 < p
      BY <1>1, <1>4
    <3>2. grid = <<>>
      BY <3>1 DEF Flat
    <3>3. <<>> \o s[n] = s[n]
      BY <1>1
    <3> QED BY <1>4, <3>2, <3>3 DEF g
  <2>2. \A k \in 2..Len(g) : From(s, n, p, g[k])
    <3> SUFFICES ASSUME NEW k \in 2..Len(g) PROVE From(s, n, p, g[k])
      OBVIOUS
    <3>1. p \in 1..n /\ k \in DOMAIN s[p] /\ <<p, k>> # <<p, 1>> /\ g[k] = s[p][k]
      BY <1>1, <1>2, <1>4, <2>1
    <3> QED BY <3>1 DEF From
  <2> QED BY <1>1, <1>2, <1>4, <2>1, <2>2 DEF Flat, g
<1>5. CASE n > p
  <2>1. /\ grid # <<>> /\ grid[1] = s[p][1]
        /\ \A k \in 2..Len(grid) : From(s, n - 1, p, grid[k])
    BY <1>1, <1>5 DEF Flat
  <2>2. Len(grid) >= 1 /\ g # <<>> /\ g[1] = s[p][1]
    BY <1>1, <1>2, <2>1
  <2>3. \A k \in 2..Len(g) : From(s, n, p, g[k])
    <3> SUFFICES ASSUME NEW k \in 2..Len(g) PROVE From(s, n, p, g[k])
      OBVIOUS
    <3>1. CASE k <= Len(grid)
      <4>1. From(s, n - 1, p, grid[k]) /\ g[k] = grid[k]
        BY <1>1, <1>2, <2>1, <3>1
      <4>2. 1..(n - 1) \subseteq 1..n
        BY <1>1
      <4> QED BY <4>1, <4>2 DEF From
    <3>2. CASE ~(k <= Len(grid))
      <4>1. k - Len(grid) \in DOMAIN s[n] /\ g[k] = s[n][k - Len(grid)]
        <5>1. k \in Nat /\ k <= Len(grid) + Len(s[n]) /\ Len(grid) \in Nat /\ Len(s[n]) \in Nat
          BY <1>1, <1>2
        <5>2. k - Len(grid) \in 1..Len(s[n])
          BY <3>2, <5>1
        <5>3. DOMAIN s[n] = 1..Len(s[n])
          BY <1>1
        <5>4. k \in 1..Len(g)
          OBVIOUS
        <5>5. g[k] = s[n][k - Len(grid)]
          BY <1>2, <3>2, <5>4
        <5> QED BY <5>2, <5>3, <5>5
      <4>2. n \in 1..n /\ <<n, k - Len(grid)>> # <<p, 1>>
        BY <1>1, <1>5
      <4> QED BY <4>1, <4>2 DEF From
    <3> QED BY <3>1, <3>2
  <2> QED BY <1>1, <1>2, <1>5, <2>2, <2>3 DEF Flat, g
<1> QED BY <1>1, <1>3, <1>4, <1>5

LEMMA FlattenIsFlat ==
    ASSUME NEW S, NEW s \in Seq(Seq(S)), NEW p \in 1..Len(s),
           s[p] # <<>>, \A i \in 1..(p - 1) : s[i] = <<>>
    PROVE  Flat(FlattenSeq(s), s, Len(s), p, S)
<1>1. PICK F : Joins(F, s, Len(s)) /\ FlattenSeq(s) = F[Len(s)]
  BY FlattenIs
<1>2. \A i \in 1..Len(s) : F[i] = IF i = 1 THEN s[i] ELSE F[i - 1] \o s[i]
  BY <1>1 DEF Joins
<1> DEFINE T == {n \in 1..Len(s) : ~Flat(F[n], s, n, p, S)}
<1>3. T = {}
  <2> SUFFICES ASSUME T # {} PROVE FALSE
    OBVIOUS
  <2>1. PICK n \in T : \A m \in T : n <= m
    <3>1. T \in SUBSET Nat
      OBVIOUS
    <3> QED BY <3>1, Least
  <2>2. CASE n = 1
    <3>1. F[1] = s[1] /\ s[1] \in Seq(S) /\ 1 \in 1..Len(s)
      BY <1>2, <2>2
    <3>2. CASE p = 1
      <4>1. \A k \in 2..Len(s[1]) : From(s, 1, 1, s[1][k])
        <5> SUFFICES ASSUME NEW k \in 2..Len(s[1]) PROVE From(s, 1, 1, s[1][k])
          OBVIOUS
        <5>1. 1 \in 1..1 /\ k \in DOMAIN s[1] /\ <<1, k>> # <<1, 1>>
          BY <3>1
        <5> QED BY <5>1 DEF From
      <4>2. Flat(s[1], s, 1, 1, S)
        BY <3>1, <3>2, <4>1 DEF Flat
      <4> QED BY <2>2, <3>1, <3>2, <4>2
    <3>3. CASE p # 1
      <4>1. s[1] = <<>>
        BY <3>3
      <4>2. Flat(s[1], s, 1, p, S)
        BY <3>1, <3>3, <4>1 DEF Flat
      <4> QED BY <2>2, <3>1, <4>2
    <3> QED BY <3>2, <3>3
  <2>3. CASE n # 1
    <3>1. n \in 1..Len(s) /\ n - 1 \in 1..Len(s) /\ ~(n <= n - 1)
      BY <2>3
    <3>2. Flat(F[n - 1], s, n - 1, p, S)
      BY <2>1, <3>1
    <3>3. F[n] = F[n - 1] \o s[n]
      BY <1>2, <2>3, <3>1
    <3>4. Flat(F[n], s, n, p, S)
      BY <2>3, <3>1, <3>2, <3>3, JoinIsFlat
    <3> QED BY <3>4
  <2> QED BY <2>2, <2>3
<1>4. Len(s) \in 1..Len(s)
  OBVIOUS
<1>5. Flat(F[Len(s)], s, Len(s), p, S)
  BY <1>3, <1>4
<1> QED BY <1>1, <1>5

LEMMA FlattenEmpty ==
    ASSUME NEW S, NEW s \in Seq(Seq(S)), \A i \in DOMAIN s : s[i] = <<>>
    PROVE  FlattenSeq(s) = <<>>
<1>1. CASE Len(s) = 0
  BY <1>1 DEF FlattenSeq
<1>2. CASE Len(s) # 0
  <2>1. PICK F : Joins(F, s, Len(s)) /\ FlattenSeq(s) = F[Len(s)]
    BY <1>2, FlattenIs
  <2>2. \A i \in 1..Len(s) : F[i] = IF i = 1 THEN s[i] ELSE F[i - 1] \o s[i]
    BY <2>1 DEF Joins
  <2> DEFINE T == {n \in 1..Len(s) : F[n] # <<>>}
  <2>3. T = {}
    <3> SUFFICES ASSUME T # {} PROVE FALSE
      OBVIOUS
    <3>1. PICK n \in T : \A m \in T : n <= m
      <4>1. T \in SUBSET Nat
        OBVIOUS
      <4> QED BY <4>1, Least
    <3>2. s[n] = <<>> /\ (n # 1 => n - 1 \in 1..Len(s) /\ ~(n <= n - 1))
      OBVIOUS
    <3>3. CASE n = 1
      BY <2>2, <3>1, <3>2, <3>3
    <3>4. CASE n # 1
      <4>1. F[n - 1] = <<>>
        BY <3>1, <3>2, <3>4
      <4>2. F[n] = <<>> \o <<>>
        BY <2>2, <3>1, <3>2, <3>4, <4>1
      <4> QED BY <3>1, <4>2
    <3> QED BY <3>3, <3>4
  <2> QED BY <1>2, <2>1, <2>3
<1> QED BY <1>1, <1>2

----------------------------------------------------------------------------
(***************************************************************************)
(* The parser                                                              *)
(***************************************************************************)
RawRow == Seq(Cells)
RawGrid == Seq(RawRow)

Bodies(tables) ==
    [t \in DOMAIN tables |-> IF Repeats(tables, t) THEN Tail(tables[t]) ELSE tables[t]]

LEMMA BodiesTyped == ASSUME NEW f \in Seq(RawGrid) PROVE Bodies(f) \in Seq(RawGrid) /\ Len(Bodies(f)) = Len(f)
<1>1. \A t \in 1..Len(f) : f[t] \in RawGrid /\ (f[t] # <<>> => Tail(f[t]) \in RawGrid)
  BY DEF RawGrid
<1>2. \A t \in 1..Len(f) : (IF Repeats(f, t) THEN Tail(f[t]) ELSE f[t]) \in RawGrid
  BY <1>1 DEF Repeats
<1>3. Bodies(f) \in [1..Len(f) -> RawGrid]
  BY <1>2 DEF Bodies
<1> QED BY <1>3

\* A file with a table that is not empty: its first row comes first.
LEMMA FirstTableIs ==
    ASSUME NEW f \in Seq(RawGrid), \E t \in DOMAIN f : f[t] # <<>>
    PROVE  /\ FirstTable(f) \in 1..Len(f)
           /\ f[FirstTable(f)] # <<>>
           /\ \A t \in 1..(FirstTable(f) - 1) : f[t] = <<>>
<1> DEFINE T == {t \in DOMAIN f : f[t] # <<>>}
<1>1. T \in SUBSET Nat /\ T # {}
  OBVIOUS
<1> HIDE DEF T
<1>2. Min(T) \in T /\ \A t \in T : Min(T) <= t
  BY <1>1, MinIs
<1>3. FirstTable(f) = Min(T)
  BY DEF FirstTable, T
<1>4. Min(T) \in 1..Len(f) /\ f[Min(T)] # <<>>
  BY <1>2 DEF T
<1>5. ASSUME NEW t \in 1..(Min(T) - 1) PROVE f[t] = <<>>
  <2>1. t \in DOMAIN f /\ ~(Min(T) <= t)
    BY <1>4
  <2> QED BY <1>2, <2>1 DEF T
<1> QED BY <1>3, <1>4, <1>5

LEMMA CombinedGridFlat ==
    ASSUME NEW f \in Seq(RawGrid), \E t \in DOMAIN f : f[t] # <<>>
    PROVE  /\ Flat(CombinedGrid(f), Bodies(f), Len(f), FirstTable(f), RawRow)
           /\ Bodies(f)[FirstTable(f)] = f[FirstTable(f)]
<1>1. /\ FirstTable(f) \in 1..Len(f)
      /\ f[FirstTable(f)] # <<>>
      /\ \A t \in 1..(FirstTable(f) - 1) : f[t] = <<>>
  BY FirstTableIs
<1>2. Bodies(f) \in Seq(Seq(RawRow)) /\ Len(Bodies(f)) = Len(f)
  BY BodiesTyped DEF RawGrid
<1>3. \A t \in 1..Len(f) : t <= FirstTable(f) => Bodies(f)[t] = f[t]
  BY <1>1 DEF Bodies, Repeats
<1>4. Bodies(f)[FirstTable(f)] = f[FirstTable(f)]
      /\ \A t \in 1..(FirstTable(f) - 1) : Bodies(f)[t] = <<>>
  BY <1>1, <1>3
<1>5. CombinedGrid(f) = FlattenSeq(Bodies(f))
  BY DEF CombinedGrid, Bodies
<1> QED BY <1>1, <1>2, <1>4, <1>5, FlattenIsFlat

LEMMA CombinedGridEmpty ==
    ASSUME NEW f \in Seq(RawGrid), \A t \in DOMAIN f : f[t] = <<>>
    PROVE  CombinedGrid(f) = <<>>
<1>1. \A t \in DOMAIN f : Bodies(f)[t] = <<>>
  BY DEF Bodies, Repeats
<1>2. Bodies(f) \in Seq(Seq(RawRow)) /\ DOMAIN Bodies(f) = DOMAIN f
  BY BodiesTyped DEF RawGrid, Bodies
<1>3. CombinedGrid(f) = FlattenSeq(Bodies(f))
  BY DEF CombinedGrid, Bodies
<1> QED BY <1>1, <1>2, <1>3, FlattenEmpty

LEMMA CombinedGridTyped == ASSUME NEW f \in Seq(RawGrid) PROVE CombinedGrid(f) \in RawGrid
<1>1. CASE \E t \in DOMAIN f : f[t] # <<>>
  BY <1>1, CombinedGridFlat DEF Flat, RawGrid
<1>2. CASE \A t \in DOMAIN f : f[t] = <<>>
  BY <1>2, CombinedGridEmpty DEF RawGrid
<1> QED BY <1>1, <1>2

\* The same rows as they read.
Texts == {Str(cell) : cell \in Cells}
Row == Seq(Texts)
Grid == Seq(Row)

LEMMA TextsAre == \A t \in Texts : IsSequence(t)
<1>1. IsSequence(<<>>)
  BY DEF IsSequence
<1>2. ASSUME NEW cell \in Cells PROVE IsSequence(Str(cell))
  BY <1>1, CellsAssumption DEF Str, Blank
<1> QED BY <1>2 DEF Texts

LEMMA StrippedIs ==
    ASSUME NEW row \in RawRow
    PROVE  Stripped(row) \in Row /\ DOMAIN Stripped(row) = DOMAIN row
BY DEF Stripped, RawRow, Row, Texts

LEMMA ReadGridIs ==
    ASSUME NEW f \in Seq(RawGrid)
    PROVE  /\ ReadGrid(f) \in Grid
           /\ DOMAIN ReadGrid(f) = DOMAIN CombinedGrid(f)
           /\ \A r \in DOMAIN CombinedGrid(f) : ReadGrid(f)[r] = Stripped(CombinedGrid(f)[r])
<1> DEFINE grid == CombinedGrid(f)
<1>1. grid \in Seq(RawRow)
  BY CombinedGridTyped DEF RawGrid
<1>2. ReadGrid(f) = [r \in DOMAIN grid |-> Stripped(grid[r])]
  BY DEF ReadGrid
<1> HIDE DEF grid
<1>3. DOMAIN grid = 1..Len(grid) /\ Len(grid) \in Nat /\ \A r \in DOMAIN grid : grid[r] \in RawRow
  BY <1>1
<1>4. \A r \in DOMAIN grid : Stripped(grid[r]) \in Row
  BY <1>3, StrippedIs
<1>5. ReadGrid(f) \in [1..Len(grid) -> Row]
  BY <1>2, <1>3, <1>4
<1>6. ReadGrid(f) \in Seq(Row)
  BY <1>3, <1>5
<1> QED BY <1>2, <1>3, <1>6 DEF Grid, grid

\* The header is a row of the grid, and the data are rows below it.
LEMMA HeaderIndexIs ==
    ASSUME NEW grid \in Grid, HeaderRows(grid) # {}
    PROVE  /\ HeaderIndex(grid) \in HeaderRows(grid)
           /\ \A r \in HeaderRows(grid) : HeaderIndex(grid) <= r
           /\ HeaderIndex(grid) \in 1..Len(grid)
           /\ grid[HeaderIndex(grid)] \in Row
<1>1. HeaderRows(grid) \in SUBSET Nat /\ HeaderRows(grid) \subseteq 1..Len(grid)
  BY DEF HeaderRows, Grid
<1>2. HeaderIndex(grid) \in HeaderRows(grid) /\ \A r \in HeaderRows(grid) : HeaderIndex(grid) <= r
  BY <1>1, MinIs DEF HeaderIndex
<1> QED BY <1>1, <1>2 DEF Grid

LEMMA DataRowsAre ==
    ASSUME NEW grid \in Grid
    PROVE  /\ Cardinality(DataIndices(grid)) \in Nat
           /\ DataRows(grid) \in Seq(Row)
           /\ Len(DataRows(grid)) = Cardinality(DataIndices(grid))
           /\ \A k \in DOMAIN DataRows(grid) :
                 \E r \in DataIndices(grid) : DataRows(grid)[k] = grid[r]
<1> DEFINE D == DataIndices(grid)
<1>1. D \subseteq 1..Len(grid) /\ D \in SUBSET Nat /\ Len(grid) \in Nat
  BY DEF DataIndices, Grid
<1>2. IsFiniteSet(D) /\ Cardinality(D) \in Nat
  <2>1. IsFiniteSet(1..Len(grid))
    BY <1>1, FS_Interval
  <2> QED BY <1>1, <2>1, FS_Subset, FS_CardinalityType
<1>3. \A k \in 1..Cardinality(D) : KthOf(D, k) \in D
  BY <1>1, <1>2, KthOfIs
<1>4. \A r \in D : grid[r] \in Row
  BY <1>1 DEF Grid
<1>5. DataRows(grid) = [k \in 1..Cardinality(D) |-> grid[KthOf(D, k)]]
  BY DEF DataRows
<1> HIDE DEF D
<1>6. DataRows(grid) \in [1..Cardinality(D) -> Row]
  BY <1>3, <1>4, <1>5
<1>7. DataRows(grid) \in Seq(Row) /\ Len(DataRows(grid)) = Cardinality(D)
  BY <1>2, <1>6
<1>8. \A k \in 1..Cardinality(D) : \E r \in D : DataRows(grid)[k] = grid[r]
  BY <1>3, <1>5
<1> QED BY <1>2, <1>6, <1>7, <1>8 DEF D

\* What the parser returns, if it returns any row.
LEMMA ParsedRowsAre ==
    ASSUME NEW f \in Files, ParsedRows(f) # <<>>
    PROVE  LET grid == ReadGrid(f)
               raw == grid[HeaderIndex(grid)]
               data == DataRows(grid)
           IN  /\ f \in Seq(RawGrid) /\ grid \in Grid /\ HeaderRows(grid) # {} /\ raw \in Row
               /\ data \in Seq(Row) /\ Len(data) \in Nat
               /\ DOMAIN ParsedRows(f) = 1..Len(data)
               /\ Len(ParsedRows(f)) = Len(data)
               /\ 1 \in DOMAIN ParsedRows(f)
               /\ \A k \in 1..Len(data) : ParsedRows(f)[k] = RawData(Headers(raw), data[k])
<1> DEFINE grid == ReadGrid(f)
           raw == grid[HeaderIndex(grid)]
           data == DataRows(grid)
           rows == [k \in DOMAIN data |-> RawData(Headers(raw), data[k])]
<1>1. f \in Seq(RawGrid)
  BY FilesAssumption DEF RawGrid, RawRow
<1>2. grid \in Grid
  BY <1>1, ReadGridIs
<1>3. HeaderRows(grid) # {} /\ ParsedRows(f) = rows
  BY DEF ParsedRows
<1>4. raw \in Row
  BY <1>2, <1>3, HeaderIndexIs
<1>5. data \in Seq(Row)
  BY <1>2, DataRowsAre
<1> HIDE DEF data, raw, grid
<1>6. DOMAIN data = 1..Len(data) /\ Len(data) \in Nat
  BY <1>5
<1>7. DOMAIN rows = 1..Len(data) /\ Len(rows) = Len(data)
  BY <1>6
<1>8. 1 \in DOMAIN rows
  <2>1. CASE Len(data) = 0
    <3>1. rows = <<>>
      BY <1>7, <2>1
    <3> QED BY <1>3, <3>1
  <2>2. CASE Len(data) # 0
    BY <1>6, <1>7, <2>2
  <2> QED BY <2>1, <2>2
<1>9. \A k \in 1..Len(data) : rows[k] = RawData(Headers(raw), data[k])
  BY <1>6
<1> HIDE DEF rows
<1>10. /\ DOMAIN ParsedRows(f) = 1..Len(data) /\ Len(ParsedRows(f)) = Len(data)
       /\ 1 \in DOMAIN ParsedRows(f)
       /\ \A k \in 1..Len(data) : ParsedRows(f)[k] = RawData(Headers(raw), data[k])
  BY <1>3, <1>7, <1>8, <1>9
<1> QED BY <1>1, <1>2, <1>3, <1>4, <1>5, <1>6, <1>10 DEF data, raw, grid

\* A column's key holds the cell of some column with that key.
LEMMA RawDataKeys == ASSUME NEW headers, NEW row PROVE DOMAIN RawData(headers, row) = ToSet(headers)
BY Zenon DEF RawData

LEMMA RawDataIs ==
    ASSUME NEW raw \in Row, NEW row, NEW c \in DOMAIN raw
    PROVE  \E m \in DOMAIN raw : /\ Headers(raw)[m] = Headers(raw)[c]
                                 /\ RawData(Headers(raw), row)[Headers(raw)[c]] = Cell(row, m)
<1> DEFINE headers == Headers(raw)
           Same == {d \in DOMAIN headers : headers[d] = headers[c]}
<1>1. /\ DOMAIN headers = 1..Len(raw) /\ Len(raw) \in Nat /\ c \in 1..Len(raw)
      /\ DOMAIN raw = 1..Len(raw)
  BY DEF Headers, Row
<1>2. Same \in SUBSET (1..Len(raw)) /\ Same # {}
  BY <1>1
<1>3. Max(Same) \in Same
  BY <1>1, <1>2, MaxIs
<1>4. headers[c] \in ToSet(headers)
  BY <1>1 DEF ToSet
<1>5. RawData(headers, row)[headers[c]] = Cell(row, Max(Same))
  BY <1>4 DEF RawData
<1> QED BY <1>1, <1>3, <1>5

----------------------------------------------------------------------------
(***************************************************************************)
(* The names of the columns                                                *)
(***************************************************************************)
LEMMA TextIs == ASSUME NEW t \in Texts PROVE t \in Seq({t[i] : i \in 1..Len(t)}) /\ Len(t) \in Nat
BY TextsAre DEF IsSequence

\* A sequence is not what it becomes with a part appended.
LEMMA AppendIs ==
    ASSUME NEW s, IsSequence(s), NEW e
    PROVE  /\ Len(Append(s, e)) = Len(s) + 1 /\ Append(s, e)[Len(s) + 1] = e
           /\ \A i \in 1..Len(s) : Append(s, e)[i] = s[i]
<1>1. s \in Seq({s[i] : i \in 1..Len(s)} \cup {e})
  BY DEF IsSequence
<1> QED BY <1>1

LEMMA BaseNameIs ==
    ASSUME NEW raw \in Row, NEW c \in DOMAIN raw
    PROVE  /\ c \in Nat /\ IsSequence(BaseName(raw, c))
           /\ raw[c] = Blank => BaseName(raw, c) = <<"column", c>>
           /\ raw[c] # Blank => BaseName(raw, c) = raw[c]
<1>1. c \in Nat /\ raw[c] \in Texts
  BY DEF Row
<1>2. IsSequence(<<"column", c>>)
  BY DEF IsSequence
<1> QED BY <1>1, <1>2, TextsAre DEF BaseName

LEMMA EarlierIs ==
    ASSUME NEW raw \in Row, NEW c \in DOMAIN raw, NEW d \in DOMAIN raw, c < d,
           BaseName(raw, c) = BaseName(raw, d)
    PROVE  Earlier(raw, c) \in Nat /\ Earlier(raw, d) \in Nat /\ Earlier(raw, c) # Earlier(raw, d)
<1> DEFINE C == {e \in 1..(c - 1) : BaseName(raw, e) = BaseName(raw, c)}
           D == {e \in 1..(d - 1) : BaseName(raw, e) = BaseName(raw, d)}
<1>1. c \in Nat /\ d \in Nat /\ c >= 1
  BY DEF Row
<1>2. c \in D /\ c \notin C /\ C \subseteq D
  BY <1>1
<1>3. IsFiniteSet(D)
  <2>1. d - 1 \in Int
    BY <1>1
  <2>2. IsFiniteSet(1..(d - 1))
    BY <2>1, FS_Interval
  <2>3. D \subseteq 1..(d - 1)
    OBVIOUS
  <2> QED BY <2>2, <2>3, FS_Subset
<1> HIDE DEF C, D
<1>4. IsFiniteSet(C) /\ Cardinality(C) \in Nat /\ Cardinality(D) \in Nat
      /\ (Cardinality(C) = Cardinality(D) => C = D)
  BY <1>2, <1>3, FS_Subset, FS_CardinalityType
<1> QED BY <1>2, <1>4 DEF C, D, Earlier

\* Two columns with one name have different headers in the file.
LEMMA SameNameOtherHeader ==
    ASSUME NEW raw \in Row, NEW c \in DOMAIN raw, NEW d \in DOMAIN raw, c # d,
           HeaderName(raw, c) = HeaderName(raw, d)
    PROVE  BaseName(raw, c) # BaseName(raw, d) /\ raw[c] # raw[d]
<1>1. /\ c \in Nat /\ IsSequence(BaseName(raw, c))
      /\ d \in Nat /\ IsSequence(BaseName(raw, d))
  BY BaseNameIs
<1>2. BaseName(raw, c) # BaseName(raw, d)
  <2> SUFFICES ASSUME BaseName(raw, c) = BaseName(raw, d) PROVE FALSE
    OBVIOUS
  <2>1. Earlier(raw, c) # Earlier(raw, d)
    BY <1>1, EarlierIs
  <2> DEFINE b == BaseName(raw, c)
  <2>2. Len(b) \in Nat
    BY <1>1 DEF IsSequence
  <2>3. \A n : Len(Append(b, n)) = Len(b) + 1 /\ Append(b, n)[Len(b) + 1] = n
    BY <1>1, AppendIs
  <2>4. b = BaseName(raw, d)
    OBVIOUS
  <2> HIDE DEF b
  <2>5. /\ HeaderName(raw, c) = IF Earlier(raw, c) = 0 THEN b ELSE Append(b, Earlier(raw, c))
        /\ HeaderName(raw, d) = IF Earlier(raw, d) = 0 THEN b ELSE Append(b, Earlier(raw, d))
    BY <2>4 DEF HeaderName, b
  <2>6. Append(b, Earlier(raw, c)) # b /\ Append(b, Earlier(raw, d)) # b
        /\ Append(b, Earlier(raw, c)) # Append(b, Earlier(raw, d))
    BY <2>1, <2>2, <2>3
  <2> QED BY <2>1, <2>5, <2>6
<1>3. raw[c] # raw[d]
  <2> SUFFICES ASSUME raw[c] = raw[d] PROVE FALSE
    OBVIOUS
  <2>1. raw[c] = Blank /\ raw[d] = Blank
    BY <1>2, BaseNameIs
  <2>2. BaseName(raw, c) = <<"column", c>> /\ BaseName(raw, d) = <<"column", d>>
    BY <2>1, BaseNameIs
  <2>3. \A n, e : <<"column", n>>[2] = n /\ Len(<<"column", n>>) = 2
    OBVIOUS
  <2>4. \A e : Append(<<"column", c>>, e)[2] = c /\ Append(<<"column", d>>, e)[2] = d
    BY <1>1, <2>2, AppendIs
  <2>5. HeaderName(raw, c)[2] = c /\ HeaderName(raw, d)[2] = d
    BY <2>2, <2>3, <2>4 DEF HeaderName
  <2> QED BY <2>5
<1> QED BY <1>2, <1>3

\* Plain headers get names of their own.
LEMMA PlainNamesDiffer ==
    ASSUME NEW raw \in Row, \A e \in DOMAIN raw : IsPlain(raw[e]),
           NEW c \in DOMAIN raw, NEW d \in DOMAIN raw,
           HeaderName(raw, c) = HeaderName(raw, d)
    PROVE  c = d
<1> SUFFICES ASSUME c # d PROVE FALSE
  OBVIOUS
<1>1. BaseName(raw, c) # BaseName(raw, d)
  BY SameNameOtherHeader
\* A base name with a number appended is not the base name of another column.
<1>2. ASSUME NEW i \in DOMAIN raw, NEW j \in DOMAIN raw, NEW n,
             Append(BaseName(raw, i), n) = BaseName(raw, j)
      PROVE  FALSE
  <2>1. /\ IsSequence(BaseName(raw, i)) /\ IsSequence(BaseName(raw, j))
        /\ raw[i] \in Texts /\ raw[j] \in Texts
    BY BaseNameIs DEF Row
  <2>2. /\ Len(BaseName(raw, j)) = Len(BaseName(raw, i)) + 1
        /\ \A k \in 1..Len(BaseName(raw, i)) : BaseName(raw, j)[k] = BaseName(raw, i)[k]
        /\ Len(BaseName(raw, i)) \in Nat
    BY <1>2, <2>1, AppendIs DEF IsSequence
  <2>3. Len(raw[i]) <= 1 /\ Len(raw[j]) <= 1 /\ raw[i] # <<"column">>
    BY DEF IsPlain
  <2>4. ASSUME NEW k \in DOMAIN raw, raw[k] # Blank
        PROVE  BaseName(raw, k) = raw[k] /\ Len(raw[k]) = 1 /\ raw[k] = <<raw[k][1]>>
    <3>1. raw[k] \in Texts /\ Len(raw[k]) <= 1
      BY DEF Row, IsPlain
    <3>2. raw[k] \in Seq({raw[k][m] : m \in 1..Len(raw[k])})
      BY <3>1, TextIs
    <3>3. Len(raw[k]) # 0
      BY <2>4, <3>2 DEF Blank
    <3>4. Len(raw[k]) = 1
      <4>1. Len(raw[k]) \in Nat
        BY <3>1, TextsAre DEF IsSequence
      <4>2. \A l \in Nat : l <= 1 /\ l # 0 => l = 1
        OBVIOUS
      <4> QED BY <3>1, <3>3, <4>1, <4>2, Zenon
    <3> QED BY <2>4, <3>2, <3>4, BaseNameIs
  <2>5. ASSUME NEW k \in DOMAIN raw, raw[k] = Blank
        PROVE  Len(BaseName(raw, k)) = 2 /\ BaseName(raw, k)[1] = "column"
    BY <2>5, BaseNameIs
  <2>6. /\ Len(BaseName(raw, i)) = IF raw[i] = Blank THEN 2 ELSE 1
        /\ Len(BaseName(raw, j)) = IF raw[j] = Blank THEN 2 ELSE 1
    <3>1. \A k \in DOMAIN raw : Len(BaseName(raw, k)) = IF raw[k] = Blank THEN 2 ELSE 1
      BY <2>4, <2>5
    <3> QED BY <3>1
  <2>7. raw[i] # Blank /\ raw[j] = Blank
    BY <2>2, <2>6
  <2> QED BY <2>2, <2>3, <2>4, <2>5, <2>7
<1>3. ASSUME NEW m, NEW n, Append(BaseName(raw, c), m) = Append(BaseName(raw, d), n) PROVE FALSE
  <2>1. IsSequence(BaseName(raw, c)) /\ IsSequence(BaseName(raw, d))
    BY BaseNameIs
  <2>2. /\ Len(Append(BaseName(raw, c), m)) = Len(BaseName(raw, c)) + 1
        /\ Len(Append(BaseName(raw, d), n)) = Len(BaseName(raw, d)) + 1
        /\ \A k \in 1..Len(BaseName(raw, c)) : Append(BaseName(raw, c), m)[k] = BaseName(raw, c)[k]
        /\ \A k \in 1..Len(BaseName(raw, d)) : Append(BaseName(raw, d), n)[k] = BaseName(raw, d)[k]
    BY <2>1, AppendIs
  <2>3. Len(BaseName(raw, c)) \in Nat /\ Len(BaseName(raw, d)) \in Nat
    BY <2>1 DEF IsSequence
  <2>4. Len(BaseName(raw, c)) = Len(BaseName(raw, d))
    BY <1>3, <2>2, <2>3
  <2>5. \A k \in 1..Len(BaseName(raw, c)) : BaseName(raw, c)[k] = BaseName(raw, d)[k]
    BY <1>3, <2>2, <2>4
  <2> QED BY <1>1, <2>1, <2>4, <2>5 DEF IsSequence
<1> QED BY <1>1, <1>2, <1>3 DEF HeaderName

----------------------------------------------------------------------------
(***************************************************************************)
(* What the rows of a file are                                             *)
(***************************************************************************)
LEMMA SameKeys ==
    ASSUME NEW f \in Files, ParsedRows(f) # <<>>, NEW k \in DOMAIN ParsedRows(f)
    PROVE  DOMAIN ParsedRows(f)[k] = DOMAIN ParsedRows(f)[1]
<1> DEFINE raw == ReadGrid(f)[HeaderIndex(ReadGrid(f))]
           data == DataRows(ReadGrid(f))
<1>1. /\ DOMAIN ParsedRows(f) = 1..Len(data) /\ 1 \in DOMAIN ParsedRows(f)
      /\ \A i \in 1..Len(data) : ParsedRows(f)[i] = RawData(Headers(raw), data[i])
  BY ParsedRowsAre
<1> HIDE DEF raw, data
<1>2. \A i \in 1..Len(data) : DOMAIN ParsedRows(f)[i] = ToSet(Headers(raw))
  BY <1>1, RawDataKeys
<1> QED BY <1>1, <1>2

LEMMA CellsKept ==
    ASSUME NEW f \in Files, ParsedRows(f) # <<>>
    PROVE  LET grid == ReadGrid(f)
               raw == grid[HeaderIndex(grid)]
               data == DataRows(grid)
           IN  (\A c \in DOMAIN raw : IsPlain(raw[c])) =>
                   \A k \in DOMAIN data, c \in DOMAIN raw :
                      ParsedRows(f)[k][Headers(raw)[c]] = Cell(data[k], c)
<1> DEFINE grid == ReadGrid(f)
           raw == grid[HeaderIndex(grid)]
           data == DataRows(grid)
<1>1. /\ raw \in Row /\ DOMAIN data = 1..Len(data)
      /\ \A k \in 1..Len(data) : ParsedRows(f)[k] = RawData(Headers(raw), data[k])
  BY ParsedRowsAre
<1> HIDE DEF raw, data
<1> SUFFICES ASSUME \A c \in DOMAIN raw : IsPlain(raw[c]), NEW k \in DOMAIN data, NEW c \in DOMAIN raw
             PROVE  ParsedRows(f)[k][Headers(raw)[c]] = Cell(data[k], c)
  BY DEF raw, data
<1>2. PICK m \in DOMAIN raw : /\ Headers(raw)[m] = Headers(raw)[c]
                              /\ RawData(Headers(raw), data[k])[Headers(raw)[c]] = Cell(data[k], m)
  BY <1>1, RawDataIs
<1>3. HeaderName(raw, m) = HeaderName(raw, c)
  BY <1>2 DEF Headers
<1>4. m = c
  BY <1>1, <1>3, PlainNamesDiffer
<1> QED BY <1>1, <1>2, <1>4

\* The row that a header repeats, however its cells read.
LEMMA HeaderOnTop ==
    ASSUME NEW f \in Files, ParsedRows(f) # <<>>,
           Cardinality(NonEmpty(Stripped(f[FirstTable(f)][1]))) >= 2
    PROVE  LET grid == ReadGrid(f)
               raw == f[FirstTable(f)][1]
           IN  /\ HeaderIndex(grid) = 1 /\ grid[1] = Stripped(raw) /\ Stripped(raw) \in Row
               /\ \A r \in 2..Len(grid) :
                     \E row : From(Bodies(f), Len(f), FirstTable(f), row) /\ grid[r] = Stripped(row)
<1> DEFINE grid == ReadGrid(f)
           rows == CombinedGrid(f)
           raw == f[FirstTable(f)][1]
<1>1. f \in Seq(RawGrid) /\ grid \in Grid /\ HeaderRows(grid) # {}
  BY ParsedRowsAre
<1>2. /\ rows \in RawGrid /\ DOMAIN grid = DOMAIN rows
      /\ \A r \in DOMAIN rows : grid[r] = Stripped(rows[r])
  BY <1>1, ReadGridIs, CombinedGridTyped
<1>3. \E t \in DOMAIN f : f[t] # <<>>
  <2>1. DOMAIN grid # {}
    BY <1>1 DEF HeaderRows
  <2>2. rows # <<>>
    BY <1>2, <2>1
  <2> HIDE DEF rows
  <2> QED BY <1>1, <2>2, CombinedGridEmpty DEF rows
<1>4. FirstTable(f) \in 1..Len(f)
  BY <1>1, <1>3, FirstTableIs
<1>5. /\ Flat(rows, Bodies(f), Len(f), FirstTable(f), RawRow)
      /\ Bodies(f)[FirstTable(f)] = f[FirstTable(f)]
  BY <1>1, <1>3, CombinedGridFlat
<1>6. Len(f) \in Nat /\ FirstTable(f) \in Nat /\ Len(f) >= FirstTable(f)
  BY <1>1, <1>4
<1> HIDE DEF grid, rows
<1>7. /\ rows # <<>> /\ rows[1] = raw
      /\ \A r \in 2..Len(rows) : From(Bodies(f), Len(f), FirstTable(f), rows[r])
  BY <1>5, <1>6 DEF Flat
<1> HIDE DEF raw
<1>8. 1 \in DOMAIN rows /\ rows[1] \in RawRow /\ Len(grid) = Len(rows) /\ Len(rows) \in Nat
      /\ DOMAIN rows = 1..Len(rows)
  BY <1>1, <1>2, <1>7 DEF RawGrid, Grid
<1>9. grid[1] = Stripped(raw) /\ Stripped(raw) \in Row
  BY <1>2, <1>7, <1>8, StrippedIs
<1>10. 1 \in HeaderRows(grid)
  BY <1>2, <1>8, <1>9 DEF HeaderRows, raw
<1>11. HeaderIndex(grid) = 1
  BY <1>1, <1>10, HeaderIndexIs
<1>12. ASSUME NEW r \in 2..Len(grid)
       PROVE  \E row : From(Bodies(f), Len(f), FirstTable(f), row) /\ grid[r] = Stripped(row)
  <2>1. r \in 2..Len(rows) /\ r \in DOMAIN rows
    BY <1>8
  <2> QED BY <1>2, <1>7, <2>1
<1> QED BY <1>9, <1>11, <1>12 DEF grid, raw

LEMMA HeadersDropped ==
    ASSUME NEW f \in Files, ParsedRows(f) # <<>>
    PROVE  LET raw == f[FirstTable(f)][1]
               header == Stripped(raw)
           IN  /\ Cardinality(NonEmpty(header)) >= 2
               /\ \A t \in DOMAIN f : \A r \in DOMAIN f[t] :
                     ReadsLike(Stripped(f[t][r]), header) => r = 1 /\ f[t][r] = raw
               => \A k \in DOMAIN ParsedRows(f) : \E c \in DOMAIN header :
                     ParsedRows(f)[k][Headers(header)[c]] # header[c]
<1> DEFINE grid == ReadGrid(f)
           p == FirstTable(f)
           raw == f[p][1]
           header == Stripped(raw)
           data == DataRows(grid)
<1> SUFFICES ASSUME Cardinality(NonEmpty(header)) >= 2,
                    \A t \in DOMAIN f : \A r \in DOMAIN f[t] :
                        ReadsLike(Stripped(f[t][r]), header) => r = 1 /\ f[t][r] = raw,
                    NEW k \in DOMAIN ParsedRows(f)
             PROVE  \E c \in DOMAIN header : ParsedRows(f)[k][Headers(header)[c]] # header[c]
  OBVIOUS
<1>1. /\ HeaderIndex(grid) = 1 /\ grid[1] = header /\ header \in Row
      /\ \A r \in 2..Len(grid) :
            \E row : From(Bodies(f), Len(f), p, row) /\ grid[r] = Stripped(row)
  BY HeaderOnTop
<1>2. /\ f \in Seq(RawGrid) /\ grid \in Grid /\ k \in DOMAIN data
      /\ ParsedRows(f)[k] = RawData(Headers(grid[HeaderIndex(grid)]), data[k])
  BY ParsedRowsAre
<1>2a. ParsedRows(f)[k] = RawData(Headers(header), data[k])
  BY <1>1, <1>2
<1>3. PICK r \in DataIndices(grid) : data[k] = grid[r]
  BY <1>2, DataRowsAre
<1>4. r \in 2..Len(grid)
  BY <1>1, <1>2, <1>3 DEF DataIndices, Grid
\* The row is one that does not read like the header.
<1>4a. PICK row : From(Bodies(f), Len(f), p, row) /\ data[k] = Stripped(row)
  BY <1>1, <1>3, <1>4
<1>5. ~ReadsLike(data[k], header)
  <2>0. PICK t \in 1..Len(f) : \E j \in DOMAIN Bodies(f)[t] :
           <<t, j>> # <<p, 1>> /\ row = Bodies(f)[t][j]
    BY <1>4a DEF From
  <2>1. PICK j \in DOMAIN Bodies(f)[t] : <<t, j>> # <<p, 1>> /\ row = Bodies(f)[t][j]
    BY <2>0
  <2>2. f[t] \in RawGrid /\ DOMAIN f = 1..Len(f)
    BY <1>2
  <2>3. CASE Repeats(f, t)
    <3>1. Bodies(f)[t] = Tail(f[t]) /\ f[t] # <<>>
      BY <2>2, <2>3 DEF Bodies, Repeats
    <3>2. j + 1 \in DOMAIN f[t] /\ row = f[t][j + 1] /\ j + 1 # 1
      BY <2>1, <2>2, <3>1 DEF RawGrid
    <3> QED BY <1>4a, <2>2, <3>2
  <2>4. CASE ~Repeats(f, t)
    <3>1. j \in DOMAIN f[t] /\ row = f[t][j] /\ f[t] # <<>> /\ j \in Nat
      BY <2>1, <2>2, <2>4 DEF Bodies, RawGrid
    <3>2. CASE j = 1
      <4>1. p \in 1..Len(f) /\ (\A i \in 1..(p - 1) : f[i] = <<>>)
        <5>1. \E i \in DOMAIN f : f[i] # <<>>
          BY <2>2, <3>1
        <5> QED BY <1>2, <5>1, FirstTableIs
      <4>2. t # p /\ ~(t < p)
        BY <2>1, <3>1, <3>2, <4>1
      <4>3. t > p
        BY <4>1, <4>2
      <4>4. f[t][1] # raw
        BY <2>4, <3>1, <4>3 DEF Repeats
      <4> QED BY <1>4a, <2>2, <3>1, <3>2, <4>4
    <3>3. CASE j # 1
      BY <1>4a, <2>2, <3>1, <3>3
    <3> QED BY <3>2, <3>3
  <2> QED BY <2>3, <2>4
<1> HIDE DEF data, header
<1>6. PICK c \in DOMAIN header : Cell(data[k], c) # header[c]
  BY <1>5 DEF ReadsLike
<1>7. PICK m \in DOMAIN header :
          /\ Headers(header)[m] = Headers(header)[c]
          /\ RawData(Headers(header), data[k])[Headers(header)[c]] = Cell(data[k], m)
  BY <1>1, RawDataIs
<1>8. CASE m = c
  BY <1>2a, <1>6, <1>7, <1>8
<1>9. CASE m # c
  <2>1. HeaderName(header, m) = HeaderName(header, c)
    BY <1>7 DEF Headers
  <2>2. header[m] # header[c]
    BY <1>1, <1>9, <2>1, SameNameOtherHeader
  <2> QED BY <1>2a, <1>7, <2>2
<1> QED BY <1>8, <1>9

----------------------------------------------------------------------------
(***************************************************************************)
(* The rows of a list are what its file was parsed to                      *)
(***************************************************************************)
FileInv ==
    /\ upload \in 0..MaxUploads /\ stored \subseteq 1..upload
    /\ pc = "created" => upload # 0
    /\ pc # "idle" \/ run # Null => file \in Files
    /\ pc = "idle" => tx = Null
    /\ run # Null => run.rows = ParsedRows(file) /\ run.proposed \in Mapping(run) \cup {Null}
    /\ pc = "propose" => claimed \in Mapping(tx)
    /\ pc = "commit" => tx.rows = ParsedRows(file) /\ tx.proposed \in Mapping(tx) \cup {Null}

LEMMA UploadListFile ==
    ASSUME Inv, FileInv, NEW f \in Files, UploadList(f)
    PROVE  FileInv'
<1>1. upload \in 0..MaxUploads /\ upload < MaxUploads /\ upload' = upload + 1
  BY DEF UploadList, FileInv
<1>2. upload' \in 0..MaxUploads /\ upload' # 0 /\ 1..upload \subseteq 1..upload'
  BY <1>1, MaxUploadsAssumption
<1>3. stored' \subseteq 1..upload'
  BY <1>2 DEF UploadList, FileInv
<1> QED BY <1>2, <1>3 DEF UploadList, FileInv

LEMMA UploadSourceFileFile ==
    ASSUME Inv, FileInv, UploadSourceFile
    PROVE  FileInv'
<1>1. upload \in 0..MaxUploads /\ upload # 0 /\ stored \subseteq 1..upload
  BY DEF UploadSourceFile, FileInv
<1>2. upload \in 1..upload
  BY <1>1
<1>3. stored' \subseteq 1..upload'
  BY <1>1, <1>2 DEF UploadSourceFile
<1> QED BY <1>3 DEF UploadSourceFile, FileInv, Mapping, HeadersOf

LEMMA ParseFileFile == ASSUME Inv, FileInv, ParseFile PROVE FileInv'
<1>1. /\ tx = [NewRun EXCEPT !.key = upload] /\ pc' = "commit"
      /\ tx' = [tx EXCEPT !.rows = ParsedRows(file), !.status = "mapping_pending"]
      /\ UNCHANGED <<upload, file, stored, run, claimed>>
  BY DEF Inv, ParseFile
<1>2. tx'.rows = ParsedRows(file) /\ tx'.proposed = Null
  BY <1>1 DEF NewRun
<1>3. file \in Files
  BY DEF FileInv, ParseFile
<1> QED BY <1>1, <1>2, <1>3 DEF FileInv, Mapping, HeadersOf

LEMMA EndFile == ASSUME Inv, FileInv, Commit \/ RollBack PROVE FileInv'
<1>1. CASE Commit
  BY <1>1 DEF FileInv, Commit, Mapping, HeadersOf
<1>2. CASE RollBack
  BY <1>2 DEF FileInv, RollBack, Mapping, HeadersOf
<1> QED BY <1>1, <1>2

LEMMA ProposeFile ==
    ASSUME Inv, FileInv, ProposeMapping \/ FinishProposal \/ \E p \in Fields \X HeadersOf(tx) : Claim(p)
    PROVE  FileInv'
<1>1. CASE ProposeMapping
  <2>1. /\ claimed' = [f \in Fields |-> Null] /\ tx' = run /\ pc' = "propose" /\ run # Null
        /\ UNCHANGED <<upload, file, stored, run>>
    BY <1>1 DEF ProposeMapping
  <2>2. claimed' \in Mapping(tx)'
    BY <2>1 DEF Mapping
  <2> QED BY <2>1, <2>2 DEF FileInv, Mapping, HeadersOf
<1>2. CASE FinishProposal
  <2>1. /\ IsRun(tx) /\ tx' = [tx EXCEPT !.proposed = claimed] /\ pc' = "commit"
        /\ tx.rows = ParsedRows(file) /\ claimed \in Mapping(tx) /\ file \in Files
        /\ UNCHANGED <<upload, file, stored, run, claimed>>
    BY <1>2 DEF FinishProposal, Inv, Complete, FileInv
  <2>2. tx'.rows = tx.rows /\ tx'.proposed = claimed
    BY <2>1 DEF IsRun
  <2>3. tx'.proposed \in Mapping(tx)'
    BY <2>1, <2>2 DEF Mapping, HeadersOf
  <2> QED BY <2>1, <2>2, <2>3 DEF FileInv, Mapping, HeadersOf
<1>3. ASSUME NEW p \in Fields \X HeadersOf(tx), Claim(p) PROVE FileInv'
  <2>1. /\ pc = "propose" /\ claimed' = [claimed EXCEPT ![p[1]] = p[2]]
        /\ UNCHANGED <<pc, upload, file, stored, tx, run>>
    BY <1>3 DEF Claim
  <2>2. claimed' \in Mapping(tx)
    BY <2>1 DEF FileInv, Mapping
  <2> QED BY <2>1, <2>2 DEF FileInv, Mapping, HeadersOf
<1> QED BY <1>1, <1>2, <1>3

LEMMA ConfirmMappingFile == ASSUME Inv, FileInv, NEW mapping, ConfirmMapping(mapping) PROVE FileInv'
<1>1. /\ IsRun(run) /\ run # Null /\ pc' = "commit"
      /\ tx' = [run EXCEPT !.confirmed = mapping, !.status = "mapping_confirmed"]
      /\ UNCHANGED <<upload, file, stored, run, claimed>>
  BY DEF ConfirmMapping, Inv, Complete
<1>2. tx'.rows = run.rows /\ tx'.proposed = run.proposed
  BY <1>1 DEF IsRun
<1> QED BY <1>1, <1>2 DEF FileInv, Mapping, HeadersOf

LEMMA FileStep == ASSUME Inv, FileInv, [Next]_vars PROVE FileInv'
<1>1. CASE UNCHANGED vars
  BY <1>1 DEF FileInv, Mapping, HeadersOf, vars
<1>2. CASE Next /\ pc = "propose"
  BY <1>2, ClaimedPairs, ProposeFile, EndFile
<1>3. CASE Next /\ pc # "propose"
  <2>1. ~\E p \in Fields \X (IF tx = Null \/ tx.rows = <<>> THEN {} ELSE HeadersOf(tx)) : Claim(p)
    BY <1>3 DEF Claim
  <2> QED BY <1>3, <2>1, UploadListFile, UploadSourceFileFile, ParseFileFile, EndFile, ProposeFile,
             ConfirmMappingFile DEF Next
<1> QED BY <1>1, <1>2, <1>3

LEMMA FileInvariance == Spec => []FileInv
<1>1. Init => FileInv
  BY MaxUploadsAssumption DEF Init, FileInv
<1> QED BY <1>1, FileStep, Invariance, PTL DEF Spec

\* A list has the rows of its file, all with the same keys, and NULL is none.
LEMMA RunRows ==
    ASSUME Inv, FileInv, run # Null
    PROVE  /\ file \in Files /\ run.rows = ParsedRows(file) /\ ParsedRows(file) # <<>>
           /\ Null \notin HeadersOf(run)
           /\ \A k \in DOMAIN run.rows : DOMAIN run.rows[k] = HeadersOf(run)
<1>1. file \in Files /\ run.rows = ParsedRows(file) /\ run.rows # <<>>
  BY DEF Inv, FileInv, Complete
<1>2. 1 \in DOMAIN ParsedRows(file)
  BY <1>1, ParsedRowsAre
<1>3. Null \notin DOMAIN ParsedRows(file)[1]
  BY <1>1, <1>2, NullIsNoHeader
<1>4. \A k \in DOMAIN ParsedRows(file) : DOMAIN ParsedRows(file)[k] = DOMAIN ParsedRows(file)[1]
  BY <1>1, SameKeys
<1> QED BY <1>1, <1>3, <1>4 DEF HeadersOf

\* Requests and transactions have the form the code gives them, however many
\* uploads fail, and every row of a list has the keys of its first row.
THEOREM IntakeTypes == Spec => []TypeOK
<1>1. Inv /\ FileInv => TypeOK
  <2> SUFFICES ASSUME Inv, FileInv PROVE TypeOK
    OBVIOUS
  <2>1. pc \in {"idle", "created", "stored", "propose", "commit"}
    BY DEF Inv
  <2>2. stored \subseteq 1..upload /\ upload <= MaxUploads /\ (pc = "idle" => tx = Null)
        /\ (pc = "propose" => claimed \in Mapping(tx))
    BY MaxUploadsAssumption DEF FileInv
  <2>3. ASSUME pc # "idle"
        PROVE  DOMAIN tx = DOMAIN NewRun /\ (tx.rows = <<>> <=> pc \in {"created", "stored"})
    <3>1. CASE pc = "created"
      BY <3>1 DEF Inv, NewRun
    <3>2. CASE pc = "stored"
      BY <3>2 DEF Inv, NewRun
    <3>3. CASE pc \in {"propose", "commit"}
      <4>1. Complete(tx)
        BY <3>3 DEF Inv
      <4> QED BY <3>3, <4>1 DEF Complete, IsRun, NewRun
    <3> QED BY <2>1, <2>3, <3>1, <3>2, <3>3
  <2>4. run # Null => /\ Null \notin HeadersOf(run)
                      /\ run.proposed \in Mapping(run) \cup {Null}
                      /\ \A k \in DOMAIN run.rows : DOMAIN run.rows[k] = HeadersOf(run)
    BY RunRows DEF FileInv
  <2> QED BY <2>1, <2>2, <2>3, <2>4 DEF TypeOK
<1> QED BY <1>1, Invariance, FileInvariance, PTL

\* For every file: no cell under a plain header is lost, blank and repeated headers
\* included.
THEOREM CellsStay == Spec => []PlainHeadersKeepCells
<1>1. Inv /\ FileInv => PlainHeadersKeepCells
  <2> SUFFICES ASSUME Inv, FileInv, run # Null PROVE PlainHeadersKeepCells
    BY DEF PlainHeadersKeepCells
  <2>1. file \in Files /\ run.rows = ParsedRows(file) /\ ParsedRows(file) # <<>>
    BY RunRows
  <2>2. Len(ParsedRows(file)) = Len(DataRows(ReadGrid(file)))
    BY <2>1, ParsedRowsAre
  <2> QED BY <2>1, <2>2, CellsKept DEF PlainHeadersKeepCells
<1> QED BY <1>1, Invariance, FileInvariance, PTL

\* For every catalog that begins with its header and repeats it, to the last raw cell,
\* on later pages, and has no other row that reads like it: no row of the list is a
\* header.
THEOREM NoHeaderAmongRows == Spec => []RepeatedHeadersAreDropped
<1>1. Inv /\ FileInv => RepeatedHeadersAreDropped
  <2> SUFFICES ASSUME Inv, FileInv, run # Null PROVE RepeatedHeadersAreDropped
    BY DEF RepeatedHeadersAreDropped
  <2>1. file \in Files /\ run.rows = ParsedRows(file) /\ ParsedRows(file) # <<>>
    BY RunRows
  <2> QED BY <2>1, HeadersDropped DEF RepeatedHeadersAreDropped
<1> QED BY <1>1, Invariance, FileInvariance, PTL
=============================================================================
