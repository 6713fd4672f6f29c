------------------------- MODULE SharedVault_proofs -------------------------
(***************************************************************************)
(* The shared vault keeps what it promises: no version lacks an object of  *)
(* an earlier one that no user removed.                                    *)
(***************************************************************************)
EXTENDS SharedVault, TLAPS

(* Retained follows from what is on its way as much as from what is stored: *)
(* every proposal carries the version it was computed from.                 *)
Honest ==
  /\ versions \in Seq(SUBSET Item) /\ versions # <<>>
  /\ proposals \subseteq [rev : 1..Len(versions), items : SUBSET Item]
  /\ \A p \in proposals : Carries(p.items, p.rev)

VaultInv == Honest /\ Retained

(* Appending a version leaves the earlier ones where they are. *)
LEMMA AppendVersion ==
  ASSUME versions \in Seq(SUBSET Item), NEW S \in SUBSET Item,
         versions' = Append(versions, S)
  PROVE  /\ versions' \in Seq(SUBSET Item) /\ Len(versions') = Len(versions) + 1
         /\ \A n \in 1..Len(versions) : versions'[n] = versions[n]
         /\ versions'[Len(versions) + 1] = S
  OBVIOUS

(* The invariant holds of the collection the account starts with. *)
LEMMA InitVault == ASSUME Original \subseteq Item, VaultInit PROVE VaultInv
<1>1. Len(versions) = 1 /\ versions[1] = Original /\ versions \in Seq(SUBSET Item)
  BY DEF VaultInit
<1>2. Honest
  BY <1>1 DEF VaultInit, Honest
<1>3. Retained
  BY <1>1 DEF Retained, Carries, Ids
<1>4. QED
  BY <1>2, <1>3 DEF VaultInv

(* Every step of the vault keeps it. *)
LEMMA StepVault == ASSUME VaultInv, [VaultNext]_vaultVars PROVE VaultInv'
<1> USE DEF VaultInv, Honest
<1>1. ASSUME NEW id \in Id, Remove(id) PROVE VaultInv'
  BY <1>1 DEF Remove, Retained, Carries
<1>2. ASSUME NEW n \in 1..Len(versions), NEW S \in SUBSET Item, Propose(n, S)
      PROVE  VaultInv'
  BY <1>2 DEF Propose, Retained, Carries
<1>3. ASSUME NEW p \in proposals, Accept(p) PROVE VaultInv'
  <2>1. /\ p.items \in SUBSET Item /\ versions' = Append(versions, p.items)
        /\ p.rev = Len(versions) /\ Carries(p.items, Len(versions))
        /\ proposals' \subseteq proposals /\ removed' = removed
    BY <1>3 DEF Accept
  <2>2. /\ versions' \in Seq(SUBSET Item) /\ Len(versions') = Len(versions) + 1
        /\ \A n \in 1..Len(versions) : versions'[n] = versions[n]
        /\ versions'[Len(versions) + 1] = p.items
    BY <2>1, AppendVersion
  <2>3. Len(versions) \in Nat \ {0} /\ versions' # <<>>
    BY <2>2
  <2>4. Honest'
    <3>1. proposals' \subseteq [rev : 1..Len(versions'), items : SUBSET Item]
      BY <2>1, <2>2, <2>3
    <3>2. ASSUME NEW q \in proposals' PROVE Carries(q.items, q.rev)'
      <4>1. q \in proposals /\ q.rev \in 1..Len(versions)
        BY <2>1
      <4>2. versions'[q.rev] = versions[q.rev]
        BY <2>2, <4>1
      <4>3. QED
        BY <2>1, <4>1, <4>2 DEF Carries
    <3>3. QED
      BY <2>2, <2>3, <3>1, <3>2
  <2>5. Retained'
    <3> SUFFICES ASSUME NEW m \in 1..Len(versions'), NEW n \in 1..Len(versions'), m <= n
                 PROVE  Ids(versions'[m]) \ removed \subseteq Ids(versions'[n])
      BY <2>1 DEF Retained, Carries
    <3>1. CASE n \in 1..Len(versions)
      <4>1. m \in 1..Len(versions)
        BY <2>3, <3>1
      <4>2. QED
        BY <2>2, <3>1, <4>1 DEF Retained, Carries
    <3>2. CASE m \in 1..Len(versions) /\ n = Len(versions) + 1
      <4>1. Ids(versions[m]) \ removed \subseteq Ids(versions[Len(versions)])
        BY <2>3, <3>2 DEF Retained, Carries
      <4>2. Ids(versions[Len(versions)]) \ removed \subseteq Ids(p.items)
        BY <2>1 DEF Carries
      <4>3. QED
        BY <2>2, <3>2, <4>1, <4>2
    <3>3. CASE m = Len(versions) + 1 /\ n = m
      BY <3>3
    <3>4. QED
      BY <2>2, <2>3, <3>1, <3>2, <3>3
  <2>6. QED
    BY <2>4, <2>5
<1>4. CASE Drop
  BY <1>4 DEF Drop, Retained, Carries
<1>5. CASE UNCHANGED vaultVars
  BY <1>5 DEF vaultVars, Retained, Carries
<1>6. QED
  BY <1>1, <1>2, <1>3, <1>4, <1>5 DEF VaultNext

(* Whatever writers propose and in whatever order it is accepted, refused   *)
(* or lost, an object of some version that no user removed is in every      *)
(* later one: the promise of mergeStorage and of the revision check.        *)
THEOREM NothingIsLost ==
  ASSUME Original \subseteq Item
  PROVE  VaultSpec => []Retained
<1>1. VaultInit => VaultInv
  BY InitVault
<1>2. VaultInv /\ [VaultNext]_vaultVars => VaultInv'
  BY StepVault
<1>3. VaultInv => Retained
  BY DEF VaultInv
<1>4. QED
  BY <1>1, <1>2, <1>3, PTL DEF VaultSpec
=============================================================================
