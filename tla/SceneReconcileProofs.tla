-------------------------- MODULE SceneReconcileProofs --------------------------
(***************************************************************************)
(* Proofs about SceneReconcile for every set of edits and files: merging   *)
(* is independent of the order of the broadcasts.  The invariant is that   *)
(* every element received is in the snapshot or superseded by one in it.   *)
(***************************************************************************)
EXTENDS SceneReconcile, TLAPS

Covered ==
    \A r \in received : \E e \in elements : e = r \/ Supersedes(e, r)

Merged == TypeOK /\ elements \subseteq received /\ Covered

\* Supersedes orders the states of an element strictly.
LEMMA SupersedesOrder ==
    ASSUME NEW e \in Edits, NEW f \in Edits, NEW g \in Edits
    PROVE  /\ ~Supersedes(e, e)
           /\ Supersedes(e, f) => ~Supersedes(f, e)
           /\ Supersedes(e, f) /\ Supersedes(f, g) => Supersedes(e, g)
           /\ DiscardsRemote(e, f) /\ e.id = f.id <=> Supersedes(e, f)
           /\ e.id = f.id => e = f \/ Supersedes(e, f) \/ Supersedes(f, e)
<1>1. /\ e.version \in Nat /\ e.nonce \in Nat
      /\ f.version \in Nat /\ f.nonce \in Nat
      /\ g.version \in Nat /\ g.nonce \in Nat
  BY EditsAssumption
<1>2. e.id = f.id /\ e.version = f.version /\ e.nonce = f.nonce => e = f
  BY EditsAssumption
<1> QED  BY <1>1, <1>2 DEF Supersedes, DiscardsRemote

\* What merging two scenes yields: a scene, made of the two, that covers both.
LEMMA ReconcileCovers ==
    ASSUME NEW local \in Scenes, NEW remote \in Scenes
    PROVE  LET merged == ReconcileElements(local, remote) IN
           /\ merged \in Scenes
           /\ merged \subseteq local \cup remote
           /\ \A e \in local \cup remote :
                 \E f \in merged : f = e \/ Supersedes(f, e)
<1> DEFINE merged == ReconcileElements(local, remote)
<1>1. /\ local \subseteq Edits /\ IsScene(local)
      /\ remote \subseteq Edits /\ IsScene(remote)
  BY DEF Scenes
<1>2. merged \subseteq local \cup remote /\ merged \subseteq Edits
  BY <1>1 DEF ReconcileElements
<1>3. ASSUME NEW e \in merged, NEW f \in merged, e.id = f.id PROVE e = f
  <2>1. CASE e \in local /\ f \in local
    BY <1>1, <1>3, <2>1 DEF IsScene
  <2>2. CASE e \in remote /\ f \in remote
    BY <1>1, <1>3, <2>2 DEF IsScene
  <2>3. ASSUME NEW l \in local, NEW r \in remote, l \in merged, r \in merged, l.id = r.id
        PROVE  l = r
    <3>1. r \in local \/ ~DiscardsRemote(l, r)
      BY <1>1, <2>3 DEF ReconcileElements
    <3>2. l \in remote \/ DiscardsRemote(l, r)
      BY <1>1, <2>3 DEF ReconcileElements
    <3>3. CASE r \in local  BY <1>1, <2>3, <3>3 DEF IsScene
    <3>4. CASE l \in remote  BY <1>1, <2>3, <3>4 DEF IsScene
    <3> QED  BY <3>1, <3>2, <3>3, <3>4
  <2> QED  BY <1>2, <1>3, <2>1, <2>2, <2>3
<1>4. merged \in Scenes
  BY <1>2, <1>3 DEF Scenes, IsScene
<1>5. ASSUME NEW l \in local PROVE \E f \in merged : f = l \/ Supersedes(f, l)
  <2>1. CASE l \in merged  BY <2>1
  <2>2. CASE l \notin merged
    <3>1. PICK r \in remote : r.id = l.id /\ ~DiscardsRemote(l, r)
      BY <2>2 DEF ReconcileElements
    <3>2. \A k \in local : k.id = r.id => k = l
      BY <1>1, <3>1 DEF IsScene
    <3>3. r \in merged
      BY <3>1, <3>2 DEF ReconcileElements
    <3>4. r = l \/ Supersedes(r, l)
      BY <1>1, <3>1, SupersedesOrder
    <3> QED  BY <3>3, <3>4
  <2> QED  BY <2>1, <2>2
<1>6. ASSUME NEW r \in remote PROVE \E f \in merged : f = r \/ Supersedes(f, r)
  <2>1. CASE r \in merged  BY <2>1
  <2>2. CASE r \notin merged
    <3>1. PICK l \in local : l.id = r.id /\ DiscardsRemote(l, r)
      BY <2>2 DEF ReconcileElements
    <3>2. \A k \in remote : k.id = l.id => k = r
      BY <1>1, <3>1 DEF IsScene
    <3>3. l \in merged
      BY <3>1, <3>2 DEF ReconcileElements
    <3>4. Supersedes(l, r)
      BY <1>1, <3>1, SupersedesOrder
    <3> QED  BY <3>3, <3>4
  <2> QED  BY <2>1, <2>2
<1> QED  BY <1>2, <1>4, <1>5, <1>6

\* A file store that takes in another has the files of both.
LEMMA FilesReconcile ==
    ASSUME NEW local \in Store, NEW remote \in Store
    PROVE  /\ ReconcileFiles(local, remote) \in Store
           /\ Present(local) \subseteq Present(ReconcileFiles(local, remote))
BY DEF Store, Present, ReconcileFiles

\* Whatever is saved is a scene with a file store.
LEMMA PrepareTyped ==
    ASSUME TypeOK, NEW keep \in BOOLEAN
    PROVE  PrepareContentForSave(keep) \in [elements : Scenes, files : Store]
BY DEF TypeOK, PrepareContentForSave, Scenes, IsScene, Store

LEMMA MergedInit == Init => Merged
<1> SUFFICES ASSUME Init PROVE Merged
  OBVIOUS
<1>1. {} \in Scenes /\ NoFiles \in Store
  BY DEF Scenes, IsScene, NoFiles, Store
<1>2. TypeOK
  BY <1>1 DEF Init, TypeOK
<1>3. elements \subseteq received /\ Covered
  BY DEF Init, Covered
<1> QED  BY <1>2, <1>3 DEF Merged

\* Merged is inductive.
LEMMA MergedStep == Merged /\ [Next]_vars => Merged'
<1> SUFFICES ASSUME Merged, [Next]_vars PROVE Merged'
  OBVIOUS
<1>1. CASE LoadSnapshot
  BY <1>1 DEF LoadSnapshot, Merged, TypeOK, Covered, Scenes
<1>2. ASSUME NEW scene \in Scenes, NEW store \in Store, Reconcile(scene, store)
      PROVE  Merged'
  <2>1. elements \in Scenes /\ files \in Store /\ received \subseteq Edits
    BY DEF Merged, TypeOK
  <2>2. /\ elements' \in Scenes
        /\ elements' \subseteq elements \cup scene
        /\ \A e \in elements \cup scene : \E f \in elements' : f = e \/ Supersedes(f, e)
    BY <1>2, <2>1, ReconcileCovers DEF Reconcile
  <2>3. scene \subseteq Edits /\ elements' \subseteq Edits
    BY <2>2 DEF Scenes
  <2>4. TypeOK'
    BY <1>2, <2>1, <2>2, <2>3, FilesReconcile DEF Reconcile, Merged, TypeOK
  <2>5. ASSUME NEW r \in received' PROVE \E f \in elements' : f = r \/ Supersedes(f, r)
    <3>1. r \in Edits /\ (r \in received \/ r \in scene)
      BY <1>2, <2>1, <2>3 DEF Reconcile
    <3>2. CASE r \in scene  BY <2>2, <3>2
    <3>3. CASE r \in received
      <4>1. PICK e \in elements : e = r \/ Supersedes(e, r)
        BY <3>3 DEF Merged, Covered
      <4>2. PICK f \in elements' : f = e \/ Supersedes(f, e)
        BY <2>2
      <4>3. e \in Edits /\ f \in Edits
        BY <2>1, <2>3 DEF Scenes
      <4>4. f = r \/ Supersedes(f, r)
        BY <3>1, <4>1, <4>2, <4>3, SupersedesOrder
      <4> QED  BY <4>4
    <3> QED  BY <3>1, <3>2, <3>3
  <2>6. elements' \subseteq received'
    BY <1>2, <2>2 DEF Reconcile, Merged
  <2> QED  BY <2>4, <2>5, <2>6 DEF Merged, Covered
<1>3. CASE AutoSave
  <2>1. TypeOK'
    BY <1>3, PrepareTyped DEF AutoSave, Merged, TypeOK, Present
  <2> QED  BY <1>3, <2>1 DEF AutoSave, Merged, Covered
<1>4. CASE CloseRoom
  <2>1. TypeOK'
    BY <1>4, PrepareTyped
       DEF CloseRoom, Merged, TypeOK, Present, Scenes, IsScene, Store, NoFiles
  <2> QED  BY <1>4, <2>1 DEF CloseRoom, Merged, Covered
<1>5. CASE UNCHANGED vars
  BY <1>5 DEF vars, Merged, TypeOK, Covered
<1> QED  BY <1>1, <1>2, <1>3, <1>4, <1>5 DEF Next

LEMMA MergedInvariant == Spec => []Merged
BY MergedInit, MergedStep, PTL DEF Spec

\* The snapshot and what is saved are scenes: at most one state of an element.
THEOREM ScenesAreWellFormed == Spec => []TypeOK
<1>1. Merged => TypeOK  BY DEF Merged
<1> QED  BY <1>1, MergedInvariant, PTL

\* The snapshot depends on the set of broadcasts received and not on their order.
THEOREM OrderDoesNotMatter == Spec => []NewestWins
<1>1. ASSUME Merged PROVE NewestWins
  <2>1. elements \subseteq Edits /\ IsScene(elements) /\ received \subseteq Edits
    BY <1>1 DEF Merged, TypeOK, Scenes
  <2>2. ASSUME NEW e \in elements, NEW f \in received, Supersedes(f, e) PROVE FALSE
    <3>1. PICK g \in elements : g = f \/ Supersedes(g, f)
      BY <1>1 DEF Merged, Covered
    <3>2. g = e
      BY <2>1, <2>2, <3>1 DEF IsScene, Supersedes
    <3> QED  BY <2>1, <2>2, <3>1, <3>2, SupersedesOrder
  <2>3. ASSUME NEW r \in Newest(received) PROVE r \in elements
    <3>1. r \in received
      BY DEF Newest
    <3>2. PICK e \in elements : e = r \/ Supersedes(e, r)
      BY <1>1, <3>1 DEF Merged, Covered
    <3>3. ~Supersedes(e, r)
      BY <1>1, <3>2 DEF Merged, Newest
    <3> QED  BY <3>2, <3>3
  <2>4. elements \subseteq Newest(received)
    BY <1>1, <2>2 DEF Merged, Newest
  <2> QED  BY <2>3, <2>4 DEF NewestWins
<1> QED  BY <1>1, MergedInvariant, PTL

\* While a room is open, elements only get newer and files only come.
THEOREM EditsOnlyMoveForward == Spec => OnlyForward
<1> DEFINE Forward ==
      open /\ open' =>
          /\ \A e \in elements : \E f \in elements' : f = e \/ Supersedes(f, e)
          /\ Present(files) \subseteq Present(files')
<1>1. ASSUME Merged, [Next]_vars PROVE Forward
  <2>1. ASSUME NEW scene \in Scenes, NEW store \in Store, Reconcile(scene, store)
        PROVE  Forward
    <3>1. elements \in Scenes /\ files \in Store
      BY <1>1 DEF Merged, TypeOK
    <3>2. \A e \in elements : \E f \in elements' : f = e \/ Supersedes(f, e)
      BY <2>1, <3>1, ReconcileCovers DEF Reconcile
    <3>3. Present(files) \subseteq Present(files')
      BY <2>1, <3>1, FilesReconcile DEF Reconcile, Present
    <3> QED  BY <3>2, <3>3
  <2>2. CASE LoadSnapshot \/ CloseRoom
    BY <2>2 DEF LoadSnapshot, CloseRoom
  <2>3. CASE AutoSave \/ UNCHANGED vars
    BY <2>3 DEF AutoSave, vars, Present
  <2> QED  BY <1>1, <2>1, <2>2, <2>3 DEF Next
<1> QED  BY <1>1, MergedInvariant, PTL DEF Spec, OnlyForward

\* Every saved image whose file the snapshot had is saved with it.
THEOREM ImagesKeepTheirFiles == Spec => []ImageSavedWithFile
<1>1. Init => ImageSavedWithFile
  BY DEF Init, ImageSavedWithFile
<1>2. ASSUME Merged, ImageSavedWithFile, [Next]_vars PROVE ImageSavedWithFile'
  <2>1. ASSUME NEW keep \in BOOLEAN, saved' = PrepareContentForSave(keep),
               known' = Present(files)
        PROVE  ImageSavedWithFile'
    <3> SUFFICES ASSUME NEW e \in saved'.elements, e.file \in known'
                 PROVE  saved'.files[e.file] # "absent"
      BY DEF ImageSavedWithFile
    <3>1. e \in elements /\ e.file \in Files /\ files[e.file] # "absent"
      BY <2>1 DEF PrepareContentForSave, Present
    <3> QED  BY <2>1, <3>1 DEF PrepareContentForSave
  <2>2. CASE AutoSave  BY <2>1, <2>2 DEF AutoSave
  <2>3. CASE CloseRoom  BY <2>1, <2>3 DEF CloseRoom
  <2>4. CASE UNCHANGED <<saved, known>>
    BY <1>2, <2>4 DEF ImageSavedWithFile
  <2> QED
    BY <1>2, <2>2, <2>3, <2>4 DEF Next, LoadSnapshot, Reconcile, vars
<1> QED  BY <1>1, <1>2, MergedInvariant, PTL DEF Spec


-----------------------------------------------------------------------------
(* Merging scenes.                                                          *)

\* A merge is the newest state of every element of both scenes.
LEMMA ReconcileIsNewest ==
    ASSUME NEW local \in Scenes, NEW remote \in Scenes
    PROVE  ReconcileElements(local, remote) = Newest(local \cup remote)
<1> DEFINE merged == ReconcileElements(local, remote)
           all == local \cup remote
<1>1. /\ merged \in Scenes /\ merged \subseteq all
      /\ \A e \in all : \E f \in merged : f = e \/ Supersedes(f, e)
  BY ReconcileCovers
<1> HIDE DEF merged
<1>2. merged \subseteq Edits /\ all \subseteq Edits /\ IsScene(merged)
  BY <1>1 DEF Scenes
<1>3. ASSUME NEW e \in merged, NEW f \in all, Supersedes(f, e) PROVE FALSE
  <2>1. PICK g \in merged : g = f \/ Supersedes(g, f)
    BY <1>1
  <2>2. Supersedes(g, e)
    BY <1>1, <1>2, <1>3, <2>1, SupersedesOrder
  <2>3. g = e
    BY <1>2, <2>2 DEF Supersedes, IsScene
  <2> QED  BY <1>2, <2>2, <2>3, SupersedesOrder
<1>4. Newest(all) \subseteq merged
  BY <1>1 DEF Newest
<1>5. merged \subseteq Newest(all)
  BY <1>1, <1>3 DEF Newest
<1> QED  BY <1>4, <1>5 DEF merged

\* Merging in the newest state of what was merged before forgets nothing that counts.
LEMMA NewestAbsorbs ==
    ASSUME NEW S \in SUBSET Edits, NEW T \in SUBSET Edits,
           \A e \in S : \E f \in Newest(S) : f = e \/ Supersedes(f, e)
    PROVE  Newest(Newest(S) \cup T) = Newest(S \cup T)
<1>1. Newest(S) \subseteq S
  BY DEF Newest
<1>2. ASSUME NEW e \in Newest(Newest(S) \cup T) PROVE e \in Newest(S \cup T)
  <2>1. e \in S \cup T /\ e \in Edits
    BY <1>1, <1>2 DEF Newest
  <2>2. ASSUME NEW f \in S \cup T, Supersedes(f, e) PROVE FALSE
    <3>1. f \in S
      BY <1>2, <2>2 DEF Newest
    <3>2. PICK g \in Newest(S) : g = f \/ Supersedes(g, f)
      BY <3>1
    <3>3. Supersedes(g, e)
      BY <1>1, <2>1, <2>2, <3>1, <3>2, SupersedesOrder
    <3> QED  BY <1>2, <3>3 DEF Newest
  <2> QED  BY <2>1, <2>2 DEF Newest
<1>3. ASSUME NEW e \in Newest(S \cup T) PROVE e \in Newest(Newest(S) \cup T)
  BY <1>1, <1>3 DEF Newest
<1> QED  BY <1>2, <1>3

\* Merging is commutative, associative and idempotent, also across the nonces that decide
\* between concurrent changes: whoever merges the same scenes, in whatever order, grouping
\* and number, has the same scene (reconcile.ts:5-81).
THEOREM MergesConverge ==
    ASSUME NEW A \in Scenes, NEW B \in Scenes, NEW C \in Scenes
    PROVE  /\ ReconcileElements(A, B) = ReconcileElements(B, A)
           /\ ReconcileElements(ReconcileElements(A, B), C)
                = ReconcileElements(A, ReconcileElements(B, C))
           /\ ReconcileElements(A, A) = A
           /\ ReconcileElements(ReconcileElements(A, B), B) = ReconcileElements(A, B)
<1> DEFINE AB == ReconcileElements(A, B)
           BC == ReconcileElements(B, C)
<1>1. /\ A \subseteq Edits /\ B \subseteq Edits /\ C \subseteq Edits
      /\ IsScene(A)
  BY DEF Scenes
<1>2. ASSUME NEW S \in Scenes, NEW T \in Scenes
      PROVE  /\ ReconcileElements(S, T) \in Scenes
             /\ ReconcileElements(S, T) = Newest(S \cup T)
             /\ \A e \in S \cup T : \E f \in Newest(S \cup T) : f = e \/ Supersedes(f, e)
  BY ReconcileCovers, ReconcileIsNewest
<1>3. AB \in Scenes /\ AB = Newest(A \cup B) /\ BC \in Scenes /\ BC = Newest(B \cup C)
  BY <1>2
<1>4. /\ \A e \in A \cup B : \E f \in Newest(A \cup B) : f = e \/ Supersedes(f, e)
      /\ \A e \in B \cup C : \E f \in Newest(B \cup C) : f = e \/ Supersedes(f, e)
  BY <1>2
<1>5. /\ ReconcileElements(AB, C) = Newest(AB \cup C)
      /\ ReconcileElements(A, BC) = Newest(BC \cup A)
      /\ ReconcileElements(AB, B) = Newest(AB \cup B)
      /\ ReconcileElements(B, A) = Newest(A \cup B)
      /\ ReconcileElements(A, A) = Newest(A)
  <2>1. A \cup BC = BC \cup A /\ B \cup A = A \cup B /\ A \cup A = A
    OBVIOUS
  <2>2. ReconcileElements(AB, C) = Newest(AB \cup C) /\ ReconcileElements(AB, B) = Newest(AB \cup B)
    <3> HIDE DEF AB
    <3> QED  BY <1>3, ReconcileIsNewest
  <2>3. ReconcileElements(A, BC) = Newest(A \cup BC)
    <3> HIDE DEF BC
    <3> QED  BY <1>3, ReconcileIsNewest
  <2>4. /\ ReconcileElements(B, A) = Newest(B \cup A)
        /\ ReconcileElements(A, A) = Newest(A \cup A)
    BY ReconcileIsNewest
  <2> HIDE DEF AB, BC
  <2> QED  BY <2>1, <2>2, <2>3, <2>4
<1>6. /\ Newest(AB \cup C) = Newest((A \cup B) \cup C)
      /\ Newest(AB \cup B) = Newest((A \cup B) \cup B)
      /\ Newest(BC \cup A) = Newest((B \cup C) \cup A)
  <2> HIDE DEF AB, BC
  <2>1. A \cup B \in SUBSET Edits /\ B \cup C \in SUBSET Edits
    BY <1>1
  <2> QED  BY <1>1, <1>3, <1>4, <2>1, NewestAbsorbs
<1>7. (A \cup B) \cup C = (B \cup C) \cup A /\ (A \cup B) \cup B = A \cup B
  OBVIOUS
<1>8. Newest(A) = A
  <2>1. ASSUME NEW e \in A, NEW f \in A, Supersedes(f, e) PROVE FALSE
    <3>1. f = e
      BY <1>1, <2>1 DEF Supersedes, IsScene
    <3> QED  BY <1>1, <2>1, <3>1, SupersedesOrder
  <2> QED  BY <2>1 DEF Newest
<1> HIDE DEF AB, BC
<1>9. /\ AB = ReconcileElements(B, A) /\ ReconcileElements(AB, C) = ReconcileElements(A, BC)
      /\ ReconcileElements(AB, B) = AB
  BY <1>3, <1>5, <1>6, <1>7
<1> QED  BY <1>5, <1>8, <1>9 DEF AB, BC
=============================================================================
