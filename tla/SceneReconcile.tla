--------------------------- MODULE SceneReconcile ---------------------------
(***************************************************************************)
(* What WhiteboardRoom abstracts: the elements and the files of a scene,   *)
(* how a broadcast is merged into the snapshot, and what of it is saved.   *)
(* Broadcasts come in any order and may be old.                            *)
(*                                                                         *)
(* A scene is the set of its elements.  Their order follows from their     *)
(* fractional indices and ids, which are part of an element's state; it is *)
(* left out.                                                               *)
(***************************************************************************)
EXTENDS Naturals

CONSTANTS
    Edits,   \* the states of elements that clients produce
    Files,   \* file identifiers
    NoFile   \* the fileId of an element that is not an image

\* A client that changes an element raises its version and draws a fresh
\* versionNonce: together they name one state of the element.
ASSUME EditsAssumption ==
    /\ \A e \in Edits : /\ e.version \in Nat /\ e.nonce \in Nat
                        /\ e.deleted \in BOOLEAN
                        /\ e.file \in Files \cup {NoFile}
    /\ \A e, f \in Edits :
          e.id = f.id /\ e.version = f.version /\ e.nonce = f.nonce => e = f
    /\ NoFile \notin Files

VARIABLES
    open,      \* the room has a snapshot
    elements,  \* of the snapshot
    files,     \* of the snapshot: where each file is: absent, inline data, or at a URL
    saved,     \* the stored elements and files
    received,  \* history: the elements loaded or received since the room was opened
    known      \* history: the files the snapshot had at the last save

vars == <<open, elements, files, saved, received, known>>

Store == [Files -> {"absent", "data", "url"}]
NoFiles == [f \in Files |-> "absent"]
Present(store) == {f \in Files : store[f] # "absent"}

\* At most one state of an element.
IsScene(S) == \A e, f \in S : e.id = f.id => e = f
Scenes == {S \in SUBSET Edits : IsScene(S)}

Init ==
    /\ open = FALSE
    /\ elements = {}
    /\ files = NoFiles
    /\ saved = [elements |-> {}, files |-> NoFiles]
    /\ received = {}
    /\ known = {}

-----------------------------------------------------------------------------
\* shouldDiscardRemoteElement, with a local element.
DiscardsOnTie(l, r) == l.version >= r.version  \* mutant: the first of a tie stays
DiscardsRemote(l, r) ==
    \/ l.version > r.version
    \/ l.version = r.version /\ l.nonce < r.nonce

\* reconcileElements.
ConcatElements(local, remote) == local \cup remote  \* mutant: nothing is matched by id
ReconcileElements(local, remote) ==
    {r \in remote : ~ \E l \in local : l.id = r.id /\ DiscardsRemote(l, r)}
    \cup {l \in local : \A r \in remote : r.id = l.id => DiscardsRemote(l, r)}

\* reconcileFiles: what comes replaces what is there.
TakeFiles(local, remote) == remote  \* mutant: the files that do not come again are lost
ReconcileFiles(local, remote) ==
    [f \in Files |-> IF remote[f] = "absent" THEN local[f] ELSE remote[f]]

\* prepareContentForSave: a file is kept while an element refers to it, also one
\* that is dropped from what is saved.
PrepareVisible(keepDeleted) ==  \* mutant: the file of a deleted element is dropped
    LET hosts == {e.file : e \in {x \in elements : ~x.deleted}} IN
    [elements |-> {e \in elements : keepDeleted \/ ~e.deleted},
     files |-> [f \in Files |-> IF f \in hosts THEN files[f] ELSE "absent"]]
PrepareContentForSave(keepDeleted) ==
    LET hosts == {e.file : e \in elements} IN
    [elements |-> {e \in elements : keepDeleted \/ ~e.deleted},
     files |-> [f \in Files |-> IF f \in hosts THEN files[f] ELSE "absent"]]

-----------------------------------------------------------------------------
\* The room is opened and its content loaded.
LoadSnapshot ==
    /\ ~open
    /\ open' = TRUE
    /\ elements' = saved.elements
    /\ files' = saved.files
    /\ received' = saved.elements
    /\ UNCHANGED <<saved, known>>

\* A broadcast is merged: InMemorySnapshot.reconcile.
Reconcile(scene, store) ==
    /\ open
    /\ elements' = ReconcileElements(elements, scene)
    /\ files' = ReconcileFiles(files, store)
    /\ received' = received \cup scene
    /\ UNCHANGED <<open, saved, known>>

\* An automatic save.
AutoSave ==
    /\ open
    /\ saved' = PrepareContentForSave(TRUE)
    /\ known' = Present(files)
    /\ UNCHANGED <<open, elements, files, received>>

\* The last save of a room, without the deleted elements.
CloseRoom ==
    /\ open
    /\ open' = FALSE
    /\ saved' = PrepareContentForSave(FALSE)
    /\ known' = Present(files)
    /\ elements' = {}
    /\ files' = NoFiles
    /\ received' = {}

Next ==
    \/ LoadSnapshot
    \/ \E scene \in Scenes, store \in Store : Reconcile(scene, store)
    \/ AutoSave
    \/ CloseRoom

Spec == Init /\ [][Next]_vars

-----------------------------------------------------------------------------
(* Properties.                                                              *)

TypeOK ==
    /\ open \in BOOLEAN
    /\ elements \in Scenes
    /\ files \in Store
    /\ saved \in [elements : Scenes, files : Store]
    /\ received \subseteq Edits
    /\ known \subseteq Files

\* f is a later state of e's element, or the one that wins a concurrent change.
Supersedes(f, e) ==
    f.id = e.id /\ (f.version > e.version \/ (f.version = e.version /\ f.nonce < e.nonce))

Newest(S) == {e \in S : ~ \E f \in S : Supersedes(f, e)}

\* The snapshot is the newest state of every element received, in whatever order and
\* however often the broadcasts came (reconcile.ts:5-81).
NewestWins == elements = Newest(received)

\* An image is never saved without its file when the snapshot has the file, also a
\* deleted image that an undo may bring back (prepare.content.for.save.ts:10-34).
ImageSavedWithFile ==
    \A e \in saved.elements : e.file \in known => saved.files[e.file] # "absent"

\* While a room is open nothing undoes an edit it has seen: an element is only ever
\* replaced by a newer state, and a file never disappears (reconcile.ts:14-32,
\* reconcile.files.ts:9-44).
OnlyForward ==
    [][open /\ open' =>
          /\ \A e \in elements : \E f \in elements' : f = e \/ Supersedes(f, e)
          /\ Present(files) \subseteq Present(files')]_vars
=============================================================================
