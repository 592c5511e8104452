-------------------------- MODULE MCSceneReconcile --------------------------
(***************************************************************************)
(* SceneReconcile for TLC: a shape that two clients change concurrently    *)
(* (the same version, different nonces) and one deletes, and an image that *)
(* is deleted and brought back.                                            *)
(***************************************************************************)
EXTENDS SceneReconcile

CONSTANTS shape, image, photo

Element(id, version, nonce, deleted, file) ==
    [id |-> id, version |-> version, nonce |-> nonce, deleted |-> deleted, file |-> file]

SmallEdits ==
    {Element(shape, 1, 5, FALSE, NoFile), Element(shape, 2, 3, FALSE, NoFile),
     Element(shape, 2, 4, TRUE, NoFile),
     Element(image, 1, 2, FALSE, photo), Element(image, 2, 2, TRUE, photo),
     Element(image, 3, 1, FALSE, photo)}
=============================================================================
